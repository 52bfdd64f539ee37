--------------------------- MODULE CheckoutProofs ---------------------------
(***************************************************************************)
(* Checkout and DiscountAllocation: types, the quota and the stock against *)
(* the orders and the effects still on their way; the distribution of the  *)
(* discounts, round by round.                                              *)
(***************************************************************************)
EXTENDS Checkout, DiscountAllocation, Sums

-----------------------------------------------------------------------------
(* The inductive invariant. *)

CheckoutOps == {"check", "consume", "clear", "clearLines", "commit"}
AddOps == {"addCart", "addCreate", "addLine", "addWrite"}
MergeOps == {"mergeUser", "mergeCreate", "mergeLine", "mergeWrite", "mergeDrop", "mergeEnd"}

\* At most one line is found for a variant.
AtMostOne(hit) == \A k, l \in hit : k = l

\* What a request in flight remembers, and what of it stays true whatever the
\* others do: the rows it will write are of the variants it works on, the units it
\* will give back belong to an order.
Sound(job) ==
  /\ job.op \in AddOps => job.variant \in job.on
  /\ job.op = "addWrite" =>
       /\ AtMostOne(job.hit)
       /\ \A l \in job.hit : line[l] # NoLine => line[l].variant = job.variant
  /\ job.op \in {"editOwn", "editWrite"} =>
       (line[job.line] # NoLine => line[job.line].variant \in job.on)
  /\ job.op \in MergeOps \cup CheckoutOps => job.on = Variants
  /\ job.op \in {"mergeUser", "mergeCreate", "mergeLine", "mergeWrite"} => IsFiniteSet(job.left)
  /\ job.op = "mergeUser" => owner[job.guest] # "user"
  /\ job.op \in {"mergeLine", "mergeWrite"} => job.cart # job.guest
  /\ job.op = "mergeWrite" =>
       /\ AtMostOne(job.hit)
       /\ job.item \notin job.left
       /\ \A l \in job.hit : line[l] # NoLine =>
            line[l].variant = job.item.variant /\ line[l].cart = job.cart
  /\ job.op \in CheckoutOps => IsFiniteSet(job.items) /\ job.items # {}
  /\ job.op = "consume" => job.left \subseteq FlashOf(job.items)
  /\ job.op = "deduct" => IsFiniteSet(job.left)
  /\ job.op = "cancel" => Placed(job.order)
  /\ job.op = "undo" =>
       /\ IsFiniteSet(job.restore)
       /\ job.reverse \subseteq job.restore
       /\ \A i \in job.reverse : i.flash /\ \E o \in Orders : Placed(o) /\ i \in order[o].items

JobsSound == \A r \in Requests : Sound(req[r])

\* Every line lies in a cart that someone owns.
LinesOwned == \A l \in Lines : line[l] # NoLine => owner[line[l].cart] # "nobody"

OrdersSound == \A o \in Orders : Placed(o) => IsFiniteSet(order[o].items) /\ order[o].items # {}

\* A variant that is not raced is worked on by one request.
OneAtWork ==
  \A r, s \in Requests : r # s => req[r].on \cap req[s].on \subseteq raced

OneCart == twin \/ \A o \in Owners : \A c, d \in CartsOf(o) : c = d

\* The row lock of a flash item is held by one transaction.
OneLock == \A r, s \in Requests : r # s => VariantsOf(Taken(r)) \cap VariantsOf(Taken(s)) = {}

\* The units taken in a transaction that is still open are within the quota, too.
WithinQuota ==
  \A v \in Variants :
    /\ sold[v] <= Quota[v]
    /\ \A r \in Requests : sold[v] + Units(Taken(r), v) <= Quota[v]

SoldCovers == \A v \in Variants \ overwritten : sold[v] >= LiveFlash(v) + ToReverse(v)

-----------------------------------------------------------------------------
(* What the carts hold.                                                      *)

Merging == {"mergeLine", "mergeWrite", "mergeDrop"}

\* A row of a line of variant v, and the units of v it stands for.
Has(row, v) == row # NoLine /\ row.variant = v
UnitsAt(row, v) == IF Has(row, v) THEN row.quantity ELSE 0

\* Units of v on the lines ls, and the lines of cart c, when f is what the lines hold.
Among(f, ls, v) == SumFunctionOnSet([l \in Lines |-> IF l \in ls THEN UnitsAt(f[l], v) ELSE 0], Lines)
InCart(f, c) == {l \in Lines : f[l].cart = c}

\* The line a job has found is still as it found it when it computed sum.
Found(f, v, hit, sum, n) == \A l \in hit : Has(f[l], v) /\ sum = f[l].quantity + n

\* What a job knows, as far as it concerns variant v, of lines f, the customer's carts cs,
\* the lines `gone` that its transaction has deleted, and the units `due` that were put
\* into the carts and not ordered: the quantity of the line it will overwrite, the
\* units of the cart it copies or orders.
Knows(job, v, f, cs, gone, due) ==
  /\ job.op = "addWrite" /\ job.variant = v => Found(f, v, job.hit, job.sum, job.quantity)
  /\ job.op \in {"mergeUser", "mergeCreate"} =>
       Units(job.left, v) = Among(f, InCart(f, job.guest), v)
  /\ job.op = "mergeLine" =>
       Among(f, Lines, v) + Units(job.left, v) = due + Among(f, InCart(f, job.guest), v)
  /\ job.op = "mergeWrite" =>
       /\ Among(f, Lines, v) + Units(job.left \cup {job.item}, v)
            = due + Among(f, InCart(f, job.guest), v)
       /\ job.item.variant = v => Found(f, v, job.hit, job.sum, job.item.quantity)
  /\ job.op = "mergeDrop" => Among(f, Lines, v) = due + Among(f, InCart(f, job.guest), v)
  /\ job.op \in {"check", "consume", "clear"} =>
       \E c \in cs : Units(job.items, v) = Among(f, InCart(f, c), v)
  /\ job.op = "clearLines" => Units(job.items, v) = Among(f, InCart(f, job.cart), v)
  /\ job.op = "commit" => Units(job.items, v) = Among(f, gone, v)

Due(v) == wanted[v] - OrderedUnits(v)

Accurate(r, v) == Knows(req[r], v, line, CartsOf("user"), cleared[r], Due(v))

\* The carts hold what is due, except while a merge has copied some of it.
Balanced(v) ==
  /\ (\A r \in Requests : req[r].op \notin Merging) => Among(line, Lines, v) = Due(v)
  /\ \A r \in Requests : Accurate(r, v)

AllBalanced == twin \/ torn \/ \A v \in Variants \ raced : Balanced(v)

-----------------------------------------------------------------------------
SInv == TypeOK /\ JobsSound /\ LinesOwned /\ OrdersSound

-----------------------------------------------------------------------------
(* Jobs. *)

AllJobs == CartJob \cup OrderJob

\* The fields a job has by its op.
LEMMA JobFacts ==
  ASSUME NEW job \in AllJobs
  PROVE  /\ job.on \in SUBSET Variants
         /\ job.op \in {"addCart", "addCreate"} =>
              job.owner \in Owners /\ job.cap \in Nat
         /\ job.op \in AddOps => job.variant \in Variants /\ job.quantity \in Nat \ {0}
         /\ job.op = "addLine" => job.cart \in CartIds /\ job.cap \in Nat
         /\ job.op = "addWrite" =>
              job.cart \in CartIds /\ job.hit \in SUBSET Lines /\ job.sum \in Nat \ {0}
         /\ job.op = "editOwn" => job.owner \in Owners /\ job.cart \in CartIds
         /\ job.op \in {"editOwn", "editWrite"} => job.line \in Lines /\ job.to \in Nat
BY DEF AllJobs, CartJob, OrderJob, Idle, AddOps

LEMMA MergeFacts ==
  ASSUME NEW job \in AllJobs
  PROVE  /\ job.op \in MergeOps => job.guest \in CartIds
         /\ job.op \in {"mergeUser", "mergeCreate", "mergeLine", "mergeWrite"} =>
              job.left \in SUBSET Item
         /\ job.op \in {"mergeLine", "mergeWrite"} => job.cart \in CartIds
         /\ job.op = "mergeWrite" =>
              job.item \in Item /\ job.hit \in SUBSET Lines /\ job.sum \in Nat \ {0}
BY DEF AllJobs, CartJob, OrderJob, Idle, MergeOps

LEMMA OrderJobFacts ==
  ASSUME NEW job \in AllJobs
  PROVE  /\ job.op = "check" => job.items \in SUBSET Item
         /\ job.op \in {"consume", "clear", "clearLines", "commit"} => job.items \in SUBSET OrderItem
         /\ job.op \in {"consume", "deduct"} => job.left \in SUBSET OrderItem
         /\ job.op = "clearLines" => job.cart \in CartIds
         /\ job.op = "commit" => job.carts \in SUBSET CartIds
         /\ job.op = "cancel" => job.order \in Orders
         /\ job.op = "undo" => job.reverse \in SUBSET OrderItem /\ job.restore \in SUBSET OrderItem
BY DEF AllJobs, CartJob, OrderJob, Idle

\* The fields that name rows are there for FreshCart.
LEMMA JobNames ==
  ASSUME NEW job \in AllJobs
  PROVE  /\ job.op = "mergeUser" => "guest" \in DOMAIN job
         /\ job.op = "mergeCreate" => "guest" \in DOMAIN job
         /\ job.op \in {"mergeLine", "mergeWrite"} => "guest" \in DOMAIN job /\ "cart" \in DOMAIN job
BY DEF AllJobs, CartJob, OrderJob, Idle
\* What a job of one kind may become.
LEMMA SameJobFields ==
  ASSUME NEW job \in AllJobs
  PROVE  /\ job.op = "addCart" => [job EXCEPT !.op = "addCreate"] \in AllJobs
         /\ job.op = "mergeUser" => [job EXCEPT !.op = "mergeCreate"] \in AllJobs
         /\ job.op = "mergeDrop" => [job EXCEPT !.op = "mergeEnd"] \in AllJobs
<1>1. ASSUME job.op = "addCart" PROVE [job EXCEPT !.op = "addCreate"] \in AllJobs
  <2>1. job \in [op : {"addCart", "addCreate"}, on : SUBSET Variants, owner : Owners,
                 variant : Variants, quantity : Nat \ {0}, cap : Nat]
    BY <1>1 DEF AllJobs, CartJob, OrderJob, Idle
  <2>2. [job EXCEPT !.op = "addCreate"] \in
          [op : {"addCart", "addCreate"}, on : SUBSET Variants, owner : Owners,
           variant : Variants, quantity : Nat \ {0}, cap : Nat]
    BY <2>1
  <2> QED BY <2>2 DEF AllJobs, CartJob
<1>2. ASSUME job.op = "mergeUser" PROVE [job EXCEPT !.op = "mergeCreate"] \in AllJobs
  <2>1. job \in [op : {"mergeUser", "mergeCreate"}, on : SUBSET Variants, guest : CartIds,
                 left : SUBSET Item]
    BY <1>2 DEF AllJobs, CartJob, OrderJob, Idle
  <2>2. [job EXCEPT !.op = "mergeCreate"] \in
          [op : {"mergeUser", "mergeCreate"}, on : SUBSET Variants, guest : CartIds,
           left : SUBSET Item]
    BY <2>1
  <2> QED BY <2>2 DEF AllJobs, CartJob
<1>3. ASSUME job.op = "mergeDrop" PROVE [job EXCEPT !.op = "mergeEnd"] \in AllJobs
  <2>1. job \in [op : {"mergeDrop", "mergeEnd"}, on : SUBSET Variants, guest : CartIds]
    BY <1>3 DEF AllJobs, CartJob, OrderJob, Idle
  <2>2. [job EXCEPT !.op = "mergeEnd"] \in
          [op : {"mergeDrop", "mergeEnd"}, on : SUBSET Variants, guest : CartIds]
    BY <2>1
  <2> QED BY <2>2 DEF AllJobs, CartJob
<1> QED BY <1>1, <1>2, <1>3

\* What is left of a loop over items after one of them.
LEMMA LoopFields ==
  ASSUME NEW job \in AllJobs, NEW i
  PROVE  /\ job.op \in {"consume", "deduct"} => [job EXCEPT !.left = @ \ {i}] \in AllJobs
         /\ job.op = "undo" => /\ [job EXCEPT !.reverse = @ \ {i}] \in AllJobs
                               /\ [job EXCEPT !.restore = @ \ {i}] \in AllJobs
<1>1. ASSUME job.op = "consume" PROVE [job EXCEPT !.left = @ \ {i}] \in AllJobs
  <2>1. job \in [op : {"consume"}, on : SUBSET Variants, items : SUBSET OrderItem,
                 left : SUBSET OrderItem]
    BY <1>1 DEF AllJobs, CartJob, OrderJob, Idle
  <2>2. [job EXCEPT !.left = @ \ {i}] \in
          [op : {"consume"}, on : SUBSET Variants, items : SUBSET OrderItem,
           left : SUBSET OrderItem]
    BY <2>1
  <2> QED BY <2>2 DEF AllJobs, OrderJob
<1>2. ASSUME job.op = "deduct" PROVE [job EXCEPT !.left = @ \ {i}] \in AllJobs
  <2>1. job \in [op : {"deduct"}, on : SUBSET Variants, left : SUBSET OrderItem]
    BY <1>2 DEF AllJobs, CartJob, OrderJob, Idle
  <2>2. [job EXCEPT !.left = @ \ {i}] \in
          [op : {"deduct"}, on : SUBSET Variants, left : SUBSET OrderItem]
    BY <2>1
  <2> QED BY <2>2 DEF AllJobs, OrderJob
<1>3. ASSUME job.op = "undo"
      PROVE  /\ [job EXCEPT !.reverse = @ \ {i}] \in AllJobs
             /\ [job EXCEPT !.restore = @ \ {i}] \in AllJobs
  <2>1. job \in [op : {"undo"}, on : SUBSET Variants, reverse : SUBSET OrderItem,
                 restore : SUBSET OrderItem]
    BY <1>3 DEF AllJobs, CartJob, OrderJob, Idle
  <2>2. /\ [job EXCEPT !.reverse = @ \ {i}] \in
             [op : {"undo"}, on : SUBSET Variants, reverse : SUBSET OrderItem,
              restore : SUBSET OrderItem]
        /\ [job EXCEPT !.restore = @ \ {i}] \in
             [op : {"undo"}, on : SUBSET Variants, reverse : SUBSET OrderItem,
              restore : SUBSET OrderItem]
    BY <2>1
  <2> QED BY <2>2 DEF AllJobs, OrderJob
<1> QED BY <1>1, <1>2, <1>3

-----------------------------------------------------------------------------
(* Rows. *)

RowsOK ==
  /\ CartTypeOK
  /\ order \in [Orders -> {NoOrder} \cup [status : {"live", "cancelled"},
                                         items : SUBSET OrderItem]]
  /\ sold \in [Variants -> Nat]
  /\ open \subseteq Variants
  /\ short \cup leaked \cup overwritten \cup crossed \subseteq Variants

\* A line keeps its cart and its variant; an id is used again only when it is fresh.
LinesKept ==
  \A l \in Lines :
    \/ line'[l] = NoLine
    \/ /\ line[l] # NoLine
       /\ line'[l].variant = line[l].variant /\ line'[l].cart = line[l].cart
    \/ FreshLine(l)

CartsKept == \A c \in CartIds : owner'[c] = "user" => owner[c] = "user" \/ FreshCart(c)

OrdersKept == \A o \in Orders : Placed(o) => order'[o] # NoOrder /\ order'[o].items = order[o].items

\* No step of another request makes a sound job unsound.
LEMMA SoundKept ==
  ASSUME SInv, NEW s \in Requests, NEW job, job = req[s],
         LinesKept, CartsKept, OrdersKept
  PROVE  Sound(job)'
<1>1. job \in AllJobs /\ Sound(job)
  BY DEF SInv, TypeOK, JobsSound, AllJobs
<1>2. ASSUME job.op = "addWrite", NEW l \in job.hit, line'[l] # NoLine
      PROVE  line'[l].variant = job.variant
  <2>1. l \in Lines
    BY <1>1, <1>2, JobFacts
  <2>2. ~FreshLine(l)
    BY <1>2 DEF FreshLine
  <2>3. line[l] # NoLine /\ line'[l].variant = line[l].variant
    BY <1>2, <2>1, <2>2 DEF LinesKept
  <2> QED BY <1>1, <1>2, <2>3 DEF Sound
<1>3. ASSUME job.op \in {"editOwn", "editWrite"}, line'[job.line] # NoLine
      PROVE  line'[job.line].variant \in job.on
  <2>1. job.line \in Lines
    BY <1>1, <1>3, JobFacts
  <2>2. ~FreshLine(job.line)
    BY <1>3 DEF FreshLine
  <2>3. line[job.line] # NoLine /\ line'[job.line].variant = line[job.line].variant
    BY <1>3, <2>1, <2>2 DEF LinesKept
  <2> QED BY <1>1, <1>3, <2>3 DEF Sound
<1>4. ASSUME job.op = "mergeUser"
      PROVE  owner'[job.guest] # "user"
  <2>1. job.guest \in CartIds /\ "guest" \in DOMAIN job
    BY <1>1, <1>4, MergeFacts, JobNames DEF MergeOps
  <2>2. ~FreshCart(job.guest)
    BY <2>1 DEF FreshCart
  <2> QED BY <1>1, <1>4, <2>1, <2>2 DEF CartsKept, Sound
<1>5. ASSUME job.op = "mergeWrite", NEW l \in job.hit, line'[l] # NoLine
      PROVE  line'[l].variant = job.item.variant /\ line'[l].cart = job.cart
  <2>1. l \in Lines
    BY <1>1, <1>5, MergeFacts
  <2>2. ~FreshLine(l)
    BY <1>5 DEF FreshLine
  <2>3. line[l] # NoLine /\ line'[l].variant = line[l].variant /\ line'[l].cart = line[l].cart
    BY <1>5, <2>1, <2>2 DEF LinesKept
  <2> QED BY <1>1, <1>5, <2>3 DEF Sound
<1>6. ASSUME job.op = "cancel"
      PROVE  order'[job.order] # NoOrder
  BY <1>1, <1>6, OrderJobFacts DEF Sound, OrdersKept, Placed
<1>7. ASSUME job.op = "undo", NEW i \in job.reverse
      PROVE  i.flash /\ \E o \in Orders : order'[o] # NoOrder /\ i \in order'[o].items
  <2>1. PICK o \in Orders : Placed(o) /\ i \in order[o].items
    BY <1>1, <1>7 DEF Sound
  <2>2. i.flash
    BY <1>1, <1>7 DEF Sound
  <2>3. order'[o] # NoOrder /\ i \in order'[o].items
    BY <2>1 DEF OrdersKept
  <2> QED BY <2>2, <2>3
<1>8. /\ job.op \in AddOps => job.variant \in job.on
      /\ job.op = "addWrite" => AtMostOne(job.hit)
      /\ job.op \in MergeOps \cup CheckoutOps => job.on = Variants
      /\ job.op \in {"mergeUser", "mergeCreate", "mergeLine", "mergeWrite"} => IsFiniteSet(job.left)
      /\ job.op \in {"mergeLine", "mergeWrite"} => job.cart # job.guest
      /\ job.op = "mergeWrite" => AtMostOne(job.hit) /\ job.item \notin job.left
      /\ job.op \in CheckoutOps => IsFiniteSet(job.items) /\ job.items # {}
      /\ job.op = "consume" => job.left \subseteq FlashOf(job.items)
      /\ job.op = "deduct" => IsFiniteSet(job.left)
      /\ job.op = "undo" => IsFiniteSet(job.restore) /\ job.reverse \subseteq job.restore
  BY <1>1, Zenon DEF Sound
<1> QED BY <1>2, <1>3, <1>4, <1>5, <1>6, <1>7, <1>8 DEF Sound, Placed, AtMostOne, FlashOf

LEMMA StepInv ==
  ASSUME SInv, NEW r \in Requests, NEW job \in AllJobs, req' = [req EXCEPT ![r] = job],
         Sound(job)', RowsOK', LinesKept, CartsKept, OrdersKept, LinesOwned', OrdersSound'
  PROVE  SInv'
<1>1. req \in [Requests -> AllJobs]
  BY DEF SInv, TypeOK, AllJobs
<1>2. req' \in [Requests -> AllJobs]
  BY <1>1
<1>3. TypeOK'
  BY <1>2 DEF RowsOK, TypeOK, AllJobs
<1>4. JobsSound'
  <2> SUFFICES ASSUME NEW s \in Requests PROVE Sound(req[s])'
    BY DEF JobsSound
  <2>1. CASE s = r
    BY <1>1, <2>1
  <2>2. CASE s # r
    <3>1. PICK k : k = req[s]
      OBVIOUS
    <3>2. Sound(k)'
      BY <3>1, SoundKept
    <3>3. req'[s] = k
      BY <1>1, <2>2, <3>1
    <3> QED BY <3>2, <3>3
  <2> QED BY <2>1, <2>2
<1> QED BY <1>3, <1>4 DEF SInv

\* A step that writes none of the rows jobs rely on.
LEMMA QuietInv ==
  ASSUME SInv, NEW r \in Requests, NEW job \in AllJobs, req' = [req EXCEPT ![r] = job],
         Sound(job), RowsOK', UNCHANGED <<owner, line, order>>
  PROVE  SInv'
<1>1. LinesKept
  BY DEF LinesKept
<1>2. CartsKept /\ OrdersKept
  BY DEF CartsKept, OrdersKept, Placed
<1>3. Sound(job)'
  BY DEF Sound, Placed, FlashOf, AtMostOne
<1>4. LinesOwned' /\ OrdersSound'
  BY DEF SInv, LinesOwned, OrdersSound, Placed
<1> QED BY <1>1, <1>2, <1>3, <1>4, StepInv

LEMMA IdleJob == Idle \in AllJobs /\ Sound(Idle) /\ Sound(Idle)' /\ Idle.op = "idle" /\ Idle.on = {}
BY DEF AllJobs, CartJob, Idle, Sound, AddOps, MergeOps, CheckoutOps

LEMMA LineFacts ==
  ASSUME TypeOK, NEW l \in Lines
  PROVE  /\ line[l] # NoLine => /\ line[l] \in Row /\ line[l].cart \in CartIds
                                /\ line[l].variant \in Variants /\ line[l].quantity \in Nat \ {0}
         /\ \A c \in CartIds : l \in LinesOf(c) <=> line[l] # NoLine /\ line[l].cart = c
<1>1. line[l] = NoLine \/ line[l] \in Row
  BY DEF TypeOK, CartTypeOK
<1>2. line[l] \in Row => /\ line[l].cart \in CartIds
                        /\ line[l].variant \in Variants /\ line[l].quantity \in Nat \ {0}
  BY DEF Row
<1>3. NoLine.cart \notin CartIds
  BY CartAssumption DEF NoLine
<1> QED BY <1>1, <1>2, <1>3 DEF LinesOf

\* The items of a cart are as many as its lines.
LEMMA ItemsFacts ==
  ASSUME TypeOK, NEW c \in CartIds
  PROVE  /\ Items(c) \in SUBSET Item
         /\ IsFiniteSet(Items(c)) /\ IsFiniteSet(LinesOf(c))
         /\ LinesOf(c) # {} => Items(c) # {}
         /\ \A i \in Items(c) : i.line \in LinesOf(c)
<1>1. \A l \in LinesOf(c) : l \in Lines /\ line[l].variant \in Variants /\ line[l].quantity \in Nat \ {0}
  BY LineFacts DEF LinesOf
<1>2. Items(c) \in SUBSET Item
  BY <1>1 DEF Items, Item
<1>3. IsFiniteSet(LinesOf(c))
  BY FS_Subset, CartAssumption DEF LinesOf
<1> DEFINE f == [l \in LinesOf(c) |-> [line |-> l, variant |-> line[l].variant,
                                       quantity |-> line[l].quantity]]
<1>4. f \in Surjection(LinesOf(c), Items(c))
  BY DEF Surjection, Items
<1>5. IsFiniteSet(Items(c))
  BY <1>3, <1>4, FS_Surjection
<1>6. LinesOf(c) # {} => Items(c) # {}
  BY DEF Items
<1>7. \A i \in Items(c) : i.line \in LinesOf(c)
  BY DEF Items
<1> QED BY <1>2, <1>3, <1>5, <1>6, <1>7

\* A hit is a line of the variant, or none.
LEMMA HitFacts ==
  ASSUME TypeOK, NEW c \in CartIds, NEW v, NEW hit \in Hits(c, v)
  PROVE  /\ hit \in SUBSET Lines /\ AtMostOne(hit)
         /\ \A l \in hit : /\ line[l] # NoLine /\ line[l].variant = v /\ line[l].cart = c
                           /\ QuantityOf(hit) = line[l].quantity
         /\ QuantityOf(hit) \in Nat
<1>1. CASE hit = {}
  BY <1>1 DEF AtMostOne, QuantityOf
<1>2. CASE hit # {}
  <2>1. PICK l \in LinesOf(c) : line[l].variant = v /\ hit = {l}
    BY <1>2 DEF Hits
  <2>2. l \in Lines /\ line[l] # NoLine /\ line[l].cart = c /\ line[l].quantity \in Nat
    BY LineFacts DEF LinesOf
  <2>3. QuantityOf(hit) = line[l].quantity
    BY <2>1 DEF QuantityOf
  <2> QED BY <2>1, <2>2, <2>3 DEF AtMostOne
<1> QED BY <1>1, <1>2

-----------------------------------------------------------------------------
(* The steps of the cart. *)

LEMMA BeginFacts ==
  ASSUME SInv, NEW r \in Requests, NEW job, job.on \in SUBSET Variants, Begin(r, job)
  PROVE  /\ req' = [req EXCEPT ![r] = job]
         /\ started' \in 0 .. MaxRequests /\ raced' \in SUBSET Variants
<1>1. /\ req' = [req EXCEPT ![r] = job]
      /\ started < MaxRequests /\ started' = started + 1
      /\ raced' = raced \cup (job.on \cap UNION {req[s].on : s \in Requests})
  BY DEF Begin, Goto
<1>2. started \in 0 .. MaxRequests /\ raced \in SUBSET Variants /\ MaxRequests \in Nat
  BY CartAssumption DEF SInv, TypeOK, CartTypeOK
<1>3. started' \in 0 .. MaxRequests
  BY <1>1, <1>2
<1> QED BY <1>1, <1>2, <1>3

LEMMA SameRows ==
  ASSUME SInv, UNCHANGED <<owner, line, stock, cleared, wanted, twin, torn, orderVars>>,
         started' \in 0 .. MaxRequests, raced' \in SUBSET Variants
  PROVE  RowsOK'
BY DEF SInv, TypeOK, RowsOK, CartTypeOK, orderVars

LEMMA AddItemInv ==
  ASSUME SInv, NEW r \in Requests, NEW o \in Owners, NEW v \in Variants,
         NEW n \in 1 .. MaxQuantity, AddItem(r, o, v, n), UNCHANGED orderVars
  PROVE  SInv'
<1> DEFINE job == [op |-> "addCart", on |-> {v}, owner |-> o, variant |-> v,
                   quantity |-> n, cap |-> stock[v]]
<1>1. stock[v] \in Nat /\ n \in Nat \ {0}
  BY CartAssumption DEF SInv, TypeOK, CartTypeOK
<1>2. job \in AllJobs
  BY <1>1 DEF AllJobs, CartJob
<1>3. Sound(job) /\ job.on \in SUBSET Variants
  BY DEF Sound, AddOps, MergeOps, CheckoutOps
<1>4. Begin(r, job) /\ UNCHANGED <<owner, line, stock, cleared, wanted, twin, torn>>
  BY DEF AddItem
<1> HIDE DEF job
<1>5. /\ req' = [req EXCEPT ![r] = job]
      /\ started' \in 0 .. MaxRequests /\ raced' \in SUBSET Variants
  BY <1>3, <1>4, BeginFacts
<1>6. RowsOK' /\ order' = order
  BY <1>4, <1>5, SameRows DEF orderVars
<1> QED BY <1>2, <1>3, <1>4, <1>5, <1>6, QuietInv

\* A step that only gives request r another job.
LEMMA GotoInv ==
  ASSUME SInv, NEW r \in Requests, NEW job \in AllJobs, Goto(r, job), Sound(job),
         UNCHANGED <<owner, line, stock, cleared, started, wanted, raced, twin, torn, orderVars>>
  PROVE  SInv'
<1>1. started' \in 0 .. MaxRequests /\ raced' \in SUBSET Variants
  BY DEF SInv, TypeOK, CartTypeOK
<1>2. RowsOK' /\ order' = order
  BY <1>1, SameRows DEF orderVars
<1>3. req' = [req EXCEPT ![r] = job]
  BY DEF Goto
<1> QED BY <1>2, <1>3, QuietInv

LEMMA JobAt ==
  ASSUME SInv, NEW r \in Requests
  PROVE  req[r] \in AllJobs /\ Sound(req[r])
BY DEF SInv, TypeOK, JobsSound, AllJobs

LEMMA AddFindCartInv ==
  ASSUME SInv, NEW r \in Requests, AddFindCart(r), UNCHANGED orderVars
  PROVE  SInv'
<1>1. PICK job \in AllJobs : job = req[r] /\ job.op = "addCart" /\ Sound(job)
  BY JobAt DEF AddFindCart
<1>2. /\ job.on \in SUBSET Variants /\ job.owner \in Owners /\ job.cap \in Nat
      /\ job.variant \in Variants /\ job.quantity \in Nat \ {0} /\ job.variant \in job.on
  BY <1>1, JobFacts DEF AddOps, Sound
<1>3. UNCHANGED <<owner, line, stock, cleared, started, wanted, raced, twin, torn>>
  BY DEF AddFindCart
<1>4. CASE Goto(r, [job EXCEPT !.op = "addCreate"])
  <2> DEFINE next == [job EXCEPT !.op = "addCreate"]
  <2>1. next \in AllJobs
    BY <1>1, SameJobFields
  <2>2. Sound(next)
    <3>1. job \in [op : {"addCart", "addCreate"}, on : SUBSET Variants, owner : Owners,
                   variant : Variants, quantity : Nat \ {0}, cap : Nat]
      BY <1>1 DEF AllJobs, CartJob, OrderJob, Idle
    <3>2. next.op = "addCreate" /\ next.variant = job.variant /\ next.on = job.on
      BY <3>1
    <3> HIDE DEF next
    <3> QED BY <1>2, <3>2 DEF Sound, AddOps, MergeOps, CheckoutOps
  <2> HIDE DEF next
  <2> QED BY <1>3, <1>4, <2>1, <2>2, GotoInv DEF next
<1>5. ASSUME NEW c \in CartIds,
             Goto(r, [op |-> "addLine", on |-> job.on, cart |-> c, variant |-> job.variant,
                      quantity |-> job.quantity, cap |-> job.cap])
      PROVE  SInv'
  <2> DEFINE next == [op |-> "addLine", on |-> job.on, cart |-> c, variant |-> job.variant,
                      quantity |-> job.quantity, cap |-> job.cap]
  <2>1. next \in AllJobs
    BY <1>2 DEF AllJobs, CartJob
  <2>2. Sound(next)
    BY <1>2 DEF Sound, AddOps, MergeOps, CheckoutOps
  <2> HIDE DEF next
  <2> QED BY <1>3, <1>5, <2>1, <2>2, GotoInv DEF next
<1> QED BY <1>1, <1>4, <1>5 DEF AddFindCart, CartsOf

\* A cart that is inserted is nobody's and in no job before.
LEMMA InsertCartFacts ==
  ASSUME SInv, NEW c \in CartIds, NEW o \in Owners, InsertCart(c, o), UNCHANGED line
  PROVE  /\ owner' \in [CartIds -> Owners \cup {"nobody"}] /\ twin' \in BOOLEAN
         /\ CartsKept /\ LinesOwned'
<1>1. /\ owner' = [owner EXCEPT ![c] = o] /\ FreshCart(c)
      /\ twin' = (twin \/ TwinCart(o))
  BY DEF InsertCart
<1>2. owner \in [CartIds -> Owners \cup {"nobody"}] /\ twin \in BOOLEAN
  BY DEF SInv, TypeOK, CartTypeOK
<1>3. o # "nobody"
  BY DEF Owners
<1>4. CartsKept
  BY <1>1, <1>2 DEF CartsKept
<1>5. LinesOwned'
  BY <1>1, <1>2, <1>3, LineFacts DEF SInv, LinesOwned
<1>6. twin' \in BOOLEAN
  BY <1>1, <1>2 DEF TwinCart
<1> QED BY <1>1, <1>2, <1>4, <1>5, <1>6

LEMMA AddCreateCartInv ==
  ASSUME SInv, NEW r \in Requests, NEW c \in CartIds, AddCreateCart(r, c), UNCHANGED orderVars
  PROVE  SInv'
<1>1. PICK job \in AllJobs : job = req[r] /\ job.op = "addCreate" /\ Sound(job)
  BY JobAt DEF AddCreateCart
<1>2. /\ job.on \in SUBSET Variants /\ job.owner \in Owners /\ job.cap \in Nat
      /\ job.variant \in Variants /\ job.quantity \in Nat \ {0} /\ job.variant \in job.on
  BY <1>1, JobFacts DEF AddOps, Sound
<1> DEFINE next == [op |-> "addLine", on |-> job.on, cart |-> c, variant |-> job.variant,
                    quantity |-> job.quantity, cap |-> job.cap]
<1>3. next \in AllJobs
  BY <1>2 DEF AllJobs, CartJob
<1>4. Sound(next)'
  BY <1>2 DEF Sound, AddOps, MergeOps, CheckoutOps
<1>5. /\ InsertCart(c, job.owner) /\ Goto(r, next)
      /\ UNCHANGED <<line, stock, cleared, started, wanted, raced, torn>>
  BY <1>1 DEF AddCreateCart
<1> HIDE DEF next
<1>6. /\ owner' \in [CartIds -> Owners \cup {"nobody"}] /\ twin' \in BOOLEAN
      /\ CartsKept /\ LinesOwned'
  BY <1>2, <1>5, InsertCartFacts
<1>7. RowsOK'
  BY <1>5, <1>6 DEF SInv, TypeOK, RowsOK, CartTypeOK, orderVars
<1>8. LinesKept /\ OrdersKept /\ OrdersSound'
  BY <1>5 DEF LinesKept, OrdersKept, Placed, orderVars, SInv, OrdersSound
<1> QED BY <1>3, <1>4, <1>5, <1>6, <1>7, <1>8, StepInv DEF Goto

LEMMA AddFindLineInv ==
  ASSUME SInv, NEW r \in Requests, AddFindLine(r), UNCHANGED orderVars
  PROVE  SInv'
<1>1. PICK job \in AllJobs : job = req[r] /\ job.op = "addLine" /\ Sound(job)
  BY JobAt DEF AddFindLine
<1>2. /\ job.on \in SUBSET Variants /\ job.cart \in CartIds
      /\ job.variant \in Variants /\ job.quantity \in Nat \ {0} /\ job.variant \in job.on
  BY <1>1, JobFacts DEF AddOps, Sound
<1>3. UNCHANGED <<owner, line, stock, cleared, started, wanted, raced, twin, torn>>
  BY DEF AddFindLine
<1>4. CASE Goto(r, Idle)
  BY <1>3, <1>4, IdleJob, GotoInv
<1>5. ASSUME NEW hit \in Hits(job.cart, job.variant),
             Goto(r, [op |-> "addWrite", on |-> job.on, cart |-> job.cart,
                      variant |-> job.variant, quantity |-> job.quantity,
                      hit |-> hit, sum |-> QuantityOf(hit) + job.quantity])
      PROVE  SInv'
  <2> DEFINE next == [op |-> "addWrite", on |-> job.on, cart |-> job.cart,
                      variant |-> job.variant, quantity |-> job.quantity,
                      hit |-> hit, sum |-> QuantityOf(hit) + job.quantity]
  <2>1. /\ hit \in SUBSET Lines /\ AtMostOne(hit) /\ QuantityOf(hit) \in Nat
        /\ \A l \in hit : line[l].variant = job.variant
    BY <1>2, HitFacts DEF SInv
  <2>2. QuantityOf(hit) + job.quantity \in Nat \ {0}
    BY <1>2, <2>1
  <2>3. next \in AllJobs
    BY <1>2, <2>1, <2>2 DEF AllJobs, CartJob
  <2>4. Sound(next)
    BY <1>2, <2>1 DEF Sound, AddOps, MergeOps, CheckoutOps
  <2> HIDE DEF next
  <2> QED BY <1>3, <1>5, <2>3, <2>4, GotoInv DEF next
<1> QED BY <1>1, <1>4, <1>5 DEF AddFindLine

LEMMA InsertLineFacts ==
  ASSUME SInv, NEW c \in CartIds, NEW v \in Variants, NEW n \in Nat \ {0},
         InsertLine(c, v, n), owner[c] # "nobody", UNCHANGED owner
  PROVE  /\ line' \in [Lines -> {NoLine} \cup Row] /\ twin' \in BOOLEAN
         /\ LinesKept /\ LinesOwned'
<1>1. PICK l \in Lines :
        /\ FreshLine(l)
        /\ line' = [line EXCEPT ![l] = [cart |-> c, variant |-> v, quantity |-> n]]
  BY DEF InsertLine
<1>2. line \in [Lines -> {NoLine} \cup Row]
  BY DEF SInv, TypeOK, CartTypeOK
<1>3. [cart |-> c, variant |-> v, quantity |-> n] \in Row
  BY DEF Row
<1>4. line' \in [Lines -> {NoLine} \cup Row]
  BY <1>1, <1>2, <1>3
<1>5. LinesKept
  BY <1>1, <1>2 DEF LinesKept
<1>6. LinesOwned'
  BY <1>1, <1>2 DEF SInv, LinesOwned
<1>7. twin' \in BOOLEAN
  BY DEF InsertLine, TwinLine, SInv, TypeOK, CartTypeOK
<1> QED BY <1>4, <1>5, <1>6, <1>7

\* A row of a line with another quantity.
LEMMA RowWith ==
  ASSUME NEW row \in Row, NEW n \in Nat \ {0}
  PROVE  /\ [row EXCEPT !.quantity = n] \in Row
         /\ [row EXCEPT !.quantity = n].cart = row.cart
         /\ [row EXCEPT !.quantity = n].variant = row.variant
         /\ [row EXCEPT !.quantity = n].quantity = n
         /\ [row EXCEPT !.quantity = n] # NoLine
<1>1. row \in [cart : CartIds, variant : Variants, quantity : Nat \ {0}]
  BY DEF Row
<1>2. [row EXCEPT !.quantity = n] \in [cart : CartIds, variant : Variants, quantity : Nat \ {0}]
  BY <1>1
<1>3. /\ [row EXCEPT !.quantity = n].cart = row.cart
      /\ [row EXCEPT !.quantity = n].variant = row.variant
      /\ [row EXCEPT !.quantity = n].quantity = n
  BY <1>1
<1>4. row.cart # "none"
  BY <1>1, CartAssumption
<1>5. [row EXCEPT !.quantity = n] # NoLine
  BY <1>3, <1>4 DEF NoLine
<1> QED BY <1>2, <1>3, <1>5 DEF Row

LEMMA SetQuantityFacts ==
  ASSUME SInv, NEW l \in Lines, NEW n \in Nat \ {0}, SetQuantity(l, n), UNCHANGED owner
  PROVE  /\ line' \in [Lines -> {NoLine} \cup Row]
         /\ LinesKept /\ LinesOwned'
         /\ \A k \in Lines \ {l} : line'[k] = line[k]
         /\ line[l] = NoLine => line'[l] = NoLine
         /\ line[l] # NoLine => /\ line'[l] # NoLine /\ line'[l].cart = line[l].cart
                                /\ line'[l].variant = line[l].variant
                                /\ line'[l].quantity = n
<1>1. line \in [Lines -> {NoLine} \cup Row]
  BY DEF SInv, TypeOK, CartTypeOK
<1>2. CASE line[l] = NoLine
  <2>1. line' = line
    BY <1>2 DEF SetQuantity
  <2> QED BY <1>1, <1>2, <2>1 DEF LinesKept, SInv, LinesOwned
<1>3. CASE line[l] # NoLine
  <2>1. PICK row \in Row : row = line[l]
    BY <1>1, <1>3
  <2>2. PICK new : new = [row EXCEPT !.quantity = n]
    OBVIOUS
  <2>3. /\ new \in Row /\ new.cart = row.cart /\ new.variant = row.variant
        /\ new.quantity = n /\ new # NoLine
    BY <2>2, RowWith
  <2>4. line' = [line EXCEPT ![l] = new]
    BY <1>3, <2>1, <2>2 DEF SetQuantity
  <2>5. line'[l] = new /\ \A k \in Lines \ {l} : line'[k] = line[k]
    BY <1>1, <2>4
  <2>6. line' \in [Lines -> {NoLine} \cup Row]
    BY <1>1, <2>3, <2>4
  <2>7. LinesKept
    BY <1>3, <2>1, <2>3, <2>5 DEF LinesKept
  <2>8. LinesOwned'
    BY <1>3, <2>1, <2>3, <2>5 DEF SInv, LinesOwned
  <2> QED BY <1>3, <2>1, <2>3, <2>5, <2>6, <2>7, <2>8
<1> QED BY <1>2, <1>3

\* A step of the cart that writes lines.
LEMMA WriteInv ==
  ASSUME SInv, NEW r \in Requests, NEW job \in AllJobs, Goto(r, job), Sound(job)',
         line' \in [Lines -> {NoLine} \cup Row], LinesKept, LinesOwned',
         wanted' \in [Variants -> Int], twin' \in BOOLEAN, torn' \in BOOLEAN,
         UNCHANGED <<owner, stock, cleared, started, raced, orderVars>>
  PROVE  SInv'
<1>1. RowsOK'
  BY DEF SInv, TypeOK, RowsOK, CartTypeOK, orderVars
<1>2. CartsKept /\ OrdersKept /\ OrdersSound'
  BY DEF CartsKept, OrdersKept, Placed, orderVars, SInv, OrdersSound
<1> QED BY <1>1, <1>2, StepInv DEF Goto

LEMMA AddWriteInv ==
  ASSUME SInv, NEW r \in Requests, AddWrite(r), UNCHANGED orderVars
  PROVE  SInv'
<1>1. PICK job \in AllJobs : job = req[r] /\ job.op = "addWrite" /\ Sound(job)
  BY JobAt DEF AddWrite
<1>2. /\ job.on \in SUBSET Variants /\ job.cart \in CartIds /\ job.variant \in Variants
      /\ job.quantity \in Nat \ {0} /\ job.hit \in SUBSET Lines /\ job.sum \in Nat \ {0}
  BY <1>1, JobFacts DEF AddOps
<1>3. Goto(r, Idle) /\ UNCHANGED <<owner, stock, cleared, started, raced, torn>>
  BY DEF AddWrite
<1>4. /\ wanted \in [Variants -> Int] /\ twin \in BOOLEAN /\ torn \in BOOLEAN
      /\ line \in [Lines -> {NoLine} \cup Row]
  BY DEF SInv, TypeOK, CartTypeOK
<1>5. [wanted EXCEPT ![job.variant] = @ + job.quantity] \in [Variants -> Int]
  BY <1>2, <1>4
<1>6. CASE /\ \E l \in job.hit : SetQuantity(l, job.sum)
           /\ wanted' = [wanted EXCEPT ![job.variant] = @ + job.quantity]
           /\ UNCHANGED twin
  <2>1. PICK l \in Lines : SetQuantity(l, job.sum)
    BY <1>2, <1>6
  <2>2. line' \in [Lines -> {NoLine} \cup Row] /\ LinesKept /\ LinesOwned'
    BY <1>2, <1>3, <2>1, SetQuantityFacts
  <2> QED BY <1>3, <1>4, <1>5, <1>6, <2>2, IdleJob, WriteInv
<1>7. CASE /\ owner[job.cart] # "nobody"
           /\ InsertLine(job.cart, job.variant, job.quantity)
           /\ wanted' = [wanted EXCEPT ![job.variant] = @ + job.quantity]
  <2>1. /\ line' \in [Lines -> {NoLine} \cup Row] /\ twin' \in BOOLEAN
        /\ LinesKept /\ LinesOwned'
    BY <1>2, <1>3, <1>7, InsertLineFacts
  <2> QED BY <1>3, <1>4, <1>5, <1>7, <2>1, IdleJob, WriteInv
<1>8. CASE UNCHANGED <<line, wanted, twin>>
  BY <1>3, <1>8, IdleJob, GotoInv
<1> QED BY <1>1, <1>6, <1>7, <1>8 DEF AddWrite

LEMMA EditItemInv ==
  ASSUME SInv, NEW r \in Requests, NEW l \in Lines, NEW n \in 0 .. MaxQuantity,
         EditItem(r, l, n), UNCHANGED orderVars
  PROVE  SInv'
<1> DEFINE job == [op |-> "editOwn", on |-> {line[l].variant}, owner |-> owner[line[l].cart],
                   line |-> l, cart |-> line[l].cart, to |-> n]
<1>1. line[l] # NoLine /\ line[l].cart \in CartIds /\ line[l].variant \in Variants
  BY LineFacts DEF EditItem, SInv
<1>2. owner[line[l].cart] \in Owners
  BY <1>1 DEF SInv, TypeOK, CartTypeOK, LinesOwned
<1>3. n \in Nat
  BY CartAssumption
<1>4. job \in AllJobs
  BY <1>1, <1>2, <1>3 DEF AllJobs, CartJob
<1>5. Sound(job) /\ job.on \in SUBSET Variants
  BY <1>1 DEF Sound, AddOps, MergeOps, CheckoutOps
<1>6. Begin(r, job) /\ UNCHANGED <<owner, line, stock, cleared, wanted, twin, torn>>
  BY DEF EditItem
<1> HIDE DEF job
<1>7. /\ req' = [req EXCEPT ![r] = job]
      /\ started' \in 0 .. MaxRequests /\ raced' \in SUBSET Variants
  BY <1>5, <1>6, BeginFacts
<1>8. RowsOK' /\ order' = order
  BY <1>6, <1>7, SameRows DEF orderVars
<1> QED BY <1>4, <1>5, <1>6, <1>7, <1>8, QuietInv

LEMMA EditFindCartInv ==
  ASSUME SInv, NEW r \in Requests, EditFindCart(r), UNCHANGED orderVars
  PROVE  SInv'
<1>1. PICK job \in AllJobs : job = req[r] /\ job.op = "editOwn" /\ Sound(job)
  BY JobAt DEF EditFindCart
<1>2. job.on \in SUBSET Variants /\ job.line \in Lines /\ job.to \in Nat
  BY <1>1, JobFacts
<1>3. UNCHANGED <<owner, line, stock, cleared, started, wanted, raced, twin, torn>>
  BY DEF EditFindCart
<1>4. CASE Goto(r, Idle)
  BY <1>3, <1>4, IdleJob, GotoInv
<1>5. CASE Goto(r, [op |-> "editWrite", on |-> job.on, line |-> job.line, to |-> job.to])
  <2> DEFINE next == [op |-> "editWrite", on |-> job.on, line |-> job.line, to |-> job.to]
  <2>1. next \in AllJobs
    BY <1>2 DEF AllJobs, CartJob
  <2>2. line[job.line] # NoLine => line[job.line].variant \in job.on
    BY <1>1 DEF Sound
  <2>3. Sound(next)
    BY <2>2 DEF Sound, AddOps, MergeOps, CheckoutOps
  <2> HIDE DEF next
  <2> QED BY <1>3, <1>5, <2>1, <2>3, GotoInv DEF next
<1> QED BY <1>1, <1>4, <1>5 DEF EditFindCart

LEMMA EditWriteInv ==
  ASSUME SInv, NEW r \in Requests, EditWrite(r), UNCHANGED orderVars
  PROVE  SInv'
<1>1. PICK job \in AllJobs : job = req[r] /\ job.op = "editWrite" /\ Sound(job)
  BY JobAt DEF EditWrite
<1>2. job.line \in Lines /\ job.to \in Nat
  BY <1>1, JobFacts
<1>3. Goto(r, Idle) /\ UNCHANGED <<owner, stock, cleared, started, raced, twin, torn>>
  BY DEF EditWrite
<1>4. /\ wanted \in [Variants -> Int] /\ twin \in BOOLEAN /\ torn \in BOOLEAN
      /\ line \in [Lines -> {NoLine} \cup Row]
  BY DEF SInv, TypeOK, CartTypeOK
<1>5. CASE line[job.line] = NoLine
  <2>1. UNCHANGED <<line, wanted>>
    BY <1>1, <1>5 DEF EditWrite
  <2> QED BY <1>3, <2>1, IdleJob, GotoInv
<1>6. CASE line[job.line] # NoLine
  <2>1. PICK l \in Lines : l = job.line
    BY <1>2
  <2>2. PICK row \in Row : row = line[l]
    BY <1>4, <1>6, <2>1
  <2>3. /\ line' = [line EXCEPT ![l] = IF job.to = 0 THEN NoLine
                                       ELSE [row EXCEPT !.quantity = job.to]]
        /\ wanted' = [wanted EXCEPT ![row.variant] = (@ + job.to) - row.quantity]
    BY <1>1, <1>6, <2>1, <2>2 DEF EditWrite
  <2>4. PICK new : new = IF job.to = 0 THEN NoLine ELSE [row EXCEPT !.quantity = job.to]
    OBVIOUS
  <2>5. \/ new = NoLine
        \/ new \in Row /\ new.cart = row.cart /\ new.variant = row.variant /\ new # NoLine
    BY <1>2, <2>4, RowWith
  <2>6. line' = [line EXCEPT ![l] = new]
    BY <2>3, <2>4
  <2>7. line'[l] = new /\ \A k \in Lines \ {l} : line'[k] = line[k]
    BY <1>4, <2>6
  <2>8. line' \in [Lines -> {NoLine} \cup Row]
    BY <1>4, <2>5, <2>6
  <2>9. LinesKept
    BY <1>6, <2>1, <2>2, <2>5, <2>7 DEF LinesKept
  <2>10. LinesOwned'
    BY <1>3, <1>6, <2>1, <2>2, <2>5, <2>7 DEF SInv, LinesOwned
  <2>11. row.variant \in Variants /\ row.quantity \in Nat
    BY DEF Row
  <2>12. wanted' \in [Variants -> Int]
    BY <1>2, <1>4, <2>3, <2>11
  <2> QED BY <1>3, <1>4, <2>8, <2>9, <2>10, <2>12, IdleJob, WriteInv
<1> QED BY <1>5, <1>6

LEMMA MergeCartInv ==
  ASSUME SInv, NEW r \in Requests, MergeCart(r), UNCHANGED orderVars
  PROVE  SInv'
<1>1. PICK c \in CartIds :
        /\ owner[c] = "guest"
        /\ Begin(r, [op |-> "mergeUser", on |-> Variants, guest |-> c, left |-> Items(c)])
  BY DEF MergeCart, CartsOf
<1> DEFINE job == [op |-> "mergeUser", on |-> Variants, guest |-> c, left |-> Items(c)]
<1>2. Items(c) \in SUBSET Item /\ IsFiniteSet(Items(c))
  BY ItemsFacts DEF SInv
<1>3. job \in AllJobs
  BY <1>2 DEF AllJobs, CartJob
<1>4. Sound(job) /\ job.on \in SUBSET Variants
  BY <1>1, <1>2 DEF Sound, AddOps, MergeOps, CheckoutOps
<1>5. Begin(r, job) /\ UNCHANGED <<owner, line, stock, cleared, wanted, twin, torn>>
  BY <1>1 DEF MergeCart
<1> HIDE DEF job
<1>6. /\ req' = [req EXCEPT ![r] = job]
      /\ started' \in 0 .. MaxRequests /\ raced' \in SUBSET Variants
  BY <1>4, <1>5, BeginFacts
<1>7. RowsOK' /\ order' = order
  BY <1>5, <1>6, SameRows DEF orderVars
<1> QED BY <1>3, <1>4, <1>5, <1>6, <1>7, QuietInv

LEMMA MergeFindUserInv ==
  ASSUME SInv, NEW r \in Requests, MergeFindUser(r), UNCHANGED orderVars
  PROVE  SInv'
<1>1. PICK job \in AllJobs : job = req[r] /\ job.op = "mergeUser" /\ Sound(job)
  BY JobAt DEF MergeFindUser
<1>2. /\ job.on = Variants /\ job.guest \in CartIds /\ job.left \in SUBSET Item
      /\ IsFiniteSet(job.left) /\ owner[job.guest] # "user"
  BY <1>1, MergeFacts DEF MergeOps, Sound
<1>3. UNCHANGED <<owner, line, stock, cleared, started, wanted, raced, twin, torn>>
  BY DEF MergeFindUser
<1>4. CASE Goto(r, [job EXCEPT !.op = "mergeCreate"])
  <2> DEFINE next == [job EXCEPT !.op = "mergeCreate"]
  <2>1. next \in AllJobs
    BY <1>1, SameJobFields
  <2>2. Sound(next)
    <3>1. job \in [op : {"mergeUser", "mergeCreate"}, on : SUBSET Variants, guest : CartIds,
                   left : SUBSET Item]
      BY <1>1 DEF AllJobs, CartJob, OrderJob, Idle
    <3>2. /\ next.op = "mergeCreate" /\ next.on = job.on /\ next.left = job.left
      BY <3>1
    <3> HIDE DEF next
    <3> QED BY <1>2, <3>2 DEF Sound, AddOps, MergeOps, CheckoutOps
  <2> HIDE DEF next
  <2> QED BY <1>3, <1>4, <2>1, <2>2, GotoInv DEF next
<1>5. ASSUME NEW c \in CartIds, owner[c] = "user",
             Goto(r, [op |-> "mergeLine", on |-> job.on, guest |-> job.guest,
                      cart |-> c, left |-> job.left])
      PROVE  SInv'
  <2> DEFINE next == [op |-> "mergeLine", on |-> job.on, guest |-> job.guest,
                      cart |-> c, left |-> job.left]
  <2>1. next \in AllJobs
    BY <1>2 DEF AllJobs, CartJob
  <2>2. Sound(next)
    BY <1>2, <1>5 DEF Sound, AddOps, MergeOps, CheckoutOps
  <2> HIDE DEF next
  <2> QED BY <1>3, <1>5, <2>1, <2>2, GotoInv DEF next
<1> QED BY <1>1, <1>4, <1>5 DEF MergeFindUser, CartsOf

LEMMA MergeCreateUserInv ==
  ASSUME SInv, NEW r \in Requests, NEW c \in CartIds, MergeCreateUser(r, c), UNCHANGED orderVars
  PROVE  SInv'
<1>1. PICK job \in AllJobs : job = req[r] /\ job.op = "mergeCreate" /\ Sound(job)
  BY JobAt DEF MergeCreateUser
<1>2. /\ job.on = Variants /\ job.guest \in CartIds /\ job.left \in SUBSET Item
      /\ IsFiniteSet(job.left)
  BY <1>1, MergeFacts DEF MergeOps, Sound
<1> DEFINE next == [op |-> "mergeLine", on |-> job.on, guest |-> job.guest,
                    cart |-> c, left |-> job.left]
<1>3. next \in AllJobs
  BY <1>2 DEF AllJobs, CartJob
<1>4. /\ InsertCart(c, "user") /\ Goto(r, next)
      /\ UNCHANGED <<line, stock, cleared, started, wanted, raced, torn>>
  BY <1>1 DEF MergeCreateUser
<1>5. c # job.guest
  BY <1>1, <1>4, JobNames DEF InsertCart, FreshCart
<1>6. Sound(next)'
  BY <1>2, <1>5 DEF Sound, AddOps, MergeOps, CheckoutOps
<1> HIDE DEF next
<1>7. /\ owner' \in [CartIds -> Owners \cup {"nobody"}] /\ twin' \in BOOLEAN
      /\ CartsKept /\ LinesOwned'
  BY <1>4, InsertCartFacts DEF Owners
<1>8. RowsOK'
  BY <1>4, <1>7 DEF SInv, TypeOK, RowsOK, CartTypeOK, orderVars
<1>9. LinesKept /\ OrdersKept /\ OrdersSound'
  BY <1>4 DEF LinesKept, OrdersKept, Placed, orderVars, SInv, OrdersSound
<1> QED BY <1>3, <1>4, <1>6, <1>7, <1>8, <1>9, StepInv DEF Goto

LEMMA MergeFindLineInv ==
  ASSUME SInv, NEW r \in Requests, MergeFindLine(r), UNCHANGED orderVars
  PROVE  SInv'
<1>1. PICK job \in AllJobs : job = req[r] /\ job.op = "mergeLine" /\ Sound(job)
  BY JobAt DEF MergeFindLine
<1>2. /\ job.on = Variants /\ job.guest \in CartIds /\ job.left \in SUBSET Item
      /\ IsFiniteSet(job.left) /\ job.cart \in CartIds /\ job.cart # job.guest
  BY <1>1, MergeFacts DEF MergeOps, Sound
<1>3. UNCHANGED <<owner, line, stock, cleared, started, wanted, raced, twin, torn>>
  BY DEF MergeFindLine
<1>4. CASE Goto(r, [op |-> "mergeDrop", on |-> job.on, guest |-> job.guest])
  <2> DEFINE next == [op |-> "mergeDrop", on |-> job.on, guest |-> job.guest]
  <2>1. next \in AllJobs
    BY <1>2 DEF AllJobs, CartJob
  <2>2. Sound(next)
    BY <1>2 DEF Sound, AddOps, MergeOps, CheckoutOps
  <2> HIDE DEF next
  <2> QED BY <1>3, <1>4, <2>1, <2>2, GotoInv DEF next
<1>5. ASSUME NEW i \in job.left, NEW hit \in Hits(job.cart, i.variant),
             Goto(r, [op |-> "mergeWrite", on |-> job.on, guest |-> job.guest,
                      cart |-> job.cart, left |-> job.left \ {i}, item |-> i, hit |-> hit,
                      sum |-> QuantityOf(hit) + i.quantity])
      PROVE  SInv'
  <2> DEFINE next == [op |-> "mergeWrite", on |-> job.on, guest |-> job.guest,
                      cart |-> job.cart, left |-> job.left \ {i}, item |-> i, hit |-> hit,
                      sum |-> QuantityOf(hit) + i.quantity]
  <2>1. i \in Item /\ i.quantity \in Nat \ {0} /\ i.variant \in Variants
    BY <1>2 DEF Item
  <2>2. /\ hit \in SUBSET Lines /\ AtMostOne(hit) /\ QuantityOf(hit) \in Nat
        /\ \A l \in hit : line[l].variant = i.variant /\ line[l].cart = job.cart
    BY <1>2, HitFacts DEF SInv
  <2>3. QuantityOf(hit) + i.quantity \in Nat \ {0}
    BY <2>1, <2>2
  <2>4. job.left \ {i} \in SUBSET Item /\ IsFiniteSet(job.left \ {i})
    BY <1>2, FS_Subset
  <2>5. next \in AllJobs
    BY <1>2, <2>1, <2>2, <2>3, <2>4 DEF AllJobs, CartJob
  <2>6. Sound(next)
    BY <1>2, <2>2, <2>4 DEF Sound, AddOps, MergeOps, CheckoutOps
  <2> HIDE DEF next
  <2> QED BY <1>3, <1>5, <2>5, <2>6, GotoInv DEF next
<1> QED BY <1>1, <1>4, <1>5 DEF MergeFindLine

LEMMA MergeWriteInv ==
  ASSUME SInv, NEW r \in Requests, MergeWrite(r), UNCHANGED orderVars
  PROVE  SInv'
<1>1. PICK job \in AllJobs : job = req[r] /\ job.op = "mergeWrite" /\ Sound(job)
  BY JobAt DEF MergeWrite
<1>2. /\ job.on = Variants /\ job.guest \in CartIds /\ job.left \in SUBSET Item
      /\ IsFiniteSet(job.left) /\ job.cart \in CartIds /\ job.cart # job.guest
      /\ job.item \in Item /\ job.hit \in SUBSET Lines /\ job.sum \in Nat \ {0}
  BY <1>1, MergeFacts DEF MergeOps, Sound
<1> DEFINE next == [op |-> "mergeLine", on |-> job.on, guest |-> job.guest,
                    cart |-> job.cart, left |-> job.left]
<1>3. next \in AllJobs
  BY <1>2 DEF AllJobs, CartJob
<1>4. Sound(next)'
  BY <1>2 DEF Sound, AddOps, MergeOps, CheckoutOps
<1>5. UNCHANGED <<owner, stock, cleared, started, wanted, raced>>
  BY DEF MergeWrite
<1>6. /\ wanted \in [Variants -> Int] /\ twin \in BOOLEAN /\ torn \in BOOLEAN
      /\ line \in [Lines -> {NoLine} \cup Row]
  BY DEF SInv, TypeOK, CartTypeOK
<1>7. \/ /\ \E l \in job.hit : SetQuantity(l, job.sum)
         /\ Goto(r, next) /\ UNCHANGED <<twin, torn>>
      \/ /\ owner[job.cart] # "nobody"
         /\ InsertLine(job.cart, job.item.variant, job.item.quantity)
         /\ Goto(r, next) /\ UNCHANGED torn
      \/ /\ torn' = TRUE
         /\ Goto(r, Idle) /\ UNCHANGED <<line, twin>>
  BY <1>1 DEF MergeWrite
<1> HIDE DEF next
<1>8. CASE /\ \E l \in job.hit : SetQuantity(l, job.sum)
           /\ Goto(r, next) /\ UNCHANGED <<twin, torn>>
  <2>1. PICK l \in Lines : SetQuantity(l, job.sum)
    BY <1>2, <1>8
  <2>2. line' \in [Lines -> {NoLine} \cup Row] /\ LinesKept /\ LinesOwned'
    BY <1>2, <1>5, <2>1, SetQuantityFacts
  <2> QED BY <1>3, <1>4, <1>5, <1>6, <1>8, <2>2, WriteInv
<1>9. CASE /\ owner[job.cart] # "nobody"
           /\ InsertLine(job.cart, job.item.variant, job.item.quantity)
           /\ Goto(r, next) /\ UNCHANGED torn
  <2>1. job.item.variant \in Variants /\ job.item.quantity \in Nat \ {0}
    BY <1>2 DEF Item
  <2>2. /\ line' \in [Lines -> {NoLine} \cup Row] /\ twin' \in BOOLEAN
        /\ LinesKept /\ LinesOwned'
    BY <1>2, <1>5, <1>9, <2>1, InsertLineFacts
  <2> QED BY <1>3, <1>4, <1>5, <1>6, <1>9, <2>2, WriteInv
<1>10. CASE /\ torn' = TRUE
            /\ Goto(r, Idle) /\ UNCHANGED <<line, twin>>
  <2>1. LinesKept /\ LinesOwned'
    BY <1>5, <1>10 DEF LinesKept, LinesOwned, SInv
  <2> QED BY <1>5, <1>6, <1>10, <2>1, IdleJob, WriteInv
<1> QED BY <1>7, <1>8, <1>9, <1>10

LEMMA MergeDropLinesInv ==
  ASSUME SInv, NEW r \in Requests, MergeDropLines(r), UNCHANGED orderVars
  PROVE  SInv'
<1>1. PICK job \in AllJobs : job = req[r] /\ job.op = "mergeDrop" /\ Sound(job)
  BY JobAt DEF MergeDropLines
<1>2. job.on = Variants
  BY <1>1 DEF Sound, MergeOps
<1>3. /\ line' = [l \in Lines |-> IF line[l].cart = job.guest THEN NoLine ELSE line[l]]
      /\ Goto(r, [job EXCEPT !.op = "mergeEnd"])
      /\ UNCHANGED <<owner, stock, cleared, started, wanted, raced, twin, torn>>
  BY <1>1 DEF MergeDropLines
<1> DEFINE next == [job EXCEPT !.op = "mergeEnd"]
<1>4. next \in AllJobs
  BY <1>1, SameJobFields
<1>5. Sound(next)'
  <2>1. job \in [op : {"mergeDrop", "mergeEnd"}, on : SUBSET Variants, guest : CartIds]
    BY <1>1 DEF AllJobs, CartJob, OrderJob, Idle
  <2>2. next.op = "mergeEnd" /\ next.on = job.on
    BY <2>1
  <2> HIDE DEF next
  <2> QED BY <1>2, <2>2 DEF Sound, AddOps, MergeOps, CheckoutOps
<1>6. Goto(r, next)
  BY <1>3
<1> HIDE DEF next
<1>7. /\ wanted \in [Variants -> Int] /\ twin \in BOOLEAN /\ torn \in BOOLEAN
      /\ line \in [Lines -> {NoLine} \cup Row]
  BY DEF SInv, TypeOK, CartTypeOK
<1>8. line' \in [Lines -> {NoLine} \cup Row]
  BY <1>3, <1>7
<1>9. LinesKept
  BY <1>3 DEF LinesKept
<1>10. LinesOwned'
  BY <1>3 DEF SInv, LinesOwned
<1> QED BY <1>3, <1>4, <1>5, <1>6, <1>7, <1>8, <1>9, <1>10, WriteInv

LEMMA MergeDropCartInv ==
  ASSUME SInv, NEW r \in Requests, MergeDropCart(r), UNCHANGED orderVars
  PROVE  SInv'
<1>1. PICK g : g = req[r].guest
  OBVIOUS
<1>2. req[r] \in AllJobs /\ req[r].op = "mergeEnd"
  BY JobAt DEF MergeDropCart
<1>3. g \in CartIds
  BY <1>1, <1>2, MergeFacts DEF MergeOps
<1>4. /\ owner' = IF LinesOf(g) = {} THEN [owner EXCEPT ![g] = "nobody"] ELSE owner
      /\ req' = [req EXCEPT ![r] = Idle]
      /\ UNCHANGED <<line, stock, cleared, started, wanted, raced, twin, torn>>
  BY <1>1 DEF MergeDropCart, Goto
<1>5. owner \in [CartIds -> Owners \cup {"nobody"}]
  BY DEF SInv, TypeOK, CartTypeOK
<1>6. owner' \in [CartIds -> Owners \cup {"nobody"}] /\ CartsKept
  BY <1>4, <1>5 DEF CartsKept
<1>7. LinesOwned'
  BY <1>4, <1>5, LineFacts DEF SInv, LinesOwned, LinesOf
<1>8. RowsOK'
  BY <1>4, <1>6 DEF SInv, TypeOK, RowsOK, CartTypeOK, orderVars
<1>9. LinesKept /\ OrdersKept /\ OrdersSound'
  BY <1>4 DEF LinesKept, OrdersKept, Placed, orderVars, SInv, OrdersSound
<1> QED BY <1>4, <1>6, <1>7, <1>8, <1>9, IdleJob, StepInv

LEMMA CartFailInv ==
  ASSUME SInv, NEW r \in Requests, CartFail(r), UNCHANGED orderVars
  PROVE  SInv'
<1>1. /\ Goto(r, Idle)
      /\ UNCHANGED <<owner, line, stock, cleared, started, wanted, raced, twin>>
      /\ torn' = (torn \/ req[r].op \in {"mergeLine", "mergeWrite", "mergeDrop"})
  BY DEF CartFail
<1>2. /\ wanted \in [Variants -> Int] /\ twin \in BOOLEAN /\ torn \in BOOLEAN
      /\ line \in [Lines -> {NoLine} \cup Row]
  BY DEF SInv, TypeOK, CartTypeOK
<1>3. torn' \in BOOLEAN
  BY <1>1, <1>2
<1>4. LinesKept /\ LinesOwned'
  BY <1>1 DEF LinesKept, LinesOwned, SInv
<1> QED BY <1>1, <1>2, <1>3, <1>4, IdleJob, WriteInv

LEMMA CartStepInv ==
  ASSUME SInv, NEW r \in Requests, CartStep(r), UNCHANGED orderVars
  PROVE  SInv'
BY AddItemInv, AddFindCartInv, AddFindLineInv, AddWriteInv, EditItemInv, EditFindCartInv,
   EditWriteInv, MergeCartInv, MergeFindUserInv, MergeFindLineInv, MergeWriteInv,
   MergeDropLinesInv, MergeDropCartInv, AddCreateCartInv, MergeCreateUserInv, CartFailInv
   DEF CartStep

-----------------------------------------------------------------------------
(* Units of items. *)

Counted(is) == IsFiniteSet(is) /\ \A i \in is : i.quantity \in Nat

UnitsIn(i, v) == IF i.variant = v THEN i.quantity ELSE 0

LEMMA UnitsIsSum ==
  ASSUME NEW is, NEW v, NEW S \in SUBSET is, Counted(is)
  PROVE  Units(S, v) = SumFunctionOnSet([i \in is |-> UnitsIn(i, v)], S)
<1> DEFINE f == [i \in S |-> IF i.variant = v THEN i.quantity ELSE 0]
           g == [i \in is |-> UnitsIn(i, v)]
<1>1. IsFiniteSet(S)
  BY FS_Subset DEF Counted
<1>2. \A x \in S : f[x] = g[x] /\ f[x] \in Int
  BY DEF UnitsIn, Counted
<1>3. Units(S, v) = SumFunctionOnSet(f, S)
  BY DEF Units
<1> HIDE DEF f, g
<1>4. SumFunctionOnSet(f, S) = SumFunctionOnSet(g, S)
  BY <1>1, <1>2, SumSame
<1> QED BY <1>3, <1>4 DEF g

LEMMA UnitsRemove ==
  ASSUME NEW is, NEW v, Counted(is), NEW i \in is
  PROVE  /\ Counted(is \ {i})
         /\ Units(is, v) = UnitsIn(i, v) + Units(is \ {i}, v)
         /\ Units(is, v) \in Nat /\ Units(is \ {i}, v) \in Nat /\ UnitsIn(i, v) \in Nat
<1> DEFINE f == [j \in is |-> UnitsIn(j, v)]
           rest == is \ {i}
<1>1. \A j \in is : f[j] \in Nat /\ f[j] \in Int
  BY DEF UnitsIn, Counted
<1>2. IsFiniteSet(is) /\ IsFiniteSet(rest) /\ rest \in SUBSET is
  BY FS_Subset DEF Counted
<1>3. Units(is, v) = SumFunctionOnSet(f, is) /\ Units(rest, v) = SumFunctionOnSet(f, rest)
  BY <1>2, UnitsIsSum
<1>4. f[i] = UnitsIn(i, v)
  OBVIOUS
<1>5. Counted(rest)
  BY <1>2 DEF Counted
<1> HIDE DEF f
<1>6. SumFunctionOnSet(f, is) = f[i] + SumFunctionOnSet(f, is \ {i})
  BY <1>1, <1>2, SumRemove
<1>7. SumFunctionOnSet(f, is) \in Nat
  BY <1>1, <1>2, SumNat
<1>8. SumFunctionOnSet(f, rest) \in Nat
  <2> HIDE DEF rest
  <2>1. \A x \in rest : f[x] \in Nat
    BY <1>1, <1>2
  <2> QED BY <1>2, <2>1, SumNat
<1> QED BY <1>1, <1>3, <1>4, <1>5, <1>6, <1>7, <1>8

LEMMA UnitsNat ==
  ASSUME NEW is, NEW v, Counted(is)
  PROVE  Units(is, v) \in Nat
<1> DEFINE f == [j \in is |-> UnitsIn(j, v)]
<1>1. \A j \in is : f[j] \in Nat
  BY DEF UnitsIn, Counted
<1>2. Units(is, v) = SumFunctionOnSet(f, is)
  BY UnitsIsSum
<1> HIDE DEF f
<1> QED BY <1>1, <1>2, SumNat DEF Counted

LEMMA UnitsEmpty ==
  ASSUME NEW v
  PROVE  Units({}, v) = 0
BY SumEmpty DEF Units

LEMMA UnitsAdd ==
  ASSUME NEW is, NEW v, Counted(is), NEW i, i \notin is, i.quantity \in Nat
  PROVE  /\ Counted(is \cup {i})
         /\ Units(is \cup {i}, v) = Units(is, v) + UnitsIn(i, v)
<1> DEFINE all == is \cup {i}
<1>1. Counted(all) /\ all \ {i} = is /\ i \in all
  BY FS_AddElement DEF Counted
<1>2. Units(is, v) \in Nat /\ UnitsIn(i, v) \in Nat
  BY UnitsNat DEF UnitsIn
<1> HIDE DEF all
<1>3. Units(all, v) = UnitsIn(i, v) + Units(is, v)
  <2>1. Units(all, v) = UnitsIn(i, v) + Units(all \ {i}, v)
    BY <1>1, UnitsRemove
  <2> QED BY <1>1, <2>1
<1>4. Units(all, v) = Units(is, v) + UnitsIn(i, v)
  BY <1>2, <1>3
<1> QED BY <1>1, <1>4 DEF all

\* Items of other variants do not count.
LEMMA UnitsSub ==
  ASSUME NEW is, NEW v, NEW S \in SUBSET is, Counted(is),
         \A i \in is \ S : i.variant # v
  PROVE  Counted(S) /\ Units(S, v) = Units(is, v)
<1> DEFINE f == [i \in is |-> UnitsIn(i, v)]
<1>1. \A x \in S : f[x] \in Int
  BY DEF UnitsIn, Counted
<1>2. \A x \in is \ S : f[x] = 0
  BY DEF UnitsIn
<1>3. Units(is, v) = SumFunctionOnSet(f, is) /\ Units(S, v) = SumFunctionOnSet(f, S)
  BY UnitsIsSum
<1>4. Counted(S)
  BY FS_Subset DEF Counted
<1> HIDE DEF f
<1>5. SumFunctionOnSet(f, is) = SumFunctionOnSet(f, S)
  BY <1>1, <1>2, SumZeros DEF Counted
<1> QED BY <1>3, <1>4, <1>5

LEMMA UnitsNone ==
  ASSUME NEW is, NEW v, Counted(is), v \notin VariantsOf(is)
  PROVE  Units(is, v) = 0
<1>1. \A i \in is \ {} : i.variant # v
  BY DEF VariantsOf
<1>2. Units({}, v) = Units(is, v)
  BY <1>1, UnitsSub
<1> QED BY <1>2, UnitsEmpty

\* A part has no more units than the whole.
LEMMA UnitsOfPart ==
  ASSUME NEW is, NEW v, NEW S \in SUBSET is, Counted(is)
  PROVE  Counted(S) /\ Units(S, v) <= Units(is, v)
<1> DEFINE f == [i \in is |-> UnitsIn(i, v)]
           g == [i \in is |-> IF i \in S THEN UnitsIn(i, v) ELSE 0]
<1>1. \A x \in is : g[x] \in Int /\ f[x] \in Int /\ g[x] <= f[x]
  BY DEF UnitsIn, Counted
<1>2. \A x \in S : g[x] = f[x] /\ g[x] \in Int
  BY <1>1
<1>3. \A x \in is \ S : g[x] = 0
  OBVIOUS
<1>4. Units(is, v) = SumFunctionOnSet(f, is) /\ Units(S, v) = SumFunctionOnSet(f, S)
  BY UnitsIsSum
<1>5. Counted(S)
  BY FS_Subset DEF Counted
<1> HIDE DEF f, g
<1>6. SumFunctionOnSet(g, is) = SumFunctionOnSet(g, S)
  BY <1>2, <1>3, SumZeros DEF Counted
<1>7. SumFunctionOnSet(g, S) = SumFunctionOnSet(f, S)
  BY <1>2, <1>5, SumSame DEF Counted
<1>8. SumFunctionOnSet(g, is) <= SumFunctionOnSet(f, is)
  BY <1>1, SumMonotone DEF Counted
<1> QED BY <1>4, <1>5, <1>6, <1>7, <1>8

LEMMA ItemsCounted ==
  ASSUME NEW is, is \in SUBSET Item \/ is \in SUBSET OrderItem, IsFiniteSet(is)
  PROVE  /\ Counted(is) /\ Counted(FlashOf(is))
         /\ VariantsOf(is) \in SUBSET Variants
<1>1. \A i \in is : i.quantity \in Nat /\ i.variant \in Variants
  BY DEF Item, OrderItem
<1>2. IsFiniteSet(FlashOf(is))
  BY FS_Subset DEF FlashOf
<1> QED BY <1>1, <1>2 DEF Counted, FlashOf, VariantsOf

-----------------------------------------------------------------------------
(* The steps of checkouts and cancellations. *)

LEMMA ReadCartInv ==
  ASSUME SInv, NEW r \in Requests, ReadCart(r)
  PROVE  SInv'
<1>1. PICK c \in CartIds :
        /\ LinesOf(c) # {}
        /\ Begin(r, [op |-> "check", on |-> Variants, items |-> Items(c)])
  BY DEF ReadCart, CartsOf
<1> DEFINE job == [op |-> "check", on |-> Variants, items |-> Items(c)]
<1>2. Items(c) \in SUBSET Item /\ IsFiniteSet(Items(c)) /\ Items(c) # {}
  BY <1>1, ItemsFacts DEF SInv
<1>3. job \in AllJobs
  BY <1>2 DEF AllJobs, OrderJob
<1>4. Sound(job) /\ job.on \in SUBSET Variants
  BY <1>2 DEF Sound, AddOps, MergeOps, CheckoutOps
<1>5. Begin(r, job) /\ UNCHANGED <<owner, line, stock, cleared, wanted, twin, torn, orderVars>>
  BY <1>1 DEF ReadCart
<1> HIDE DEF job
<1>6. /\ req' = [req EXCEPT ![r] = job]
      /\ started' \in 0 .. MaxRequests /\ raced' \in SUBSET Variants
  BY <1>4, <1>5, BeginFacts
<1>7. RowsOK' /\ order' = order
  BY <1>5, <1>6, SameRows DEF orderVars
<1> QED BY <1>3, <1>4, <1>5, <1>6, <1>7, QuietInv

\* The items with the prices that are in force.
Priced(is) == {[line |-> i.line, variant |-> i.variant, quantity |-> i.quantity,
                flash |-> i.variant \in open] : i \in is}

LEMMA PricedFacts ==
  ASSUME NEW is \in SUBSET Item, IsFiniteSet(is), is # {}
  PROVE  /\ Priced(is) \in SUBSET OrderItem /\ IsFiniteSet(Priced(is)) /\ Priced(is) # {}
         /\ VariantsOf(Priced(is)) = VariantsOf(is)
<1> DEFINE f == [i \in is |-> [line |-> i.line, variant |-> i.variant, quantity |-> i.quantity,
                               flash |-> i.variant \in open]]
<1>1. Priced(is) \in SUBSET OrderItem
  <2>1. \A i \in is : i.line \in Lines /\ i.variant \in Variants /\ i.quantity \in Nat \ {0}
    BY DEF Item
  <2>2. \A i \in is : (i.variant \in open) \in BOOLEAN
    OBVIOUS
  <2>3. \A i \in is : [line |-> i.line, variant |-> i.variant, quantity |-> i.quantity,
                       flash |-> i.variant \in open] \in OrderItem
    BY <2>1, <2>2 DEF OrderItem
  <2> QED BY <2>3 DEF Priced
<1>2. f \in Surjection(is, Priced(is))
  BY DEF Surjection, Priced
<1>3. IsFiniteSet(Priced(is))
  BY <1>2, FS_Surjection
<1>4. Priced(is) # {}
  BY DEF Priced
<1>5. VariantsOf(Priced(is)) = VariantsOf(is)
  <2>1. \A v : v \in VariantsOf(is) => v \in VariantsOf(Priced(is))
    <3> SUFFICES ASSUME NEW i \in is PROVE i.variant \in VariantsOf(Priced(is))
      BY DEF VariantsOf
    <3> DEFINE p == [line |-> i.line, variant |-> i.variant, quantity |-> i.quantity,
                     flash |-> i.variant \in open]
    <3>1. p \in Priced(is)
      BY DEF Priced
    <3>2. p.variant = i.variant
      OBVIOUS
    <3> HIDE DEF p
    <3> QED BY <3>1, <3>2 DEF VariantsOf
  <2>2. \A v : v \in VariantsOf(Priced(is)) => v \in VariantsOf(is)
    <3> SUFFICES ASSUME NEW p \in Priced(is) PROVE p.variant \in VariantsOf(is)
      BY DEF VariantsOf
    <3>1. PICK i \in is : p.variant = i.variant
      BY DEF Priced
    <3> QED BY <3>1 DEF VariantsOf
  <2> QED BY <2>1, <2>2
<1> QED BY <1>1, <1>3, <1>4, <1>5

\* A step that writes no row that jobs rely on.
LEMMA OrderGotoInv ==
  ASSUME SInv, NEW r \in Requests, NEW job \in AllJobs, Goto(r, job), Sound(job),
         UNCHANGED <<owner, line, started, wanted, raced, twin, torn, order, open>>,
         stock' \in [Variants -> Nat], cleared' \in [Requests -> SUBSET Lines],
         sold' \in [Variants -> Nat],
         short' \cup leaked' \cup overwritten' \cup crossed' \in SUBSET Variants
  PROVE  SInv'
<1>1. RowsOK'
  BY DEF SInv, TypeOK, RowsOK, CartTypeOK
<1> QED BY <1>1, QuietInv DEF Goto

LEMMA CheckInv ==
  ASSUME SInv, NEW r \in Requests, Check(r)
  PROVE  SInv'
<1>1. PICK job \in AllJobs : job = req[r] /\ job.op = "check" /\ Sound(job)
  BY JobAt DEF Check
<1>2. /\ job.on = Variants /\ job.items \in SUBSET Item
      /\ IsFiniteSet(job.items) /\ job.items # {}
  BY <1>1, OrderJobFacts DEF CheckoutOps, Sound
<1> DEFINE priced == Priced(job.items)
           next == [op |-> "consume", on |-> job.on, items |-> priced, left |-> FlashOf(priced)]
<1>3. /\ priced \in SUBSET OrderItem /\ IsFiniteSet(priced) /\ priced # {}
      /\ FlashOf(priced) \in SUBSET OrderItem
  BY <1>2, PricedFacts DEF FlashOf
<1>4. /\ UNCHANGED <<owner, line, stock, cleared, started, wanted, raced, twin, torn,
                     order, sold, open, short, leaked, overwritten>>
      /\ Goto(r, next) \/ Goto(r, Idle)
  BY <1>1 DEF Check, Priced
<1>5. crossed' \in SUBSET Variants
  <2>1. VariantsOf(job.items) \in SUBSET Variants
    BY <1>2, ItemsCounted
  <2>2. crossed \in SUBSET Variants
    BY DEF SInv, TypeOK
  <2>3. \A c : crossed \cup (VariantsOf(job.items) \cap c) \in SUBSET Variants
    BY <2>1, <2>2
  <2> QED BY <1>1, <2>2, <2>3 DEF Check
<1> HIDE DEF priced
<1>6. next \in AllJobs
  BY <1>2, <1>3 DEF AllJobs, OrderJob
<1>7. Sound(next)
  BY <1>2, <1>3 DEF Sound, AddOps, MergeOps, CheckoutOps
<1>8. /\ stock' \in [Variants -> Nat] /\ cleared' \in [Requests -> SUBSET Lines]
      /\ sold' \in [Variants -> Nat]
      /\ short' \cup leaked' \cup overwritten' \cup crossed' \in SUBSET Variants
  BY <1>4, <1>5 DEF SInv, TypeOK, CartTypeOK
<1> HIDE DEF next
<1> QED BY <1>4, <1>6, <1>7, <1>8, IdleJob, OrderGotoInv

\* The fields of a loop's job after one item.
LEMMA LoopRest ==
  ASSUME NEW job \in AllJobs, NEW i
  PROVE  /\ job.op = "consume" =>
              LET next == [job EXCEPT !.left = @ \ {i}] IN
              /\ next.op = "consume" /\ next.on = job.on /\ next.items = job.items
              /\ next.left = job.left \ {i}
         /\ job.op = "deduct" =>
              LET next == [job EXCEPT !.left = @ \ {i}] IN
              next.op = "deduct" /\ next.on = job.on /\ next.left = job.left \ {i}
         /\ job.op = "undo" =>
              /\ LET next == [job EXCEPT !.reverse = @ \ {i}] IN
                 /\ next.op = "undo" /\ next.on = job.on
                 /\ next.reverse = job.reverse \ {i} /\ next.restore = job.restore
              /\ LET next == [job EXCEPT !.restore = @ \ {i}] IN
                 /\ next.op = "undo" /\ next.on = job.on
                 /\ next.reverse = job.reverse /\ next.restore = job.restore \ {i}
<1>1. ASSUME job.op = "consume"
      PROVE  job \in [op : {"consume"}, on : SUBSET Variants, items : SUBSET OrderItem,
                      left : SUBSET OrderItem]
  BY <1>1 DEF AllJobs, CartJob, OrderJob, Idle
<1>2. ASSUME job.op = "deduct"
      PROVE  job \in [op : {"deduct"}, on : SUBSET Variants, left : SUBSET OrderItem]
  BY <1>2 DEF AllJobs, CartJob, OrderJob, Idle
<1>3. ASSUME job.op = "undo"
      PROVE  job \in [op : {"undo"}, on : SUBSET Variants, reverse : SUBSET OrderItem,
                      restore : SUBSET OrderItem]
  BY <1>3 DEF AllJobs, CartJob, OrderJob, Idle
<1> QED BY <1>1, <1>2, <1>3

LEMMA ConsumeInv ==
  ASSUME SInv, NEW r \in Requests, Consume(r)
  PROVE  SInv'
<1>1. PICK job \in AllJobs : job = req[r] /\ job.op = "consume" /\ Sound(job)
  BY JobAt DEF Consume
<1>2. /\ job.on = Variants /\ job.items \in SUBSET OrderItem /\ job.left \in SUBSET OrderItem
      /\ IsFiniteSet(job.items) /\ job.items # {} /\ job.left \subseteq FlashOf(job.items)
  BY <1>1, OrderJobFacts DEF CheckoutOps, Sound
<1>3. UNCHANGED <<owner, line, stock, cleared, started, wanted, raced, twin, torn, orderVars>>
  BY DEF Consume
<1>4. CASE Goto(r, Idle)
  BY <1>3, <1>4, IdleJob, GotoInv
<1>5. ASSUME NEW i \in job.left, Goto(r, [job EXCEPT !.left = @ \ {i}])
      PROVE  SInv'
  <2> DEFINE next == [job EXCEPT !.left = @ \ {i}]
  <2>1. next \in AllJobs
    BY <1>1, LoopFields
  <2>2. /\ next.op = "consume" /\ next.on = job.on /\ next.items = job.items
        /\ next.left = job.left \ {i}
    BY <1>1, LoopRest
  <2> HIDE DEF next
  <2>3. Sound(next)
    BY <1>2, <2>2 DEF Sound, AddOps, MergeOps, CheckoutOps
  <2> QED BY <1>3, <1>5, <2>1, <2>3, GotoInv DEF next
<1>6. CASE Goto(r, [op |-> "clear", on |-> job.on, items |-> job.items])
  <2> DEFINE next == [op |-> "clear", on |-> job.on, items |-> job.items]
  <2>1. next \in AllJobs
    BY <1>2 DEF AllJobs, OrderJob
  <2>2. Sound(next)
    BY <1>2 DEF Sound, AddOps, MergeOps, CheckoutOps
  <2> HIDE DEF next
  <2> QED BY <1>3, <1>6, <2>1, <2>2, GotoInv DEF next
<1> QED BY <1>1, <1>4, <1>5, <1>6 DEF Consume

LEMMA FindCartInv ==
  ASSUME SInv, NEW r \in Requests, FindCart(r)
  PROVE  SInv'
<1>1. PICK job \in AllJobs : job = req[r] /\ job.op = "clear" /\ Sound(job)
  BY JobAt DEF FindCart
<1>2. /\ job.on = Variants /\ job.items \in SUBSET OrderItem
      /\ IsFiniteSet(job.items) /\ job.items # {}
  BY <1>1, OrderJobFacts DEF CheckoutOps, Sound
<1>3. UNCHANGED <<owner, line, stock, cleared, started, wanted, raced, twin, torn, orderVars>>
  BY DEF FindCart
<1>4. ASSUME NEW c \in CartIds,
             Goto(r, [op |-> "clearLines", on |-> job.on, items |-> job.items, cart |-> c])
      PROVE  SInv'
  <2> DEFINE next == [op |-> "clearLines", on |-> job.on, items |-> job.items, cart |-> c]
  <2>1. next \in AllJobs
    BY <1>2 DEF AllJobs, OrderJob
  <2>2. Sound(next)
    BY <1>2 DEF Sound, AddOps, MergeOps, CheckoutOps
  <2> HIDE DEF next
  <2> QED BY <1>3, <1>4, <2>1, <2>2, GotoInv DEF next
<1>5. CASE Goto(r, [op |-> "commit", on |-> job.on, items |-> job.items, carts |-> {}])
  <2> DEFINE next == [op |-> "commit", on |-> job.on, items |-> job.items, carts |-> {}]
  <2>1. next \in AllJobs
    BY <1>2 DEF AllJobs, OrderJob
  <2>2. Sound(next)
    BY <1>2 DEF Sound, AddOps, MergeOps, CheckoutOps
  <2> HIDE DEF next
  <2> QED BY <1>3, <1>5, <2>1, <2>2, GotoInv DEF next
<1> QED BY <1>1, <1>4, <1>5 DEF FindCart, CartsOf

LEMMA ClearLinesInv ==
  ASSUME SInv, NEW r \in Requests, ClearLines(r)
  PROVE  SInv'
<1>1. PICK job \in AllJobs : job = req[r] /\ job.op = "clearLines" /\ Sound(job)
  BY JobAt DEF ClearLines
<1>2. /\ job.on = Variants /\ job.items \in SUBSET OrderItem /\ job.cart \in CartIds
      /\ IsFiniteSet(job.items) /\ job.items # {}
  BY <1>1, OrderJobFacts DEF CheckoutOps, Sound
<1> DEFINE next == [op |-> "commit", on |-> job.on, items |-> job.items, carts |-> {job.cart}]
<1>3. /\ Goto(r, next) /\ cleared' = [cleared EXCEPT ![r] = LinesOf(job.cart)]
      /\ UNCHANGED <<owner, line, stock, started, wanted, raced, twin, torn, orderVars>>
  BY <1>1 DEF ClearLines
<1>4. next \in AllJobs
  BY <1>2 DEF AllJobs, OrderJob
<1>5. Sound(next)
  BY <1>2 DEF Sound, AddOps, MergeOps, CheckoutOps
<1> HIDE DEF next
<1>6. /\ stock' \in [Variants -> Nat] /\ cleared' \in [Requests -> SUBSET Lines]
      /\ sold' \in [Variants -> Nat]
      /\ short' \cup leaked' \cup overwritten' \cup crossed' \in SUBSET Variants
  BY <1>3 DEF SInv, TypeOK, CartTypeOK, LinesOf, orderVars
<1> QED BY <1>3, <1>4, <1>5, <1>6, OrderGotoInv DEF orderVars

LEMMA DeductStockInv ==
  ASSUME SInv, NEW r \in Requests, DeductStock(r)
  PROVE  SInv'
<1>1. PICK job \in AllJobs : job = req[r] /\ job.op = "deduct" /\ Sound(job)
  BY JobAt DEF DeductStock
<1>2. job.left \in SUBSET OrderItem /\ IsFiniteSet(job.left)
  BY <1>1, OrderJobFacts DEF Sound
<1>3. PICK i \in job.left :
        /\ IF stock[i.variant] >= i.quantity
           THEN /\ stock' = [stock EXCEPT ![i.variant] = @ - i.quantity]
                /\ UNCHANGED short
           ELSE /\ short' = short \cup {i.variant}
                /\ UNCHANGED stock
        /\ Goto(r, IF job.left = {i} THEN Idle ELSE [job EXCEPT !.left = @ \ {i}])
  BY <1>1 DEF DeductStock
<1>4. UNCHANGED <<owner, line, cleared, started, wanted, raced, twin, torn,
                  order, sold, open, leaked, overwritten, crossed>>
  BY DEF DeductStock
<1>5. /\ i.variant \in Variants /\ i.quantity \in Nat /\ stock \in [Variants -> Nat]
      /\ short \cup leaked \cup overwritten \cup crossed \in SUBSET Variants
  BY <1>2 DEF OrderItem, SInv, TypeOK, CartTypeOK
<1>6. stock' \in [Variants -> Nat] /\ short' \in SUBSET Variants
  <2>1. CASE stock[i.variant] >= i.quantity
    <3>1. stock' = [stock EXCEPT ![i.variant] = @ - i.quantity] /\ short' = short
      BY <1>3, <2>1
    <3>2. stock[i.variant] - i.quantity \in Nat
      BY <1>5, <2>1
    <3> QED BY <1>5, <3>1, <3>2
  <2>2. CASE ~(stock[i.variant] >= i.quantity)
    BY <1>3, <1>5, <2>2
  <2> QED BY <2>1, <2>2
<1>7. /\ cleared' \in [Requests -> SUBSET Lines] /\ sold' \in [Variants -> Nat]
      /\ short' \cup leaked' \cup overwritten' \cup crossed' \in SUBSET Variants
  BY <1>4, <1>5, <1>6 DEF SInv, TypeOK, CartTypeOK
<1>8. CASE Goto(r, Idle)
  BY <1>4, <1>6, <1>7, <1>8, IdleJob, OrderGotoInv
<1>9. CASE Goto(r, [job EXCEPT !.left = @ \ {i}])
  <2> DEFINE next == [job EXCEPT !.left = @ \ {i}]
  <2>1. next \in AllJobs
    BY <1>1, LoopFields
  <2>2. next.op = "deduct" /\ next.left = job.left \ {i}
    BY <1>1, LoopRest
  <2>3. IsFiniteSet(job.left \ {i})
    BY <1>2, FS_Subset
  <2> HIDE DEF next
  <2>4. Sound(next)
    BY <2>2, <2>3 DEF Sound, AddOps, MergeOps, CheckoutOps
  <2> QED BY <1>4, <1>6, <1>7, <1>9, <2>1, <2>4, OrderGotoInv DEF next
<1> QED BY <1>3, <1>8, <1>9

LEMMA ReadOrderInv ==
  ASSUME SInv, NEW r \in Requests, NEW o \in Orders, ReadOrder(r, o)
  PROVE  SInv'
<1> DEFINE job == [op |-> "cancel", on |-> {}, order |-> o]
<1>1. job \in AllJobs
  BY DEF AllJobs, OrderJob
<1>2. Placed(o)
  BY DEF ReadOrder, Placed, NoOrder
<1>3. Sound(job) /\ job.on \in SUBSET Variants
  BY <1>2 DEF Sound, AddOps, MergeOps, CheckoutOps
<1>4. Begin(r, job) /\ UNCHANGED <<owner, line, stock, cleared, wanted, twin, torn, orderVars>>
  BY DEF ReadOrder
<1> HIDE DEF job
<1>5. /\ req' = [req EXCEPT ![r] = job]
      /\ started' \in 0 .. MaxRequests /\ raced' \in SUBSET Variants
  BY <1>3, <1>4, BeginFacts
<1>6. RowsOK' /\ order' = order
  BY <1>4, <1>5, SameRows DEF orderVars
<1> QED BY <1>1, <1>3, <1>4, <1>5, <1>6, QuietInv

\* An order that was placed, and the same one cancelled.
LEMMA OrderFacts ==
  ASSUME SInv, NEW o \in Orders, Placed(o)
  PROVE  /\ order[o] \in [status : {"live", "cancelled"}, items : SUBSET OrderItem]
         /\ order[o].items \in SUBSET OrderItem /\ order[o].status \in {"live", "cancelled"}
         /\ IsFiniteSet(order[o].items) /\ order[o].items # {}
         /\ LET new == [order[o] EXCEPT !.status = "cancelled"] IN
            /\ new \in [status : {"live", "cancelled"}, items : SUBSET OrderItem]
            /\ new.status = "cancelled" /\ new.items = order[o].items /\ new # NoOrder
<1>1. order[o] \in [status : {"live", "cancelled"}, items : SUBSET OrderItem]
  BY DEF Placed, SInv, TypeOK
<1>2. PICK row : row = order[o]
  OBVIOUS
<1>3. row \in [status : {"live", "cancelled"}, items : SUBSET OrderItem]
  BY <1>1, <1>2
<1>4. PICK new : new = [row EXCEPT !.status = "cancelled"]
  OBVIOUS
<1>5. /\ new \in [status : {"live", "cancelled"}, items : SUBSET OrderItem]
      /\ new.status = "cancelled" /\ new.items = row.items
  BY <1>3, <1>4
<1>6. new # NoOrder
  BY <1>5 DEF NoOrder
<1>7. IsFiniteSet(order[o].items) /\ order[o].items # {}
  BY DEF SInv, OrdersSound
<1> QED BY <1>1, <1>2, <1>3, <1>4, <1>5, <1>6, <1>7

\* A cancelled order made live again keeps its items.
LEMMA ReopenFacts ==
  ASSUME SInv, NEW o \in Orders, OverwriteCancellation(o)
  PROVE  /\ Placed(o) /\ order[o].status = "cancelled"
         /\ order' \in [Orders -> {NoOrder} \cup [status : {"live", "cancelled"},
                                                 items : SUBSET OrderItem]]
         /\ order'[o] # NoOrder /\ order'[o].items = order[o].items
         /\ order'[o].status = "live"
         /\ \A p \in Orders \ {o} : order'[p] = order[p]
<1>1. order \in [Orders -> {NoOrder} \cup [status : {"live", "cancelled"},
                                          items : SUBSET OrderItem]]
  BY DEF SInv, TypeOK
<1>2. PICK row : row = order[o]
  OBVIOUS
<1>3. row.status = "cancelled"
  BY <1>2 DEF OverwriteCancellation
<1>4. row # NoOrder
  BY <1>3 DEF NoOrder
<1>5. row \in [status : {"live", "cancelled"}, items : SUBSET OrderItem]
  BY <1>1, <1>2, <1>4
<1>6. PICK new : new = [row EXCEPT !.status = "live"]
  OBVIOUS
<1>7. /\ new \in [status : {"live", "cancelled"}, items : SUBSET OrderItem]
      /\ new.status = "live" /\ new.items = row.items
  BY <1>5, <1>6
<1>8. new # NoOrder
  BY <1>7 DEF NoOrder
<1>9. order' = [order EXCEPT ![o] = new]
  BY <1>2, <1>6 DEF OverwriteCancellation
<1> QED BY <1>1, <1>2, <1>3, <1>4, <1>7, <1>8, <1>9 DEF Placed

LEMMA CancelOrderInv ==
  ASSUME SInv, NEW r \in Requests, CancelOrder(r)
  PROVE  SInv'
<1>1. PICK job \in AllJobs : job = req[r] /\ job.op = "cancel" /\ Sound(job)
  BY JobAt DEF CancelOrder
<1>2. PICK o \in Orders : o = job.order
  BY <1>1, OrderJobFacts
<1>3. Placed(o)
  BY <1>1, <1>2 DEF Sound
<1>4. PICK is : is = order[o].items
  OBVIOUS
<1>5. PICK new : new = [order[o] EXCEPT !.status = "cancelled"]
  OBVIOUS
<1>6. /\ is \in SUBSET OrderItem /\ IsFiniteSet(is) /\ is # {}
      /\ new \in [status : {"live", "cancelled"}, items : SUBSET OrderItem]
      /\ new.items = is /\ new # NoOrder
  BY <1>3, <1>4, <1>5, OrderFacts
<1> DEFINE next == [op |-> "undo", on |-> {}, reverse |-> FlashOf(is), restore |-> is]
<1>7. /\ order' = [order EXCEPT ![o] = new]
      /\ overwritten' = IF order[o].status = "cancelled" THEN overwritten \cup VariantsOf(is) ELSE overwritten
      /\ Goto(r, next)
      /\ UNCHANGED <<owner, line, stock, cleared, started, wanted, raced, twin, torn,
                     sold, open, short, leaked, crossed>>
  BY <1>1, <1>2, <1>4, <1>5 DEF CancelOrder
<1>8. next \in AllJobs
  BY <1>6 DEF AllJobs, OrderJob, FlashOf
<1>9. order \in [Orders -> {NoOrder} \cup [status : {"live", "cancelled"}, items : SUBSET OrderItem]]
  BY DEF SInv, TypeOK
<1>10. /\ order' \in [Orders -> {NoOrder} \cup [status : {"live", "cancelled"}, items : SUBSET OrderItem]]
       /\ order'[o] = new /\ \A p \in Orders \ {o} : order'[p] = order[p]
  BY <1>6, <1>7, <1>9
<1>11. Sound(next)'
  <2>1. order'[o] # NoOrder /\ order'[o].items = is
    BY <1>6, <1>10
  <2>2. \A i \in FlashOf(is) : i.flash /\ \E p \in Orders : order'[p] # NoOrder /\ i \in order'[p].items
    BY <2>1 DEF FlashOf
  <2>3. FlashOf(is) \subseteq is
    BY DEF FlashOf
  <2> QED BY <1>6, <2>2, <2>3 DEF Sound, AddOps, MergeOps, CheckoutOps, Placed
<1> HIDE DEF next
<1>12. OrdersKept
  BY <1>4, <1>6, <1>10 DEF OrdersKept, Placed
<1>13. OrdersSound'
  BY <1>3, <1>4, <1>6, <1>10 DEF OrdersSound, Placed, SInv
<1>14. LinesKept /\ CartsKept /\ LinesOwned'
  BY <1>7 DEF LinesKept, CartsKept, LinesOwned, SInv
<1>15. overwritten' \in SUBSET Variants
  BY <1>6, <1>7, ItemsCounted DEF SInv, TypeOK
<1>16. RowsOK'
  BY <1>7, <1>10, <1>15 DEF RowsOK, CartTypeOK, SInv, TypeOK
<1> QED BY <1>7, <1>8, <1>11, <1>12, <1>13, <1>14, <1>16, StepInv DEF Goto

LEMMA ReverseFlashInv ==
  ASSUME SInv, NEW r \in Requests, ReverseFlash(r)
  PROVE  SInv'
<1>1. PICK job \in AllJobs : job = req[r] /\ job.op = "undo" /\ Sound(job)
  BY JobAt DEF ReverseFlash
<1>2. job.reverse \in SUBSET OrderItem /\ job.restore \in SUBSET OrderItem
  BY <1>1, OrderJobFacts
<1>3. PICK i \in job.reverse :
        /\ sold' = [sold EXCEPT ![i.variant] = IF @ < i.quantity THEN 0 ELSE @ - i.quantity]
        /\ Goto(r, [job EXCEPT !.reverse = @ \ {i}])
  BY <1>1 DEF ReverseFlash
<1>4. UNCHANGED <<owner, line, stock, cleared, started, wanted, raced, twin, torn,
                  order, open, short, leaked, overwritten, crossed>>
  BY DEF ReverseFlash
<1>5. i.variant \in Variants /\ i.quantity \in Nat /\ sold \in [Variants -> Nat]
  BY <1>2 DEF OrderItem, SInv, TypeOK
<1>6. sold' \in [Variants -> Nat]
  <2>1. (IF sold[i.variant] < i.quantity THEN 0 ELSE sold[i.variant] - i.quantity) \in Nat
    BY <1>5
  <2> QED BY <1>3, <1>5, <2>1
<1> DEFINE next == [job EXCEPT !.reverse = @ \ {i}]
<1>7. next \in AllJobs
  BY <1>1, LoopFields
<1>8. /\ next.op = "undo" /\ next.reverse = job.reverse \ {i} /\ next.restore = job.restore
  BY <1>1, LoopRest
<1>9. Goto(r, next)
  BY <1>3
<1> HIDE DEF next
<1>10. /\ IsFiniteSet(job.restore)
       /\ job.reverse \subseteq job.restore
       /\ \A j \in job.reverse : j.flash /\ \E o \in Orders : Placed(o) /\ j \in order[o].items
  BY <1>1 DEF Sound
<1>11. Sound(next)
  BY <1>8, <1>10 DEF Sound, AddOps, MergeOps, CheckoutOps
<1>12. /\ stock' \in [Variants -> Nat] /\ cleared' \in [Requests -> SUBSET Lines]
       /\ short' \cup leaked' \cup overwritten' \cup crossed' \in SUBSET Variants
  BY <1>4 DEF SInv, TypeOK, CartTypeOK
<1> QED BY <1>4, <1>6, <1>7, <1>9, <1>11, <1>12, OrderGotoInv

LEMMA RestoreStockInv ==
  ASSUME SInv, NEW r \in Requests, RestoreStock(r)
  PROVE  SInv'
<1>1. PICK job \in AllJobs : job = req[r] /\ job.op = "undo" /\ Sound(job) /\ job.reverse = {}
  BY JobAt DEF RestoreStock
<1>2. job.restore \in SUBSET OrderItem /\ IsFiniteSet(job.restore)
  BY <1>1, OrderJobFacts DEF Sound
<1>3. PICK i \in job.restore :
        /\ stock' = [stock EXCEPT ![i.variant] = @ + i.quantity]
        /\ Goto(r, IF job.restore = {i} THEN Idle ELSE [job EXCEPT !.restore = @ \ {i}])
  BY <1>1 DEF RestoreStock
<1>4. UNCHANGED <<owner, line, cleared, started, wanted, raced, twin, torn, orderVars>>
  BY DEF RestoreStock
<1>5. i.variant \in Variants /\ i.quantity \in Nat /\ stock \in [Variants -> Nat]
  BY <1>2 DEF OrderItem, SInv, TypeOK, CartTypeOK
<1>6. stock' \in [Variants -> Nat]
  BY <1>3, <1>5
<1>7. /\ cleared' \in [Requests -> SUBSET Lines] /\ sold' \in [Variants -> Nat]
      /\ short' \cup leaked' \cup overwritten' \cup crossed' \in SUBSET Variants
  BY <1>4 DEF SInv, TypeOK, CartTypeOK, orderVars
<1>8. CASE Goto(r, Idle)
  BY <1>4, <1>6, <1>7, <1>8, IdleJob, OrderGotoInv DEF orderVars
<1>9. CASE Goto(r, [job EXCEPT !.restore = @ \ {i}])
  <2> DEFINE next == [job EXCEPT !.restore = @ \ {i}]
  <2>1. next \in AllJobs
    BY <1>1, LoopFields
  <2>2. next.op = "undo" /\ next.reverse = {} /\ next.restore = job.restore \ {i}
    BY <1>1, LoopRest
  <2>3. IsFiniteSet(job.restore \ {i})
    BY <1>2, FS_Subset
  <2> HIDE DEF next
  <2>4. Sound(next)
    BY <2>2, <2>3 DEF Sound, AddOps, MergeOps, CheckoutOps
  <2> QED BY <1>4, <1>6, <1>7, <1>9, <2>1, <2>4, OrderGotoInv DEF next, orderVars
<1> QED BY <1>3, <1>8, <1>9

LEMMA FailInv ==
  ASSUME SInv, NEW r \in Requests, Fail(r)
  PROVE  SInv'
<1>1. req[r] \in AllJobs
  BY JobAt
<1>2. /\ cleared' = [cleared EXCEPT ![r] = {}]
      /\ leaked' = leaked \cup
           CASE req[r].op = "deduct" -> VariantsOf(req[r].left)
             [] req[r].op = "undo"   -> VariantsOf(req[r].restore)
             [] OTHER -> {}
      /\ Goto(r, Idle)
      /\ UNCHANGED <<owner, line, stock, started, wanted, raced, twin, torn,
                     order, sold, open, short, overwritten, crossed>>
  BY DEF Fail
<1>3. /\ req[r].op = "deduct" => VariantsOf(req[r].left) \in SUBSET Variants
      /\ req[r].op = "undo" => VariantsOf(req[r].restore) \in SUBSET Variants
  <2>1. \A is \in SUBSET OrderItem : VariantsOf(is) \in SUBSET Variants
    BY DEF VariantsOf, OrderItem
  <2> QED BY <1>1, <2>1, OrderJobFacts
<1>4. leaked' \in SUBSET Variants
  BY <1>2, <1>3 DEF SInv, TypeOK
<1>5. /\ stock' \in [Variants -> Nat] /\ cleared' \in [Requests -> SUBSET Lines]
      /\ sold' \in [Variants -> Nat]
      /\ short' \cup leaked' \cup overwritten' \cup crossed' \in SUBSET Variants
  BY <1>2, <1>4 DEF SInv, TypeOK, CartTypeOK
<1> QED BY <1>2, <1>5, IdleJob, OrderGotoInv

LEMMA OverwriteCancellationInv ==
  ASSUME SInv, NEW o \in Orders, OverwriteCancellation(o)
  PROVE  SInv'
<1>1. /\ overwritten' = overwritten \cup VariantsOf(order[o].items)
      /\ UNCHANGED <<cartVars, sold, open, short, leaked, crossed>>
  BY DEF OverwriteCancellation
<1>2. /\ Placed(o)
      /\ order' \in [Orders -> {NoOrder} \cup [status : {"live", "cancelled"},
                                              items : SUBSET OrderItem]]
      /\ order'[o] # NoOrder /\ order'[o].items = order[o].items
      /\ \A p \in Orders \ {o} : order'[p] = order[p]
  BY ReopenFacts
<1>3. order[o].items \in SUBSET OrderItem
  BY <1>2, OrderFacts
<1>4. VariantsOf(order[o].items) \in SUBSET Variants
  BY <1>3 DEF VariantsOf, OrderItem
<1>5. TypeOK'
  BY <1>1, <1>2, <1>4 DEF SInv, TypeOK, CartTypeOK, cartVars
<1>6. OrdersKept
  BY <1>2 DEF OrdersKept, Placed
<1>7. LinesKept /\ CartsKept
  BY <1>1 DEF LinesKept, CartsKept, cartVars
<1>8. JobsSound'
  <2> SUFFICES ASSUME NEW s \in Requests PROVE Sound(req[s])'
    BY DEF JobsSound
  <2>1. PICK k : k = req[s]
    OBVIOUS
  <2>2. Sound(k)'
    BY <1>6, <1>7, <2>1, SoundKept
  <2>3. req'[s] = k
    BY <1>1, <2>1 DEF cartVars
  <2> QED BY <2>2, <2>3
<1>9. LinesOwned' /\ OrdersSound'
  BY <1>1, <1>2 DEF SInv, LinesOwned, OrdersSound, Placed, cartVars
<1> QED BY <1>5, <1>8, <1>9 DEF SInv

LEMMA EndSaleInv ==
  ASSUME SInv, NEW v \in Variants, EndSale(v)
  PROVE  SInv'
<1>1. /\ open' = open \ {v}
      /\ UNCHANGED <<cartVars, order, sold, short, leaked, overwritten, crossed>>
  BY DEF EndSale
<1>2. TypeOK'
  BY <1>1 DEF SInv, TypeOK, CartTypeOK, cartVars
<1>3. JobsSound'
  <2> SUFFICES ASSUME NEW s \in Requests PROVE Sound(req[s])'
    BY DEF JobsSound
  <2>1. PICK k : k = req[s]
    OBVIOUS
  <2>2. Sound(k)' /\ req' = req
    BY <1>1, <2>1 DEF SInv, JobsSound, Sound, Placed, FlashOf, AtMostOne, cartVars
  <2> QED BY <2>1, <2>2
<1>4. LinesOwned' /\ OrdersSound'
  BY <1>1 DEF SInv, LinesOwned, OrdersSound, Placed, cartVars
<1> QED BY <1>2, <1>3, <1>4 DEF SInv

-----------------------------------------------------------------------------
(* A commit. *)

ShopsOf(is) == {Shop[v] : v \in VariantsOf(is)}
OfShop(is, s) == {i \in is : Shop[i.variant] = s}
Ordered(is) == [status |-> "live", items |-> is]

\* The rows of a checkout's orders, one per shop.
NewOrders(is, id) ==
  /\ id \in [ShopsOf(is) -> {o \in Orders : order[o] = NoOrder}]
  /\ \A s, t \in ShopsOf(is) : id[s] = id[t] => s = t
  /\ \A s \in ShopsOf(is) : order'[id[s]] = Ordered(OfShop(is, s))
  /\ \A o \in Orders : (\A s \in ShopsOf(is) : id[s] # o) => order'[o] = order[o]

Committed(r, job) ==
  /\ \A l \in Lines : line[l].cart \in job.carts => l \in cleared[r]
  /\ \E id : NewOrders(job.items, id)
  /\ sold' = [v \in Variants |-> sold[v] + Units(FlashOf(job.items), v)]
  /\ owner' = [c \in CartIds |-> IF c \in job.carts THEN "nobody" ELSE owner[c]]
  /\ line' = [l \in Lines |-> IF l \in cleared[r] THEN NoLine ELSE line[l]]
  /\ Goto(r, [op |-> "deduct", on |-> {}, left |-> job.items])

LEMMA CommitCases ==
  ASSUME NEW r \in Requests, Commit(r)
  PROVE  /\ req[r].op = "commit"
         /\ cleared' = [cleared EXCEPT ![r] = {}]
         /\ UNCHANGED <<stock, started, wanted, raced, twin, torn, open, short, leaked, overwritten, crossed>>
         /\ \/ Goto(r, Idle) /\ UNCHANGED <<owner, line, order, sold>>
            \/ Committed(r, req[r]) /\ order' \in [Orders -> {order'[o] : o \in Orders}]
<1> DEFINE job == req[r]
<1> DEFINE shops == {Shop[v] : v \in VariantsOf(job.items)}
           ofShop(s) == {i \in job.items : Shop[i.variant] = s}
           kept == {l \in Lines : line[l].cart \in job.carts} \ cleared[r]
<1>1. /\ job.op = "commit"
      /\ cleared' = [cleared EXCEPT ![r] = {}]
      /\ UNCHANGED <<stock, started, wanted, raced, twin, torn, open, short, leaked, overwritten, crossed>>
      /\ IF kept # {}
         THEN Goto(r, Idle) /\ UNCHANGED <<owner, line, order, sold>>
         ELSE /\ \E id \in [shops -> {o \in Orders : order[o] = NoOrder}] :
                   /\ \A s, t \in shops : id[s] = id[t] => s = t
                   /\ order' = [o \in Orders |->
                        IF \E s \in shops : id[s] = o
                        THEN [status |-> "live",
                              items |-> ofShop(CHOOSE s \in shops : id[s] = o)]
                        ELSE order[o]]
              /\ sold' = [v \in Variants |-> sold[v] + Units(FlashOf(job.items), v)]
              /\ owner' = [c \in CartIds |-> IF c \in job.carts THEN "nobody" ELSE owner[c]]
              /\ line' = [l \in Lines |-> IF l \in cleared[r] THEN NoLine ELSE line[l]]
              /\ Goto(r, [op |-> "deduct", on |-> {}, left |-> job.items])
  BY DEF Commit
<1>2. ASSUME kept = {}
      PROVE  Committed(r, job) /\ order' \in [Orders -> {order'[o] : o \in Orders}]
  <2>1. PICK id \in [shops -> {o \in Orders : order[o] = NoOrder}] :
          /\ \A s, t \in shops : id[s] = id[t] => s = t
          /\ order' = [o \in Orders |->
               IF \E s \in shops : id[s] = o
               THEN [status |-> "live", items |-> ofShop(CHOOSE s \in shops : id[s] = o)]
               ELSE order[o]]
    BY <1>1, <1>2
  <2>2. ASSUME NEW s \in shops
        PROVE  order'[id[s]] = Ordered(OfShop(job.items, s))
    <3>1. id[s] \in Orders
      BY <2>1
    <3>2. (CHOOSE t \in shops : id[t] = id[s]) = s
      BY <2>1
    <3> HIDE DEF shops
    <3> QED BY <2>1, <3>1, <3>2 DEF Ordered, OfShop
  <2>3. \A o \in Orders : (\A s \in shops : id[s] # o) => order'[o] = order[o]
    <3> HIDE DEF shops, ofShop
    <3> QED BY <2>1
  <2>4. NewOrders(job.items, id)
    BY <2>1, <2>2, <2>3 DEF NewOrders, ShopsOf
  <2>5. \A l \in Lines : line[l].cart \in job.carts => l \in cleared[r]
    BY <1>2
  <2>6. order' \in [Orders -> {order'[o] : o \in Orders}]
    <3> HIDE DEF shops, ofShop
    <3> QED BY <2>1
  <2> HIDE DEF shops, ofShop, kept
  <2> QED BY <1>1, <1>2, <2>4, <2>5, <2>6 DEF Committed
<1>3. kept # {} => Goto(r, Idle) /\ UNCHANGED <<owner, line, order, sold>>
  BY <1>1
<1> HIDE DEF shops, ofShop, kept
<1> QED BY <1>1, <1>2, <1>3

\* What a commit inserts, shop by shop.
LEMMA ShopFacts ==
  ASSUME NEW is \in SUBSET OrderItem, IsFiniteSet(is), NEW s \in ShopsOf(is)
  PROVE  /\ OfShop(is, s) \in SUBSET OrderItem /\ IsFiniteSet(OfShop(is, s))
         /\ OfShop(is, s) # {}
         /\ Ordered(OfShop(is, s)) \in [status : {"live", "cancelled"}, items : SUBSET OrderItem]
         /\ Ordered(OfShop(is, s)) # NoOrder
         /\ Ordered(OfShop(is, s)).items = OfShop(is, s)
         /\ Ordered(OfShop(is, s)).status = "live"
<1>1. OfShop(is, s) \in SUBSET OrderItem /\ IsFiniteSet(OfShop(is, s))
  BY FS_Subset DEF OfShop
<1>2. OfShop(is, s) # {}
  BY DEF OfShop, ShopsOf, VariantsOf
<1> DEFINE of == OfShop(is, s)
<1> HIDE DEF of
<1>3. /\ Ordered(of).items = of /\ Ordered(of).status = "live" /\ Ordered(of) # NoOrder
  BY DEF Ordered, NoOrder
<1>4. of \in SUBSET OrderItem => Ordered(of) \in [status : {"live", "cancelled"}, items : SUBSET OrderItem]
  BY DEF Ordered
<1> QED BY <1>1, <1>2, <1>3, <1>4 DEF of

LEMMA CommitOrders ==
  ASSUME SInv, NEW is \in SUBSET OrderItem, IsFiniteSet(is), NEW id, NewOrders(is, id),
         order' \in [Orders -> {order'[o] : o \in Orders}]
  PROVE  /\ order' \in [Orders -> {NoOrder} \cup [status : {"live", "cancelled"},
                                                 items : SUBSET OrderItem]]
         /\ OrdersKept /\ OrdersSound'
         /\ \A s \in ShopsOf(is) : id[s] \in Orders /\ ~Placed(id[s])
<1>1. \A s \in ShopsOf(is) : id[s] \in Orders /\ order[id[s]] = NoOrder
  BY DEF NewOrders
<1>2. \A o \in Orders : \/ order'[o] = order[o]
                        \/ /\ order[o] = NoOrder
                           /\ \E s \in ShopsOf(is) : order'[o] = Ordered(OfShop(is, s))
  BY <1>1 DEF NewOrders
<1>3. \A o \in Orders : order'[o] \in {NoOrder} \cup [status : {"live", "cancelled"},
                                                      items : SUBSET OrderItem]
  BY <1>2, ShopFacts DEF SInv, TypeOK
<1>4. order' \in [Orders -> {NoOrder} \cup [status : {"live", "cancelled"}, items : SUBSET OrderItem]]
  BY <1>3
<1>5. OrdersKept
  BY <1>2 DEF OrdersKept, Placed
<1>6. OrdersSound'
  <2> SUFFICES ASSUME NEW o \in Orders, order'[o] # NoOrder
               PROVE  IsFiniteSet(order'[o].items) /\ order'[o].items # {}
    BY DEF OrdersSound, Placed
  <2>1. CASE order'[o] = order[o]
    BY <2>1 DEF SInv, OrdersSound, Placed
  <2>2. ASSUME NEW s \in ShopsOf(is), order'[o] = Ordered(OfShop(is, s))
        PROVE  IsFiniteSet(order'[o].items) /\ order'[o].items # {}
    BY <2>2, ShopFacts
  <2> QED BY <1>2, <2>1, <2>2
<1> QED BY <1>1, <1>4, <1>5, <1>6 DEF Placed

LEMMA CommitInv ==
  ASSUME SInv, NEW r \in Requests, Commit(r)
  PROVE  SInv'
<1>1. PICK job \in AllJobs : job = req[r] /\ Sound(job)
  BY JobAt
<1>2. /\ job.op = "commit"
      /\ cleared' = [cleared EXCEPT ![r] = {}]
      /\ UNCHANGED <<stock, started, wanted, raced, twin, torn, open, short, leaked, overwritten, crossed>>
      /\ \/ Goto(r, Idle) /\ UNCHANGED <<owner, line, order, sold>>
         \/ Committed(r, job) /\ order' \in [Orders -> {order'[o] : o \in Orders}]
  BY <1>1, CommitCases
<1>3. job.items \in SUBSET OrderItem /\ IsFiniteSet(job.items) /\ job.carts \in SUBSET CartIds
  BY <1>1, <1>2, OrderJobFacts DEF Sound, CheckoutOps
<1>4. /\ stock' \in [Variants -> Nat] /\ cleared' \in [Requests -> SUBSET Lines]
      /\ short' \cup leaked' \cup overwritten' \cup crossed' \in SUBSET Variants
  BY <1>2 DEF SInv, TypeOK, CartTypeOK
<1>5. CASE Goto(r, Idle) /\ UNCHANGED <<owner, line, order, sold>>
  <2>1. sold' \in [Variants -> Nat]
    BY <1>5 DEF SInv, TypeOK
  <2> QED BY <1>2, <1>4, <1>5, <2>1, IdleJob, OrderGotoInv
<1>6. CASE Committed(r, job) /\ order' \in [Orders -> {order'[o] : o \in Orders}]
  <2>1. PICK id : NewOrders(job.items, id)
    BY <1>6 DEF Committed
  <2>2. /\ order' \in [Orders -> {NoOrder} \cup [status : {"live", "cancelled"},
                                                items : SUBSET OrderItem]]
        /\ OrdersKept /\ OrdersSound'
    BY <1>3, <1>6, <2>1, CommitOrders
  <2>3. /\ \A l \in Lines : line[l].cart \in job.carts => l \in cleared[r]
        /\ sold' = [v \in Variants |-> sold[v] + Units(FlashOf(job.items), v)]
        /\ owner' = [c \in CartIds |-> IF c \in job.carts THEN "nobody" ELSE owner[c]]
        /\ line' = [l \in Lines |-> IF l \in cleared[r] THEN NoLine ELSE line[l]]
    BY <1>6 DEF Committed
  <2> DEFINE next == [op |-> "deduct", on |-> {}, left |-> job.items]
  <2>4. Goto(r, next)
    BY <1>6 DEF Committed
  <2>5. next \in AllJobs
    BY <1>3 DEF AllJobs, OrderJob
  <2>6. Sound(next)'
    BY <1>3 DEF Sound, AddOps, MergeOps, CheckoutOps
  <2> HIDE DEF next
  <2>7. sold' \in [Variants -> Nat]
    <3>1. \A v : Units(FlashOf(job.items), v) \in Nat
      BY <1>3, ItemsCounted, UnitsNat
    <3> QED BY <2>3, <3>1 DEF SInv, TypeOK
  <2>8. owner' \in [CartIds -> Owners \cup {"nobody"}] /\ CartsKept
    BY <2>3 DEF SInv, TypeOK, CartTypeOK, CartsKept
  <2>9. line' \in [Lines -> {NoLine} \cup Row] /\ LinesKept
    BY <2>3 DEF SInv, TypeOK, CartTypeOK, LinesKept
  <2>10. LinesOwned'
    <3> SUFFICES ASSUME NEW l \in Lines, line'[l] # NoLine
                 PROVE  owner'[line'[l].cart] # "nobody"
      BY DEF LinesOwned
    <3>1. l \notin cleared[r] /\ line'[l] = line[l]
      BY <2>3
    <3>2. line[l].cart \in CartIds /\ owner[line[l].cart] # "nobody"
      BY <3>1, LineFacts DEF SInv, LinesOwned
    <3>3. line[l].cart \notin job.carts
      BY <2>3, <3>1
    <3> QED BY <2>3, <3>1, <3>2, <3>3
  <2>11. RowsOK'
    BY <1>2, <1>4, <2>2, <2>7, <2>8, <2>9 DEF RowsOK, CartTypeOK, SInv, TypeOK
  <2> QED BY <2>2, <2>4, <2>5, <2>6, <2>8, <2>9, <2>10, <2>11, StepInv DEF Goto
<1> QED BY <1>2, <1>5, <1>6

-----------------------------------------------------------------------------
(* Units on lines. *)

LinesOK == line \in [Lines -> {NoLine} \cup Row]

LineUnits(l, v) == IF Holds(l, v) THEN line[l].quantity ELSE 0

LEMMA LineUnitsNat ==
  ASSUME LinesOK, NEW l \in Lines, NEW v
  PROVE  LineUnits(l, v) \in Nat
BY DEF LinesOK, LineUnits, Holds, Row

LEMMA UnitsOnNat ==
  ASSUME LinesOK, NEW ls, NEW v
  PROVE  UnitsOn(ls, v) \in Nat
<1> DEFINE f == [l \in Lines |-> IF l \in ls /\ Holds(l, v) THEN line[l].quantity ELSE 0]
<1>1. \A l \in Lines : f[l] \in Nat
  BY DEF LinesOK, Holds, Row
<1>2. IsFiniteSet(Lines)
  BY CartAssumption
<1>3. UnitsOn(ls, v) = SumFunctionOnSet(f, Lines)
  BY DEF UnitsOn
<1> HIDE DEF f
<1> QED BY <1>1, <1>2, <1>3, SumNat

-----------------------------------------------------------------------------
(* Type correctness. *)

LEMMA InitInv == Init => SInv
<1> SUFFICES ASSUME Init PROVE SInv
  OBVIOUS
<1>1. /\ owner \in [CartIds -> Owners \cup {"nobody"}]
      /\ line \in [Lines -> {NoLine} \cup
                   [cart : CartIds \ CartsOf("nobody"), variant : Variants,
                    quantity : 1 .. MaxQuantity]]
      /\ stock = Starting
      /\ cleared = [r \in Requests |-> {}]
      /\ req = [r \in Requests |-> Idle]
      /\ started = 0
      /\ wanted = [v \in Variants |-> CartUnits(v)]
      /\ raced = {} /\ twin = FALSE /\ torn = FALSE
      /\ order = [o \in Orders |-> NoOrder]
      /\ sold = [v \in Variants |-> 0]
      /\ open = {v \in Variants : Quota[v] > 0}
      /\ short = {} /\ leaked = {} /\ overwritten = {} /\ crossed = {}
  BY DEF Init, CartInit
<1>2. LinesOK
  <2>1. \A l \in Lines : line[l] \in {NoLine} \cup Row
    BY <1>1, CartAssumption DEF Row
  <2> QED BY <1>1, <2>1 DEF LinesOK
<1>3. wanted \in [Variants -> Int]
  BY <1>1, <1>2, UnitsOnNat DEF CartUnits
<1>4. CartTypeOK
  <2>1. stock \in [Variants -> Nat] /\ started \in 0 .. MaxRequests
    BY <1>1, CartAssumption
  <2>2. cleared \in [Requests -> SUBSET Lines]
    BY <1>1
  <2> QED BY <1>1, <1>2, <1>3, <2>1, <2>2 DEF CartTypeOK, LinesOK
<1>5. req \in [Requests -> CartJob \cup OrderJob]
  BY <1>1, IdleJob DEF AllJobs
<1>6. TypeOK
  BY <1>1, <1>4, <1>5 DEF TypeOK
<1>7. JobsSound
  BY <1>1, IdleJob DEF JobsSound
<1>8. LinesOwned
  <2> SUFFICES ASSUME NEW l \in Lines, line[l] # NoLine PROVE owner[line[l].cart] # "nobody"
    BY DEF LinesOwned
  <2>1. line[l].cart \in CartIds \ CartsOf("nobody")
    BY <1>1
  <2> QED BY <2>1 DEF CartsOf
<1>9. OrdersSound
  BY <1>1 DEF OrdersSound, Placed
<1> QED BY <1>6, <1>7, <1>8, <1>9 DEF SInv

LEMMA StutterInv ==
  ASSUME SInv, UNCHANGED vars
  PROVE  SInv'
<1>1. TypeOK'
  BY DEF SInv, TypeOK, CartTypeOK, vars, cartVars, orderVars
<1>2. JobsSound'
  BY DEF SInv, JobsSound, Sound, Placed, FlashOf, AtMostOne, vars, cartVars, orderVars
<1>3. LinesOwned' /\ OrdersSound'
  BY DEF SInv, LinesOwned, OrdersSound, Placed, vars, cartVars, orderVars
<1> QED BY <1>1, <1>2, <1>3 DEF SInv

LEMMA OrderStepInv ==
  ASSUME SInv, NEW r \in Requests, OrderStep(r)
  PROVE  SInv'
BY ReadCartInv, CheckInv, ConsumeInv, FindCartInv, ClearLinesInv, CommitInv, DeductStockInv,
   ReadOrderInv, CancelOrderInv, ReverseFlashInv, RestoreStockInv, FailInv DEF OrderStep

LEMMA NextInv == SInv /\ [Next]_vars => SInv'
BY CartStepInv, OrderStepInv, OverwriteCancellationInv, EndSaleInv, StutterInv DEF Next

\* Rows of carts, lines, orders and stock keep their types, and what requests remember
\* stays true of the rows: a line written is of the variant the request works on, an
\* item given back is one of an order.
THEOREM CheckoutTypeCorrect == Spec => []TypeOK
<1>1. SInv => TypeOK
  BY DEF SInv
<1> QED BY <1>1, InitInv, NextInv, PTL DEF Spec

-----------------------------------------------------------------------------
(* What a step of the cart leaves alone. *)

OrderOps == CheckoutOps \cup {"deduct", "cancel", "undo"}

LEMMA RenamedJob ==
  ASSUME NEW job \in AllJobs
  PROVE  /\ job.op = "addCart" => [job EXCEPT !.op = "addCreate"].op = "addCreate"
         /\ job.op = "mergeUser" => [job EXCEPT !.op = "mergeCreate"].op = "mergeCreate"
         /\ job.op = "mergeDrop" => [job EXCEPT !.op = "mergeEnd"].op = "mergeEnd"
<1>1. ASSUME job.op = "addCart"
      PROVE  job \in [op : {"addCart", "addCreate"}, on : SUBSET Variants, owner : Owners,
                      variant : Variants, quantity : Nat \ {0}, cap : Nat]
  BY <1>1 DEF AllJobs, CartJob, OrderJob, Idle
<1>2. ASSUME job.op = "mergeUser"
      PROVE  job \in [op : {"mergeUser", "mergeCreate"}, on : SUBSET Variants, guest : CartIds,
                      left : SUBSET Item]
  BY <1>2 DEF AllJobs, CartJob, OrderJob, Idle
<1>3. ASSUME job.op = "mergeDrop"
      PROVE  job \in [op : {"mergeDrop", "mergeEnd"}, on : SUBSET Variants, guest : CartIds]
  BY <1>3 DEF AllJobs, CartJob, OrderJob, Idle
<1> QED BY <1>1, <1>2, <1>3

\* A step takes one request on, to its next await.
OnlyAt(r) == req' = [req EXCEPT ![r] = req'[r]]

LEMMA GotoAt ==
  ASSUME SInv, NEW r \in Requests, NEW job, Goto(r, job)
  PROVE  /\ OnlyAt(r) /\ req'[r] = job
         /\ \A s \in Requests \ {r} : req'[s] = req[s]
<1>1. req \in [Requests -> AllJobs]
  BY DEF SInv, TypeOK, AllJobs
<1> QED BY <1>1 DEF Goto, OnlyAt

LEMMA CartStepJob ==
  ASSUME SInv, NEW r \in Requests, CartStep(r)
  PROVE  /\ req[r].op \notin OrderOps
         /\ UNCHANGED <<stock, cleared>>
         /\ OnlyAt(r) /\ req'[r].op \notin OrderOps
<1> DEFINE Quiet == /\ req[r].op \notin OrderOps
                    /\ UNCHANGED <<stock, cleared>>
                    /\ OnlyAt(r) /\ req'[r].op \notin OrderOps
<1> USE DEF OrderOps, CheckoutOps
<1>0. req[r] \in AllJobs
  BY JobAt
<1>a. \A job : Goto(r, job) => OnlyAt(r) /\ req'[r] = job
  BY GotoAt
<1>b. req \in [Requests -> AllJobs]
  BY DEF SInv, TypeOK, AllJobs
<1>1. ASSUME NEW o \in Owners, NEW v \in Variants, NEW n \in 1 .. MaxQuantity, AddItem(r, o, v, n)
      PROVE  Quiet
  BY <1>1, <1>a DEF AddItem, Begin, Idle
<1>2. ASSUME AddFindCart(r) PROVE Quiet
  <2>1. PICK job : job = req[r]
    OBVIOUS
  <2>2. /\ job.op = "addCart"
        /\ \/ Goto(r, [job EXCEPT !.op = "addCreate"])
           \/ \E c \in CartsOf(job.owner) :
                Goto(r, [op |-> "addLine", on |-> job.on, cart |-> c, variant |-> job.variant,
                         quantity |-> job.quantity, cap |-> job.cap])
        /\ UNCHANGED <<stock, cleared>>
    BY <1>2, <2>1 DEF AddFindCart
  <2>3. PICK next : next = [job EXCEPT !.op = "addCreate"]
    OBVIOUS
  <2>4. next.op = "addCreate"
    BY <1>0, <2>1, <2>2, <2>3, RenamedJob
  <2>5. Goto(r, next) => Quiet
    BY <1>a, <2>1, <2>2, <2>4
  <2>6. ASSUME NEW c,
               Goto(r, [op |-> "addLine", on |-> job.on, cart |-> c, variant |-> job.variant,
                         quantity |-> job.quantity, cap |-> job.cap])
        PROVE  Quiet
    BY <1>a, <2>1, <2>2, <2>6
  <2> QED BY <2>2, <2>3, <2>5, <2>6
<1>3. ASSUME AddFindLine(r) PROVE Quiet
  BY <1>3, <1>a DEF AddFindLine, Idle
<1>4. ASSUME AddWrite(r) PROVE Quiet
  BY <1>4, <1>a DEF AddWrite, Idle
<1>5. ASSUME NEW l \in Lines, NEW n \in 0 .. MaxQuantity, EditItem(r, l, n) PROVE Quiet
  BY <1>5, <1>a DEF EditItem, Begin, Idle
<1>6. ASSUME EditFindCart(r) PROVE Quiet
  BY <1>6, <1>a DEF EditFindCart, Idle
<1>7. ASSUME EditWrite(r) PROVE Quiet
  BY <1>7, <1>a DEF EditWrite, Idle
<1>8. ASSUME MergeCart(r) PROVE Quiet
  BY <1>8, <1>a DEF MergeCart, Begin, Idle
<1>9. ASSUME MergeFindUser(r) PROVE Quiet
  <2>1. PICK job : job = req[r]
    OBVIOUS
  <2>2. /\ job.op = "mergeUser"
        /\ \/ Goto(r, [job EXCEPT !.op = "mergeCreate"])
           \/ \E c \in CartsOf("user") :
                Goto(r, [op |-> "mergeLine", on |-> job.on, guest |-> job.guest,
                         cart |-> c, left |-> job.left])
        /\ UNCHANGED <<stock, cleared>>
    BY <1>9, <2>1 DEF MergeFindUser
  <2>3. PICK next : next = [job EXCEPT !.op = "mergeCreate"]
    OBVIOUS
  <2>4. next.op = "mergeCreate"
    BY <1>0, <2>1, <2>2, <2>3, RenamedJob
  <2>5. Goto(r, next) => Quiet
    BY <1>a, <2>1, <2>2, <2>4
  <2>6. ASSUME NEW c,
               Goto(r, [op |-> "mergeLine", on |-> job.on, guest |-> job.guest,
                         cart |-> c, left |-> job.left])
        PROVE  Quiet
    BY <1>a, <2>1, <2>2, <2>6
  <2> QED BY <2>2, <2>3, <2>5, <2>6
<1>10. ASSUME MergeFindLine(r) PROVE Quiet
  BY <1>10, <1>b DEF MergeFindLine, Goto, OnlyAt
<1>11. ASSUME MergeWrite(r) PROVE Quiet
  BY <1>11, <1>a DEF MergeWrite, Idle
<1>12. ASSUME MergeDropLines(r) PROVE Quiet
  <2>1. PICK job : job = req[r]
    OBVIOUS
  <2>2. /\ job.op = "mergeDrop" /\ Goto(r, [job EXCEPT !.op = "mergeEnd"])
        /\ UNCHANGED <<stock, cleared>>
    BY <1>12, <2>1 DEF MergeDropLines
  <2>3. PICK next : next = [job EXCEPT !.op = "mergeEnd"]
    OBVIOUS
  <2>4. next.op = "mergeEnd"
    BY <1>0, <2>1, <2>2, <2>3, RenamedJob
  <2> QED BY <1>b, <2>1, <2>2, <2>3, <2>4 DEF Goto, OnlyAt
<1>13. ASSUME MergeDropCart(r) PROVE Quiet
  <2>1. req[r].op = "mergeEnd" /\ Goto(r, Idle) /\ UNCHANGED <<stock, cleared>>
    BY <1>13, <1>a DEF MergeDropCart
  <2> QED BY <1>a, <2>1, IdleJob
<1>14. ASSUME NEW c \in CartIds, AddCreateCart(r, c) PROVE Quiet
  BY <1>14, <1>a DEF AddCreateCart
<1>15. ASSUME NEW c \in CartIds, MergeCreateUser(r, c) PROVE Quiet
  BY <1>15, <1>a DEF MergeCreateUser
<1>16. ASSUME CartFail(r) PROVE Quiet
  BY <1>16, <1>a DEF CartFail, Idle
<1> HIDE DEF Quiet
<1>17. Quiet
  BY <1>1, <1>2, <1>3, <1>4, <1>5, <1>6, <1>7, <1>8, <1>9, <1>10, <1>11, <1>12, <1>13, <1>14,
     <1>15, <1>16 DEF CartStep
<1> QED BY <1>17 DEF Quiet

-----------------------------------------------------------------------------
(* Kinds of steps: what they do to locks, orders, quotas and stock. *)

TakenBy(job) ==
  CASE job.op = "consume" -> FlashOf(job.items) \ job.left
    [] job.op \in {"clear", "clearLines", "commit"} -> FlashOf(job.items)
    [] OTHER -> {}

LEMMA TakenIs ==
  ASSUME NEW r
  PROVE  Taken(r) = TakenBy(req[r]) /\ Taken(r)' = TakenBy(req'[r])
BY DEF Taken, TakenBy

LEMMA TakenNothing ==
  ASSUME NEW job, job.op \notin InTransaction
  PROVE  TakenBy(job) = {}
BY DEF TakenBy, InTransaction

Effects == {"deduct", "undo"}

sales == <<order, sold, stock, short, leaked, overwritten>>

QuietStep(r) ==
  /\ OnlyAt(r) /\ UNCHANGED sales
  /\ req[r].op \notin Effects /\ req'[r].op \notin Effects
  /\ TakenBy(req'[r]) \subseteq TakenBy(req[r])

TakeStep(r, i) ==
  /\ OnlyAt(r) /\ UNCHANGED sales
  /\ req[r].op = "consume" /\ req'[r].op = "consume"
  /\ i \in req[r].left
  /\ ~FlashLocked(r, i.variant)
  /\ sold[i.variant] + Units(Taken(r), i.variant) + i.quantity <= Quota[i.variant]
  /\ TakenBy(req'[r]) = TakenBy(req[r]) \cup {i}

CommitStep(r) ==
  /\ OnlyAt(r) /\ Committed(r, req[r])
  /\ req[r].op = "commit"
  /\ order' \in [Orders -> {order'[o] : o \in Orders}]
  /\ UNCHANGED <<stock, short, leaked, overwritten>>

LoseStep(r) == Fail(r) /\ req[r].op \in Effects

StepKind(r) ==
  \/ QuietStep(r) \/ (\E i : TakeStep(r, i)) \/ CommitStep(r) \/ DeductStock(r)
  \/ CancelOrder(r) \/ ReverseFlash(r) \/ RestoreStock(r) \/ LoseStep(r)

LEMMA QuietGoto ==
  ASSUME SInv, NEW r \in Requests, NEW job, Goto(r, job), UNCHANGED sales,
         req[r].op \notin Effects, job.op \notin Effects,
         TakenBy(job) \subseteq TakenBy(req[r])
  PROVE  QuietStep(r)
BY GotoAt DEF QuietStep

LEMMA QuietBegin ==
  ASSUME SInv, NEW r \in Requests, NEW job, Begin(r, job), UNCHANGED sales,
         job.op \notin Effects \cup InTransaction
  PROVE  QuietStep(r)
<1>1. Goto(r, job) /\ req[r].op = "idle"
  BY DEF Begin, Idle
<1>2. TakenBy(job) = {}
  BY TakenNothing
<1> QED BY <1>1, <1>2, QuietGoto DEF Effects

LEMMA CartStepQuiet ==
  ASSUME SInv, NEW r \in Requests, CartStep(r), UNCHANGED orderVars
  PROVE  QuietStep(r)
<1>1. /\ req[r].op \notin OrderOps /\ UNCHANGED stock /\ OnlyAt(r) /\ req'[r].op \notin OrderOps
  BY CartStepJob
<1>2. req'[r].op \notin InTransaction \cup Effects /\ req[r].op \notin Effects
  BY <1>1 DEF OrderOps, CheckoutOps, InTransaction, Effects
<1>3. TakenBy(req'[r]) = {}
  BY <1>2, TakenNothing
<1> QED BY <1>1, <1>2, <1>3 DEF QuietStep, sales, orderVars

LEMMA CheckQuiet ==
  ASSUME SInv, NEW r \in Requests, Check(r)
  PROVE  QuietStep(r)
<1>1. PICK job : job = req[r]
  OBVIOUS
<1> DEFINE priced == Priced(job.items)
           next == [op |-> "consume", on |-> job.on, items |-> priced, left |-> FlashOf(priced)]
<1>2. /\ job.op = "check" /\ UNCHANGED sales
      /\ Goto(r, next) \/ Goto(r, Idle)
  BY <1>1 DEF Check, Priced, sales
<1>3. TakenBy(next) = {}
  BY DEF TakenBy
<1>4. next.op \notin Effects /\ job.op \notin Effects
  BY <1>2 DEF Effects
<1>5. Idle.op \notin Effects /\ TakenBy(Idle) = {}
  BY IdleJob, TakenNothing DEF Effects, InTransaction
<1> HIDE DEF next
<1> QED BY <1>1, <1>2, <1>3, <1>4, <1>5, QuietGoto

LEMMA ConsumeKind ==
  ASSUME SInv, NEW r \in Requests, Consume(r)
  PROVE  QuietStep(r) \/ \E i : TakeStep(r, i)
<1>1. PICK job \in AllJobs : job = req[r] /\ job.op = "consume" /\ Sound(job)
  BY JobAt DEF Consume
<1>2. job.left \subseteq FlashOf(job.items)
  BY <1>1 DEF Sound
<1>3. UNCHANGED sales
  BY DEF Consume, sales, orderVars
<1>4. Idle.op \notin Effects /\ TakenBy(Idle) = {} /\ job.op \notin Effects
  BY <1>1, IdleJob, TakenNothing DEF Effects, InTransaction
<1>5. CASE Goto(r, Idle)
  BY <1>1, <1>3, <1>4, <1>5, QuietGoto
<1>6. ASSUME NEW i \in job.left,
             ~FlashLocked(r, i.variant),
             sold[i.variant] + Units(Taken(r), i.variant) + i.quantity <= Quota[i.variant],
             Goto(r, [job EXCEPT !.left = @ \ {i}])
      PROVE  TakeStep(r, i)
  <2>1. PICK next : next = [job EXCEPT !.left = @ \ {i}]
    OBVIOUS
  <2>2. next.op = "consume" /\ next.items = job.items /\ next.left = job.left \ {i}
    BY <1>1, <2>1, LoopRest
  <2>3. TakenBy(next) = FlashOf(job.items) \ (job.left \ {i})
    BY <2>2 DEF TakenBy
  <2>4. TakenBy(job) = FlashOf(job.items) \ job.left
    BY <1>1 DEF TakenBy
  <2>5. TakenBy(next) = TakenBy(job) \cup {i}
    BY <1>2, <1>6, <2>3, <2>4
  <2>6. OnlyAt(r) /\ req'[r] = next
    BY <1>6, <2>1, GotoAt
  <2> QED BY <1>1, <1>3, <1>6, <2>2, <2>5, <2>6 DEF TakeStep
<1>7. ASSUME job.left = {}, Goto(r, [op |-> "clear", on |-> job.on, items |-> job.items])
      PROVE  QuietStep(r)
  <2> DEFINE next == [op |-> "clear", on |-> job.on, items |-> job.items]
  <2>1. TakenBy(next) \subseteq TakenBy(job)
    BY <1>1, <1>7 DEF TakenBy
  <2>2. next.op \notin Effects
    BY DEF Effects
  <2> HIDE DEF next
  <2> QED BY <1>1, <1>3, <1>4, <1>7, <2>1, <2>2, QuietGoto DEF next
<1> QED BY <1>1, <1>5, <1>6, <1>7 DEF Consume

LEMMA FindCartQuiet ==
  ASSUME SInv, NEW r \in Requests, FindCart(r)
  PROVE  QuietStep(r)
<1>1. PICK job : job = req[r]
  OBVIOUS
<1>2. job.op = "clear" /\ UNCHANGED sales
  BY <1>1 DEF FindCart, sales, orderVars
<1>3. ASSUME NEW c, Goto(r, [op |-> "clearLines", on |-> job.on, items |-> job.items, cart |-> c])
      PROVE  QuietStep(r)
  <2> DEFINE next == [op |-> "clearLines", on |-> job.on, items |-> job.items, cart |-> c]
  <2>1. TakenBy(next) \subseteq TakenBy(job)
    BY <1>2 DEF TakenBy
  <2>2. next.op \notin Effects /\ job.op \notin Effects
    BY <1>2 DEF Effects
  <2> HIDE DEF next
  <2> QED BY <1>1, <1>2, <1>3, <2>1, <2>2, QuietGoto DEF next
<1>4. ASSUME Goto(r, [op |-> "commit", on |-> job.on, items |-> job.items, carts |-> {}])
      PROVE  QuietStep(r)
  <2> DEFINE next == [op |-> "commit", on |-> job.on, items |-> job.items, carts |-> {}]
  <2>1. TakenBy(next) \subseteq TakenBy(job)
    BY <1>2 DEF TakenBy
  <2>2. next.op \notin Effects /\ job.op \notin Effects
    BY <1>2 DEF Effects
  <2> HIDE DEF next
  <2> QED BY <1>1, <1>2, <1>4, <2>1, <2>2, QuietGoto DEF next
<1> QED BY <1>1, <1>3, <1>4 DEF FindCart

LEMMA ClearLinesQuiet ==
  ASSUME SInv, NEW r \in Requests, ClearLines(r)
  PROVE  QuietStep(r)
<1>1. PICK job : job = req[r]
  OBVIOUS
<1> DEFINE next == [op |-> "commit", on |-> job.on, items |-> job.items, carts |-> {job.cart}]
<1>2. job.op = "clearLines" /\ Goto(r, next) /\ UNCHANGED sales
  BY <1>1 DEF ClearLines, sales, orderVars
<1>3. TakenBy(next) \subseteq TakenBy(job)
  BY <1>2 DEF TakenBy
<1>4. next.op \notin Effects /\ job.op \notin Effects
  BY <1>2 DEF Effects
<1> HIDE DEF next
<1> QED BY <1>1, <1>2, <1>3, <1>4, QuietGoto

LEMMA CommitKind ==
  ASSUME SInv, NEW r \in Requests, Commit(r)
  PROVE  QuietStep(r) \/ CommitStep(r)
<1>1. /\ req[r].op = "commit"
      /\ UNCHANGED <<stock, short, leaked, overwritten>>
      /\ \/ Goto(r, Idle) /\ UNCHANGED <<order, sold>>
         \/ Committed(r, req[r]) /\ order' \in [Orders -> {order'[o] : o \in Orders}]
  BY CommitCases
<1>2. Idle.op \notin Effects /\ TakenBy(Idle) = {} /\ req[r].op \notin Effects
  BY <1>1, IdleJob, TakenNothing DEF Effects, InTransaction
<1>3. CASE Goto(r, Idle) /\ UNCHANGED <<order, sold>>
  BY <1>1, <1>2, <1>3, QuietGoto DEF sales
<1>4. CASE Committed(r, req[r]) /\ order' \in [Orders -> {order'[o] : o \in Orders}]
  BY <1>1, <1>4, GotoAt DEF CommitStep, Committed
<1> QED BY <1>1, <1>3, <1>4

LEMMA FailKind ==
  ASSUME SInv, NEW r \in Requests, Fail(r)
  PROVE  QuietStep(r) \/ LoseStep(r)
<1>1. CASE req[r].op \in Effects
  BY <1>1 DEF LoseStep
<1>2. CASE req[r].op \notin Effects
  <2>1. leaked' = leaked /\ Goto(r, Idle) /\ UNCHANGED <<stock, order, sold, short, overwritten>>
    BY <1>2 DEF Fail, Effects
  <2>2. Idle.op \notin Effects /\ TakenBy(Idle) = {}
    BY IdleJob, TakenNothing DEF Effects, InTransaction
  <2> QED BY <1>2, <2>1, <2>2, QuietGoto DEF sales
<1> QED BY <1>1, <1>2

LEMMA StepKinds ==
  ASSUME SInv, [Next]_vars
  PROVE  \/ UNCHANGED <<sales, req>>
         \/ \E r \in Requests : StepKind(r)
         \/ \E o \in Orders : OverwriteCancellation(o)
<1>1. ASSUME NEW r \in Requests, CartStep(r), UNCHANGED orderVars
      PROVE  StepKind(r)
  BY <1>1, CartStepQuiet DEF StepKind
<1>2. ASSUME NEW r \in Requests, ReadCart(r)
      PROVE  StepKind(r)
  <2>1. PICK c : Begin(r, [op |-> "check", on |-> Variants, items |-> Items(c)])
    BY <1>2 DEF ReadCart
  <2> DEFINE job == [op |-> "check", on |-> Variants, items |-> Items(c)]
  <2>2. job.op \notin Effects \cup InTransaction /\ Begin(r, job)
    BY <2>1 DEF Effects, InTransaction
  <2>3. UNCHANGED sales
    BY <1>2 DEF ReadCart, sales, orderVars
  <2> HIDE DEF job
  <2> QED BY <2>2, <2>3, QuietBegin DEF StepKind
<1>3. ASSUME NEW r \in Requests, NEW o \in Orders, ReadOrder(r, o)
      PROVE  StepKind(r)
  <2> DEFINE job == [op |-> "cancel", on |-> {}, order |-> o]
  <2>1. job.op \notin Effects \cup InTransaction /\ Begin(r, job)
    BY <1>3 DEF Effects, InTransaction, ReadOrder
  <2>2. UNCHANGED sales
    BY <1>3 DEF ReadOrder, sales, orderVars
  <2> HIDE DEF job
  <2> QED BY <2>1, <2>2, QuietBegin DEF StepKind
<1>4. ASSUME NEW r \in Requests, OrderStep(r)
      PROVE  StepKind(r)
  BY <1>2, <1>3, <1>4, CheckQuiet, ConsumeKind, FindCartQuiet, ClearLinesQuiet, CommitKind, FailKind
     DEF OrderStep, StepKind
<1>5. ASSUME NEW v \in Variants, EndSale(v)
      PROVE  UNCHANGED <<sales, req>>
  BY <1>5 DEF EndSale, sales, cartVars
<1>6. ASSUME UNCHANGED vars
      PROVE  UNCHANGED <<sales, req>>
  BY <1>6 DEF vars, cartVars, orderVars, sales
<1> QED BY <1>1, <1>4, <1>5, <1>6 DEF Next

-----------------------------------------------------------------------------
(* Row locks and quotas. *)

LInv == OneLock /\ WithinQuota

LEMMA TakenFacts ==
  ASSUME SInv, NEW r \in Requests
  PROVE  /\ Taken(r) \in SUBSET OrderItem /\ Counted(Taken(r))
         /\ \A v : Units(Taken(r), v) \in Nat
<1>1. req[r] \in AllJobs /\ Sound(req[r])
  BY JobAt
<1>2. CASE req[r].op \in InTransaction
  <2>1. req[r].items \in SUBSET OrderItem /\ IsFiniteSet(req[r].items)
    BY <1>1, <1>2, OrderJobFacts DEF Sound, CheckoutOps, InTransaction
  <2>2. Taken(r) \in SUBSET req[r].items
    BY <1>2 DEF Taken, FlashOf, InTransaction
  <2>3. IsFiniteSet(Taken(r))
    BY <2>1, <2>2, FS_Subset
  <2>4. Taken(r) \in SUBSET OrderItem
    BY <2>1, <2>2
  <2> QED BY <2>3, <2>4, ItemsCounted, UnitsNat
<1>3. CASE req[r].op \notin InTransaction
  <2>1. Taken(r) = {}
    BY <1>3 DEF Taken, InTransaction
  <2>2. Counted({})
    BY FS_EmptySet DEF Counted
  <2> QED BY <2>1, <2>2, UnitsNat
<1> QED BY <1>2, <1>3

LEMMA SoldType ==
  ASSUME SInv
  PROVE  sold \in [Variants -> Nat] /\ Quota \in [Variants -> Nat] /\ stock \in [Variants -> Nat]
BY CheckoutAssumption DEF SInv, TypeOK, CartTypeOK

\* A step that takes no unit.
LEMMA LocksKept ==
  ASSUME SInv, SInv', LInv, NEW r \in Requests, OnlyAt(r),
         TakenBy(req'[r]) \subseteq TakenBy(req[r]),
         \A v \in Variants : sold'[v] <= sold[v]
  PROVE  LInv'
<1>0. req \in [Requests -> AllJobs]
  BY DEF SInv, TypeOK, AllJobs
<1>1. \A s \in Requests : TakenBy(req'[s]) \subseteq TakenBy(req[s])
  BY <1>0 DEF OnlyAt
<1>2. \A s \in Requests : Taken(s)' \subseteq Taken(s)
  BY <1>1, TakenIs
<1>3. OneLock'
  <2> SUFFICES ASSUME NEW s \in Requests, NEW t \in Requests, s # t
               PROVE  VariantsOf(TakenBy(req'[s])) \cap VariantsOf(TakenBy(req'[t])) = {}
    BY TakenIs DEF OneLock, VariantsOf
  <2>1. VariantsOf(TakenBy(req[s])) \cap VariantsOf(TakenBy(req[t])) = {}
    BY TakenIs DEF LInv, OneLock
  <2> QED BY <1>1, <2>1 DEF VariantsOf
<1>4. ASSUME NEW v \in Variants
      PROVE  /\ sold'[v] <= Quota[v]
             /\ \A s \in Requests : sold'[v] + Units(TakenBy(req'[s]), v) <= Quota[v]
  <2>1. sold'[v] \in Nat /\ sold[v] \in Nat /\ Quota[v] \in Nat /\ sold'[v] <= sold[v]
    BY SoldType, CheckoutAssumption DEF SInv, TypeOK
  <2>2. sold[v] <= Quota[v]
    BY DEF LInv, WithinQuota
  <2>3. ASSUME NEW s \in Requests
        PROVE  sold'[v] + Units(TakenBy(req'[s]), v) <= Quota[v]
    <3>1. PICK S, T : S = TakenBy(req[s]) /\ T = TakenBy(req'[s])
      OBVIOUS
    <3>2. T \in SUBSET S /\ Counted(S) /\ Units(S, v) \in Nat
      BY <1>1, <3>1, TakenFacts, TakenIs
    <3>3. Units(T, v) <= Units(S, v) /\ Units(T, v) \in Nat
      BY <3>2, UnitsOfPart, UnitsNat
    <3>4. sold[v] + Units(S, v) <= Quota[v]
      BY <3>1, TakenIs DEF LInv, WithinQuota
    <3> QED BY <2>1, <3>1, <3>2, <3>3, <3>4
  <2> QED BY <2>1, <2>2, <2>3
<1>5. WithinQuota'
  BY <1>4, TakenIs DEF WithinQuota
<1> QED BY <1>3, <1>5 DEF LInv

LEMMA TakeLocks ==
  ASSUME SInv, SInv', LInv, NEW r \in Requests, NEW i, TakeStep(r, i)
  PROVE  LInv'
<1>0. req \in [Requests -> AllJobs]
  BY DEF SInv, TypeOK, AllJobs
<1>1. /\ TakenBy(req'[r]) = TakenBy(req[r]) \cup {i} /\ sold' = sold
      /\ req[r].op = "consume" /\ i \in req[r].left
      /\ ~FlashLocked(r, i.variant)
      /\ sold[i.variant] + Units(Taken(r), i.variant) + i.quantity <= Quota[i.variant]
  BY DEF TakeStep, sales
<1>2. \A s \in Requests \ {r} : req'[s] = req[s]
  BY <1>0 DEF TakeStep, OnlyAt
<1>3. i.variant \in Variants /\ i.quantity \in Nat
  BY <1>0, <1>1, OrderJobFacts DEF OrderItem
<1>4. i \notin TakenBy(req[r])
  BY <1>1 DEF TakenBy
<1>5. \A s \in Requests \ {r} : i.variant \notin VariantsOf(TakenBy(req[s]))
  BY <1>1, TakenIs DEF FlashLocked
<1>6. VariantsOf(TakenBy(req'[r])) = VariantsOf(TakenBy(req[r])) \cup {i.variant}
  BY <1>1 DEF VariantsOf
<1>7. \A s \in Requests \ {r} : VariantsOf(TakenBy(req[r])) \cap VariantsOf(TakenBy(req[s])) = {}
  BY TakenIs DEF LInv, OneLock
<1>8. \A s \in Requests \ {r} :
        VariantsOf(TakenBy(req'[r])) \cap VariantsOf(TakenBy(req'[s])) = {}
  BY <1>2, <1>5, <1>6, <1>7
<1>9. OneLock'
  <2> SUFFICES ASSUME NEW s \in Requests, NEW t \in Requests, s # t
               PROVE  VariantsOf(TakenBy(req'[s])) \cap VariantsOf(TakenBy(req'[t])) = {}
    BY TakenIs DEF OneLock, VariantsOf
  <2>1. CASE s # r /\ t # r
    <3>1. VariantsOf(TakenBy(req[s])) \cap VariantsOf(TakenBy(req[t])) = {}
      BY TakenIs DEF LInv, OneLock
    <3> QED BY <1>2, <2>1, <3>1
  <2> QED BY <1>8, <2>1
<1>10. ASSUME NEW v \in Variants
       PROVE  /\ sold[v] <= Quota[v]
              /\ \A s \in Requests : sold[v] + Units(TakenBy(req'[s]), v) <= Quota[v]
  <2>1. sold[v] <= Quota[v] /\ \A s \in Requests : sold[v] + Units(TakenBy(req[s]), v) <= Quota[v]
    BY TakenIs DEF LInv, WithinQuota
  <2>2. sold[v] + Units(TakenBy(req'[r]), v) <= Quota[v]
    <3>1. PICK S : S = TakenBy(req[r])
      OBVIOUS
    <3>2. Counted(S) /\ Units(S, v) \in Nat
      BY <3>1, TakenFacts, TakenIs
    <3>3. Units(S \cup {i}, v) = Units(S, v) + UnitsIn(i, v)
      BY <1>3, <1>4, <3>1, <3>2, UnitsAdd
    <3>4. CASE i.variant = v
      <4>1. sold[v] + Units(S, v) + i.quantity <= Quota[v]
        BY <1>1, <3>1, <3>4, TakenIs
      <4>2. sold[v] \in Nat /\ Quota[v] \in Nat /\ UnitsIn(i, v) = i.quantity
        BY <3>4, SoldType DEF UnitsIn
      <4> QED BY <1>1, <1>3, <3>1, <3>2, <3>3, <4>1, <4>2
    <3>5. CASE i.variant # v
      <4>1. UnitsIn(i, v) = 0
        BY <3>5 DEF UnitsIn
      <4>2. Units(S \cup {i}, v) = Units(S, v)
        BY <3>2, <3>3, <4>1
      <4> QED BY <1>1, <2>1, <3>1, <4>2
    <3> QED BY <3>4, <3>5
  <2> QED BY <1>2, <2>1, <2>2
<1>11. WithinQuota'
  BY <1>1, <1>10, TakenIs DEF WithinQuota
<1> QED BY <1>9, <1>11 DEF LInv

LEMMA CommitLocks ==
  ASSUME SInv, SInv', LInv, NEW r \in Requests, CommitStep(r)
  PROVE  LInv'
<1>0. req \in [Requests -> AllJobs]
  BY DEF SInv, TypeOK, AllJobs
<1>1. /\ req[r].op = "commit"
      /\ sold' = [v \in Variants |-> sold[v] + Units(FlashOf(req[r].items), v)]
      /\ Goto(r, [op |-> "deduct", on |-> {}, left |-> req[r].items])
  BY DEF CommitStep, Committed
<1>2. \A s \in Requests \ {r} : req'[s] = req[s]
  BY <1>1, GotoAt
<1>3. TakenBy(req'[r]) = {}
  BY <1>1, GotoAt DEF TakenBy
<1>4. TakenBy(req[r]) = FlashOf(req[r].items)
  BY <1>1 DEF TakenBy
<1>5. OneLock'
  <2> SUFFICES ASSUME NEW s \in Requests, NEW t \in Requests, s # t
               PROVE  VariantsOf(TakenBy(req'[s])) \cap VariantsOf(TakenBy(req'[t])) = {}
    BY TakenIs DEF OneLock, VariantsOf
  <2>1. CASE s # r /\ t # r
    <3>1. VariantsOf(TakenBy(req[s])) \cap VariantsOf(TakenBy(req[t])) = {}
      BY TakenIs DEF LInv, OneLock
    <3> QED BY <1>2, <2>1, <3>1
  <2>2. VariantsOf({}) = {}
    BY DEF VariantsOf
  <2> QED BY <1>3, <2>1, <2>2
<1>6. ASSUME NEW v \in Variants
      PROVE  /\ sold'[v] <= Quota[v]
             /\ \A s \in Requests : sold'[v] + Units(TakenBy(req'[s]), v) <= Quota[v]
  <2>1. PICK S : S = TakenBy(req[r])
    OBVIOUS
  <2>2. Counted(S) /\ Units(S, v) \in Nat
    BY <2>1, TakenFacts, TakenIs
  <2>3. sold'[v] = sold[v] + Units(S, v)
    BY <1>1, <1>4, <2>1
  <2>4. sold[v] + Units(S, v) <= Quota[v]
    BY <2>1, TakenIs DEF LInv, WithinQuota
  <2>5. ASSUME NEW s \in Requests
        PROVE  sold'[v] + Units(TakenBy(req'[s]), v) <= Quota[v]
    <3>1. CASE s = r
      BY <1>3, <2>2, <2>3, <2>4, <3>1, UnitsEmpty, SoldType
    <3>2. CASE s # r /\ v \in VariantsOf(S)
      <4>1. v \notin VariantsOf(TakenBy(req[s]))
        BY <2>1, <3>2, TakenIs DEF LInv, OneLock
      <4>2. Units(TakenBy(req[s]), v) = 0
        BY <4>1, TakenFacts, TakenIs, UnitsNone
      <4> QED BY <1>2, <2>2, <2>3, <2>4, <3>2, <4>2, SoldType
    <3>3. CASE s # r /\ v \notin VariantsOf(S)
      <4>1. Units(S, v) = 0
        BY <2>2, <3>3, UnitsNone
      <4>2. sold[v] + Units(TakenBy(req[s]), v) <= Quota[v]
        BY TakenIs DEF LInv, WithinQuota
      <4>3. sold'[v] = sold[v]
        BY <2>3, <4>1, SoldType
      <4> QED BY <1>2, <3>3, <4>2, <4>3
    <3> QED BY <3>1, <3>2, <3>3
  <2> QED BY <2>3, <2>4, <2>5
<1>7. WithinQuota'
  BY <1>6, TakenIs DEF WithinQuota
<1> QED BY <1>5, <1>7 DEF LInv

\* The steps that come after a transaction hold no lock.
LEMMA EffectLocks ==
  ASSUME SInv, NEW r \in Requests,
         DeductStock(r) \/ CancelOrder(r) \/ ReverseFlash(r) \/ RestoreStock(r) \/ LoseStep(r)
  PROVE  /\ OnlyAt(r) /\ TakenBy(req'[r]) = {}
         /\ \A v \in Variants : sold'[v] <= sold[v]
<1>0. req \in [Requests -> AllJobs] /\ TakenBy(Idle) = {} /\ sold \in [Variants -> Nat]
  BY IdleJob, TakenNothing, SoldType DEF InTransaction, SInv, TypeOK, AllJobs
<1>1. CASE DeductStock(r)
  <2>1. PICK job \in AllJobs : job = req[r] /\ job.op = "deduct"
    BY <1>1, JobAt DEF DeductStock
  <2>2. PICK i : Goto(r, IF job.left = {i} THEN Idle ELSE [job EXCEPT !.left = @ \ {i}])
    BY <1>1, <2>1 DEF DeductStock
  <2>3. PICK next : next = [job EXCEPT !.left = @ \ {i}]
    OBVIOUS
  <2>4. next.op = "deduct"
    BY <2>1, <2>3, LoopRest
  <2>5. TakenBy(next) = {}
    BY <2>4, TakenNothing DEF InTransaction
  <2>6. OnlyAt(r) /\ (req'[r] = Idle \/ req'[r] = next)
    BY <2>2, <2>3, GotoAt
  <2> QED BY <1>0, <1>1, <2>5, <2>6 DEF DeductStock
<1>2. CASE CancelOrder(r)
  <2>1. PICK job : Goto(r, job) /\ job.op = "undo"
    BY <1>2 DEF CancelOrder
  <2>2. TakenBy(job) = {} /\ OnlyAt(r) /\ req'[r] = job
    BY <2>1, TakenNothing, GotoAt DEF InTransaction
  <2> QED BY <1>0, <1>2, <2>2 DEF CancelOrder
<1>3. CASE ReverseFlash(r)
  <2>1. PICK job \in AllJobs : job = req[r] /\ job.op = "undo"
    BY <1>3, JobAt DEF ReverseFlash
  <2>2. PICK i \in job.reverse :
          /\ Goto(r, [job EXCEPT !.reverse = @ \ {i}])
          /\ sold' = [sold EXCEPT ![i.variant] = IF @ < i.quantity THEN 0 ELSE @ - i.quantity]
    BY <1>3, <2>1 DEF ReverseFlash
  <2>3. PICK next : next = [job EXCEPT !.reverse = @ \ {i}]
    OBVIOUS
  <2>4. next.op = "undo"
    BY <2>1, <2>3, LoopRest
  <2>5. TakenBy(next) = {}
    BY <2>4, TakenNothing DEF InTransaction
  <2>6. OnlyAt(r) /\ req'[r] = next
    BY <2>2, <2>3, GotoAt
  <2>7. i.quantity \in Nat
    BY <2>1, OrderJobFacts DEF OrderItem
  <2>8. \A v \in Variants : sold'[v] <= sold[v]
    BY <1>0, <2>2, <2>7
  <2> QED BY <2>5, <2>6, <2>8
<1>4. CASE RestoreStock(r)
  <2>1. PICK job \in AllJobs : job = req[r] /\ job.op = "undo"
    BY <1>4, JobAt DEF RestoreStock
  <2>2. PICK i : Goto(r, IF job.restore = {i} THEN Idle ELSE [job EXCEPT !.restore = @ \ {i}])
    BY <1>4, <2>1 DEF RestoreStock
  <2>3. PICK next : next = [job EXCEPT !.restore = @ \ {i}]
    OBVIOUS
  <2>4. next.op = "undo"
    BY <2>1, <2>3, LoopRest
  <2>5. TakenBy(next) = {}
    BY <2>4, TakenNothing DEF InTransaction
  <2>6. OnlyAt(r) /\ (req'[r] = Idle \/ req'[r] = next)
    BY <2>2, <2>3, GotoAt
  <2> QED BY <1>0, <1>4, <2>5, <2>6 DEF RestoreStock, orderVars
<1>5. CASE LoseStep(r)
  BY <1>0, <1>5, GotoAt DEF LoseStep, Fail
<1> QED BY <1>1, <1>2, <1>3, <1>4, <1>5

LEMMA LocksNext ==
  ASSUME SInv, SInv', LInv, [Next]_vars
  PROVE  LInv'
<1>1. ASSUME UNCHANGED <<sales, req>>
      PROVE  LInv'
  BY <1>1, TakenIs DEF LInv, OneLock, WithinQuota, sales
<1>2. ASSUME NEW r \in Requests, StepKind(r)
      PROVE  LInv'
  <2>1. CASE QuietStep(r)
    <3>1. \A v \in Variants : sold'[v] <= sold[v]
      BY <2>1, SoldType DEF QuietStep, sales
    <3> QED BY <2>1, <3>1, LocksKept DEF QuietStep
  <2>2. CASE DeductStock(r) \/ CancelOrder(r) \/ ReverseFlash(r) \/ RestoreStock(r) \/ LoseStep(r)
    <3>1. /\ OnlyAt(r) /\ TakenBy(req'[r]) = {}
          /\ \A v \in Variants : sold'[v] <= sold[v]
      BY <2>2, EffectLocks
    <3> QED BY <3>1, LocksKept
  <2> QED BY <1>2, <2>1, <2>2, TakeLocks, CommitLocks DEF StepKind
<1>3. ASSUME NEW o \in Orders, OverwriteCancellation(o)
      PROVE  LInv'
  <2>1. req' = req /\ sold' = sold
    BY <1>3 DEF OverwriteCancellation, cartVars
  <2> QED BY <2>1, TakenIs DEF LInv, OneLock, WithinQuota
<1> QED BY <1>1, <1>2, <1>3, StepKinds

LEMMA LocksInit == Init => LInv
<1> SUFFICES ASSUME Init PROVE LInv
  OBVIOUS
<1>1. req = [r \in Requests |-> Idle] /\ sold = [v \in Variants |-> 0]
  BY DEF Init, CartInit
<1>2. \A r \in Requests : Taken(r) = {}
  BY <1>1, IdleJob, TakenIs, TakenNothing DEF InTransaction
<1>3. OneLock
  BY <1>2 DEF OneLock, VariantsOf
<1>4. WithinQuota
  BY <1>1, <1>2, UnitsEmpty, CheckoutAssumption DEF WithinQuota
<1> QED BY <1>3, <1>4 DEF LInv

-----------------------------------------------------------------------------
(* What orders and effects still to come sum up to. *)

DeductOf(job, v) == IF job.op = "deduct" THEN Units(job.left, v) ELSE 0
RestoreOf(job, v) == IF job.op = "undo" THEN Units(job.restore, v) ELSE 0
ReverseOf(job, v) == IF job.op = "undo" THEN Units(job.reverse, v) ELSE 0

CountedJob(job) ==
  /\ job \in AllJobs
  /\ job.op = "deduct" => IsFiniteSet(job.left)
  /\ job.op = "undo" => IsFiniteSet(job.restore) /\ job.reverse \subseteq job.restore

LEMMA EffectNat ==
  ASSUME NEW job, CountedJob(job), NEW v
  PROVE  /\ DeductOf(job, v) \in Nat /\ RestoreOf(job, v) \in Nat /\ ReverseOf(job, v) \in Nat
         /\ job.op = "deduct" => job.left \in SUBSET OrderItem /\ Counted(job.left)
         /\ job.op = "undo" => /\ job.reverse \in SUBSET OrderItem /\ Counted(job.reverse)
                               /\ job.restore \in SUBSET OrderItem /\ Counted(job.restore)
<1>1. CASE job.op = "deduct"
  <2>1. job.left \in SUBSET OrderItem /\ Counted(job.left)
    BY <1>1, OrderJobFacts, ItemsCounted DEF CountedJob
  <2> QED BY <1>1, <2>1, UnitsNat DEF DeductOf, RestoreOf, ReverseOf
<1>2. CASE job.op = "undo"
  <2>1. job.restore \in SUBSET OrderItem /\ Counted(job.restore)
    BY <1>2, OrderJobFacts, ItemsCounted DEF CountedJob
  <2>2. job.reverse \in SUBSET OrderItem /\ IsFiniteSet(job.reverse)
    BY <1>2, OrderJobFacts, FS_Subset DEF CountedJob
  <2>3. Counted(job.reverse)
    BY <2>2, ItemsCounted
  <2> QED BY <1>2, <2>1, <2>2, <2>3, UnitsNat DEF DeductOf, RestoreOf, ReverseOf
<1>3. CASE job.op \notin {"deduct", "undo"}
  BY <1>3 DEF DeductOf, RestoreOf, ReverseOf
<1> QED BY <1>1, <1>2, <1>3

LEMMA CountedJobs ==
  ASSUME SInv, NEW s \in Requests
  PROVE  CountedJob(req[s])
BY JobAt DEF CountedJob, Sound

LEMMA CountedNext ==
  ASSUME SInv', NEW s \in Requests
  PROVE  CountedJob(req'[s])
BY DEF SInv, TypeOK, JobsSound, AllJobs, CountedJob, Sound

LEMMA EffectSums ==
  ASSUME SInv, SInv', NEW r \in Requests, OnlyAt(r), NEW v
  PROVE  /\ ToDeduct(v)' = ToDeduct(v) + DeductOf(req'[r], v) - DeductOf(req[r], v)
         /\ ToRestore(v)' = ToRestore(v) + RestoreOf(req'[r], v) - RestoreOf(req[r], v)
         /\ ToReverse(v)' = ToReverse(v) + ReverseOf(req'[r], v) - ReverseOf(req[r], v)
<1>0. req \in [Requests -> AllJobs] /\ IsFiniteSet(Requests)
  BY CheckoutAssumption DEF SInv, TypeOK, AllJobs
<1>1. \A s \in Requests \ {r} : req'[s] = req[s]
  BY <1>0 DEF OnlyAt
<1>2. ASSUME NEW s \in Requests
      PROVE  /\ DeductOf(req[s], v) \in Int /\ DeductOf(req'[s], v) \in Int
             /\ RestoreOf(req[s], v) \in Int /\ RestoreOf(req'[s], v) \in Int
             /\ ReverseOf(req[s], v) \in Int /\ ReverseOf(req'[s], v) \in Int
  <2>1. CountedJob(req[s]) /\ CountedJob(req'[s])
    BY CountedJobs, CountedNext
  <2> QED BY <2>1, EffectNat
<1>3. ToDeduct(v)' = ToDeduct(v) + DeductOf(req'[r], v) - DeductOf(req[r], v)
  <2> DEFINE f == [s \in Requests |-> DeductOf(req[s], v)]
             g == [s \in Requests |-> DeductOf(req'[s], v)]
  <2>1. ToDeduct(v) = SumFunctionOnSet(f, Requests) /\ ToDeduct(v)' = SumFunctionOnSet(g, Requests)
    BY DEF ToDeduct, DeductOf
  <2>2. /\ \A s \in Requests : f[s] \in Int /\ g[s] \in Int
        /\ \A s \in Requests \ {r} : f[s] = g[s]
        /\ f[r] = DeductOf(req[r], v) /\ g[r] = DeductOf(req'[r], v)
    BY <1>1, <1>2
  <2> HIDE DEF f, g
  <2>3. SumFunctionOnSet(g, Requests) = SumFunctionOnSet(f, Requests) + g[r] - f[r]
    BY <1>0, <2>2, SumChange
  <2> QED BY <2>1, <2>2, <2>3
<1>4. ToRestore(v)' = ToRestore(v) + RestoreOf(req'[r], v) - RestoreOf(req[r], v)
  <2> DEFINE f == [s \in Requests |-> RestoreOf(req[s], v)]
             g == [s \in Requests |-> RestoreOf(req'[s], v)]
  <2>1. ToRestore(v) = SumFunctionOnSet(f, Requests) /\ ToRestore(v)' = SumFunctionOnSet(g, Requests)
    BY DEF ToRestore, RestoreOf
  <2>2. /\ \A s \in Requests : f[s] \in Int /\ g[s] \in Int
        /\ \A s \in Requests \ {r} : f[s] = g[s]
        /\ f[r] = RestoreOf(req[r], v) /\ g[r] = RestoreOf(req'[r], v)
    BY <1>1, <1>2
  <2> HIDE DEF f, g
  <2>3. SumFunctionOnSet(g, Requests) = SumFunctionOnSet(f, Requests) + g[r] - f[r]
    BY <1>0, <2>2, SumChange
  <2> QED BY <2>1, <2>2, <2>3
<1>5. ToReverse(v)' = ToReverse(v) + ReverseOf(req'[r], v) - ReverseOf(req[r], v)
  <2> DEFINE f == [s \in Requests |-> ReverseOf(req[s], v)]
             g == [s \in Requests |-> ReverseOf(req'[s], v)]
  <2>1. ToReverse(v) = SumFunctionOnSet(f, Requests) /\ ToReverse(v)' = SumFunctionOnSet(g, Requests)
    BY DEF ToReverse, ReverseOf
  <2>2. /\ \A s \in Requests : f[s] \in Int /\ g[s] \in Int
        /\ \A s \in Requests \ {r} : f[s] = g[s]
        /\ f[r] = ReverseOf(req[r], v) /\ g[r] = ReverseOf(req'[r], v)
    BY <1>1, <1>2
  <2> HIDE DEF f, g
  <2>3. SumFunctionOnSet(g, Requests) = SumFunctionOnSet(f, Requests) + g[r] - f[r]
    BY <1>0, <2>2, SumChange
  <2> QED BY <2>1, <2>2, <2>3
<1> QED BY <1>3, <1>4, <1>5

LEMMA EffectsNat ==
  ASSUME SInv, NEW v
  PROVE  /\ ToDeduct(v) \in Nat /\ ToRestore(v) \in Nat /\ ToReverse(v) \in Nat
         /\ \A s \in Requests : ReverseOf(req[s], v) <= ToReverse(v)
<1>0. IsFiniteSet(Requests)
  BY CheckoutAssumption
<1>1. \A s \in Requests :
        DeductOf(req[s], v) \in Nat /\ RestoreOf(req[s], v) \in Nat /\ ReverseOf(req[s], v) \in Nat
  BY CountedJobs, EffectNat
<1> DEFINE f == [s \in Requests |-> DeductOf(req[s], v)]
           g == [s \in Requests |-> RestoreOf(req[s], v)]
           h == [s \in Requests |-> ReverseOf(req[s], v)]
<1>2. /\ ToDeduct(v) = SumFunctionOnSet(f, Requests)
      /\ ToRestore(v) = SumFunctionOnSet(g, Requests)
      /\ ToReverse(v) = SumFunctionOnSet(h, Requests)
  BY DEF ToDeduct, DeductOf, ToRestore, RestoreOf, ToReverse, ReverseOf
<1>3. \A s \in Requests : f[s] \in Nat /\ g[s] \in Nat /\ h[s] \in Nat /\ h[s] = ReverseOf(req[s], v)
  BY <1>1
<1> HIDE DEF f, g, h
<1>4. SumFunctionOnSet(f, Requests) \in Nat
  BY <1>0, <1>3, SumNat
<1>5. SumFunctionOnSet(g, Requests) \in Nat
  BY <1>0, <1>3, SumNat
<1>6. SumFunctionOnSet(h, Requests) \in Nat /\ \A s \in Requests : h[s] <= SumFunctionOnSet(h, Requests)
  BY <1>0, <1>3, SumNat
<1> QED BY <1>2, <1>3, <1>4, <1>5, <1>6

LiveOf(row, v) == IF row.status = "live" THEN Units(row.items, v) ELSE 0
LiveFlashOf(row, v) == IF row.status = "live" THEN Units(FlashOf(row.items), v) ELSE 0
PlacedOf(row, v) == IF row # NoOrder THEN Units(row.items, v) ELSE 0

CountedRow(row) ==
  \/ row = NoOrder
  \/ /\ row # NoOrder /\ row.items \in SUBSET OrderItem /\ IsFiniteSet(row.items)
     /\ row.status \in {"live", "cancelled"}

LEMMA RowNat ==
  ASSUME NEW row, CountedRow(row), NEW v
  PROVE  /\ LiveOf(row, v) \in Nat /\ LiveFlashOf(row, v) \in Nat /\ PlacedOf(row, v) \in Nat
         /\ row = NoOrder => LiveOf(row, v) = 0 /\ LiveFlashOf(row, v) = 0 /\ PlacedOf(row, v) = 0
<1>1. CASE row = NoOrder
  BY <1>1 DEF LiveOf, LiveFlashOf, PlacedOf, NoOrder
<1>2. CASE row # NoOrder
  <2>1. Counted(row.items) /\ Counted(FlashOf(row.items))
    BY <1>2, ItemsCounted DEF CountedRow
  <2> QED BY <1>2, <2>1, UnitsNat DEF LiveOf, LiveFlashOf, PlacedOf
<1> QED BY <1>1, <1>2

LEMMA CountedRows ==
  ASSUME SInv, NEW o \in Orders
  PROVE  CountedRow(order[o])
BY DEF SInv, TypeOK, OrdersSound, Placed, CountedRow

LEMMA CountedRowsNext ==
  ASSUME SInv', NEW o \in Orders
  PROVE  CountedRow(order'[o])
BY DEF SInv, TypeOK, OrdersSound, Placed, CountedRow

LEMMA OrderSumsAre ==
  ASSUME NEW v
  PROVE  /\ LiveUnits(v) = SumFunctionOnSet([o \in Orders |-> LiveOf(order[o], v)], Orders)
         /\ LiveFlash(v) = SumFunctionOnSet([o \in Orders |-> LiveFlashOf(order[o], v)], Orders)
         /\ OrderedUnits(v) = SumFunctionOnSet([o \in Orders |-> PlacedOf(order[o], v)], Orders)
         /\ LiveUnits(v)' = SumFunctionOnSet([o \in Orders |-> LiveOf(order'[o], v)], Orders)
         /\ LiveFlash(v)' = SumFunctionOnSet([o \in Orders |-> LiveFlashOf(order'[o], v)], Orders)
         /\ OrderedUnits(v)' = SumFunctionOnSet([o \in Orders |-> PlacedOf(order'[o], v)], Orders)
BY DEF LiveUnits, LiveFlash, OrderedUnits, LiveOf, LiveFlashOf, PlacedOf, Placed

LEMMA OrdersNat ==
  ASSUME SInv, NEW v
  PROVE  LiveUnits(v) \in Nat /\ LiveFlash(v) \in Nat /\ OrderedUnits(v) \in Nat
<1>0. IsFiniteSet(Orders)
  BY CheckoutAssumption
<1> DEFINE f == [o \in Orders |-> LiveOf(order[o], v)]
           g == [o \in Orders |-> LiveFlashOf(order[o], v)]
           h == [o \in Orders |-> PlacedOf(order[o], v)]
<1>1. \A o \in Orders : f[o] \in Nat /\ g[o] \in Nat /\ h[o] \in Nat
  BY CountedRows, RowNat
<1>2. /\ LiveUnits(v) = SumFunctionOnSet(f, Orders) /\ LiveFlash(v) = SumFunctionOnSet(g, Orders)
      /\ OrderedUnits(v) = SumFunctionOnSet(h, Orders)
  BY OrderSumsAre
<1> HIDE DEF f, g, h
<1>3. SumFunctionOnSet(f, Orders) \in Nat
  BY <1>0, <1>1, SumNat
<1>4. SumFunctionOnSet(g, Orders) \in Nat
  BY <1>0, <1>1, SumNat
<1>5. SumFunctionOnSet(h, Orders) \in Nat
  BY <1>0, <1>1, SumNat
<1> QED BY <1>2, <1>3, <1>4, <1>5

\* One order changes.
LEMMA OrderChange ==
  ASSUME SInv, SInv', NEW o \in Orders, \A p \in Orders \ {o} : order'[p] = order[p], NEW v
  PROVE  /\ LiveUnits(v)' = LiveUnits(v) + LiveOf(order'[o], v) - LiveOf(order[o], v)
         /\ LiveFlash(v)' = LiveFlash(v) + LiveFlashOf(order'[o], v) - LiveFlashOf(order[o], v)
<1>0. IsFiniteSet(Orders)
  BY CheckoutAssumption
<1>1. LiveUnits(v)' = LiveUnits(v) + LiveOf(order'[o], v) - LiveOf(order[o], v)
  <2> DEFINE f == [p \in Orders |-> LiveOf(order[p], v)]
             g == [p \in Orders |-> LiveOf(order'[p], v)]
  <2>1. \A p \in Orders : f[p] \in Int /\ g[p] \in Int
    BY CountedRows, CountedRowsNext, RowNat
  <2>2. /\ \A p \in Orders \ {o} : f[p] = g[p]
        /\ f[o] = LiveOf(order[o], v) /\ g[o] = LiveOf(order'[o], v)
    OBVIOUS
  <2>3. LiveUnits(v) = SumFunctionOnSet(f, Orders) /\ LiveUnits(v)' = SumFunctionOnSet(g, Orders)
    BY OrderSumsAre
  <2> HIDE DEF f, g
  <2>4. SumFunctionOnSet(g, Orders) = SumFunctionOnSet(f, Orders) + g[o] - f[o]
    BY <1>0, <2>1, <2>2, SumChange
  <2> QED BY <2>2, <2>3, <2>4
<1>2. LiveFlash(v)' = LiveFlash(v) + LiveFlashOf(order'[o], v) - LiveFlashOf(order[o], v)
  <2> DEFINE f == [p \in Orders |-> LiveFlashOf(order[p], v)]
             g == [p \in Orders |-> LiveFlashOf(order'[p], v)]
  <2>1. \A p \in Orders : f[p] \in Int /\ g[p] \in Int
    BY CountedRows, CountedRowsNext, RowNat
  <2>2. /\ \A p \in Orders \ {o} : f[p] = g[p]
        /\ f[o] = LiveFlashOf(order[o], v) /\ g[o] = LiveFlashOf(order'[o], v)
    OBVIOUS
  <2>3. LiveFlash(v) = SumFunctionOnSet(f, Orders) /\ LiveFlash(v)' = SumFunctionOnSet(g, Orders)
    BY OrderSumsAre
  <2> HIDE DEF f, g
  <2>4. SumFunctionOnSet(g, Orders) = SumFunctionOnSet(f, Orders) + g[o] - f[o]
    BY <1>0, <2>1, <2>2, SumChange
  <2> QED BY <2>2, <2>3, <2>4
<1> QED BY <1>1, <1>2

\* A variant has one shop, so one of the new orders has its units.
LEMMA ShopUnits ==
  ASSUME NEW is \in SUBSET OrderItem, IsFiniteSet(is), NEW v, NEW s
  PROVE  Units(OfShop(is, s), v) = IF s = Shop[v] THEN Units(is, v) ELSE 0
<1>1. Counted(is) /\ OfShop(is, s) \in SUBSET is
  BY ItemsCounted DEF OfShop
<1>2. CASE s = Shop[v]
  <2>1. \A i \in is \ OfShop(is, s) : i.variant # v
    BY <1>2 DEF OfShop
  <2> QED BY <1>1, <1>2, <2>1, UnitsSub
<1>3. CASE s # Shop[v]
  <2>1. v \notin VariantsOf(OfShop(is, s))
    BY <1>3 DEF OfShop, VariantsOf
  <2>2. Counted(OfShop(is, s))
    BY <1>1, FS_Subset DEF Counted
  <2> QED BY <1>3, <2>1, <2>2, UnitsNone
<1> QED BY <1>2, <1>3

\* Of the rows id[s], s \in S, which count for nothing in f, that of k counts n in g.
AddsAt(S, id, k, f, g, n) ==
  /\ n \in Nat
  /\ \A s \in S : id[s] \in Orders
  /\ \A s, t \in S : id[s] = id[t] => s = t
  /\ \A o \in Orders : f[o] \in Nat /\ g[o] \in Nat
  /\ \A o \in Orders : (\A s \in S : id[s] # o) => g[o] = f[o]
  /\ \A s \in S : f[id[s]] = 0
  /\ \A s \in S \ {k} : g[id[s]] = 0
  /\ k \in S => g[id[k]] = n
  /\ k \notin S => n = 0

LEMMA ShopSum ==
  ASSUME NEW S, NEW id, NEW k, NEW f, NEW g, NEW n, AddsAt(S, id, k, f, g, n)
  PROVE  SumFunctionOnSet(g, Orders) = SumFunctionOnSet(f, Orders) + n
<1> USE DEF AddsAt
<1>0. IsFiniteSet(Orders)
  BY CheckoutAssumption
<1>1. SumFunctionOnSet(f, Orders) \in Nat
  BY <1>0, SumNat
<1>2. CASE k \in S
  <2>1. PICK e \in Orders : e = id[k]
    BY <1>2
  <2>2. f[e] = 0 /\ g[e] = n
    BY <1>2, <2>1
  <2>3. ASSUME NEW o \in Orders \ {e}
        PROVE  f[o] = g[o]
    <3>1. CASE \E s \in S : id[s] = o
      <4>1. PICK s \in S : id[s] = o
        BY <3>1
      <4>2. s # k
        BY <2>1, <4>1
      <4> QED BY <4>1, <4>2
    <3> QED BY <3>1
  <2>4. SumFunctionOnSet(g, Orders) = SumFunctionOnSet(f, Orders) + g[e] - f[e]
    BY <1>0, <2>3, SumChange
  <2> QED BY <1>1, <2>2, <2>4
<1>3. CASE k \notin S
  <2>1. ASSUME NEW o \in Orders
        PROVE  f[o] = g[o] /\ f[o] \in Int
    <3>1. CASE \E s \in S : id[s] = o
      BY <1>3, <3>1
    <3> QED BY <3>1
  <2>2. SumFunctionOnSet(f, Orders) = SumFunctionOnSet(g, Orders)
    BY <1>0, <2>1, SumSame
  <2> QED BY <1>1, <1>3, <2>2
<1> QED BY <1>2, <1>3

\* The orders of a checkout hold what it read from the cart.
LEMMA CommitSums ==
  ASSUME SInv, SInv', NEW is \in SUBSET OrderItem, IsFiniteSet(is), NEW id, NewOrders(is, id),
         NEW v
  PROVE  /\ LiveUnits(v)' = LiveUnits(v) + Units(is, v)
         /\ LiveFlash(v)' = LiveFlash(v) + Units(FlashOf(is), v)
         /\ OrderedUnits(v)' = OrderedUnits(v) + Units(is, v)
<1>1. /\ \A s \in ShopsOf(is) : id[s] \in Orders /\ order[id[s]] = NoOrder
      /\ \A s \in ShopsOf(is) : order'[id[s]] = Ordered(OfShop(is, s))
      /\ \A o \in Orders : (\A s \in ShopsOf(is) : id[s] # o) => order'[o] = order[o]
  BY DEF NewOrders
<1>9. \A s, t \in ShopsOf(is) : id[s] = id[t] => s = t
  BY DEF NewOrders
<1>2. FlashOf(is) \in SUBSET OrderItem /\ IsFiniteSet(FlashOf(is))
  BY FS_Subset DEF FlashOf
<1>3. Units(is, v) \in Nat /\ Units(FlashOf(is), v) \in Nat
  BY <1>2, ItemsCounted, UnitsNat
<1>4. Shop[v] \notin ShopsOf(is) => Units(is, v) = 0 /\ Units(FlashOf(is), v) = 0
  <2>1. Shop[v] \notin ShopsOf(is) => v \notin VariantsOf(is) /\ v \notin VariantsOf(FlashOf(is))
    BY DEF ShopsOf, VariantsOf, FlashOf
  <2> QED BY <2>1, <1>2, ItemsCounted, UnitsNone
<1>5. ASSUME NEW s \in ShopsOf(is)
      PROVE  LET row == Ordered(OfShop(is, s)) IN
             /\ LiveOf(row, v) = IF s = Shop[v] THEN Units(is, v) ELSE 0
             /\ LiveFlashOf(row, v) = IF s = Shop[v] THEN Units(FlashOf(is), v) ELSE 0
             /\ PlacedOf(row, v) = IF s = Shop[v] THEN Units(is, v) ELSE 0
  <2>1. /\ Ordered(OfShop(is, s)).items = OfShop(is, s)
        /\ Ordered(OfShop(is, s)).status = "live"
        /\ Ordered(OfShop(is, s)) # NoOrder
    BY ShopFacts
  <2>2. FlashOf(OfShop(is, s)) = OfShop(FlashOf(is), s)
    BY DEF FlashOf, OfShop
  <2>3. Units(OfShop(is, s), v) = IF s = Shop[v] THEN Units(is, v) ELSE 0
    BY ShopUnits
  <2>4. Units(OfShop(FlashOf(is), s), v) = IF s = Shop[v] THEN Units(FlashOf(is), v) ELSE 0
    BY <1>2, ShopUnits
  <2> QED BY <2>1, <2>2, <2>3, <2>4 DEF LiveOf, LiveFlashOf, PlacedOf
<1>6. LiveUnits(v)' = LiveUnits(v) + Units(is, v)
  <2>0. PICK n \in Nat : n = Units(is, v)
    BY <1>3
  <2> DEFINE f == [o \in Orders |-> LiveOf(order[o], v)]
             g == [o \in Orders |-> LiveOf(order'[o], v)]
  <2>1. \A o \in Orders : f[o] \in Nat /\ g[o] \in Nat
    BY CountedRows, CountedRowsNext, RowNat
  <2>2. \A o \in Orders : (\A s \in ShopsOf(is) : id[s] # o) => g[o] = f[o]
    BY <1>1
  <2>3. /\ \A s \in ShopsOf(is) : f[id[s]] = 0
        /\ \A s \in ShopsOf(is) \ {Shop[v]} : g[id[s]] = 0
        /\ Shop[v] \in ShopsOf(is) => g[id[Shop[v]]] = n
    BY <1>1, <1>5, <2>0, RowNat DEF CountedRow
  <2>4. LiveUnits(v) = SumFunctionOnSet(f, Orders) /\ LiveUnits(v)' = SumFunctionOnSet(g, Orders)
    BY OrderSumsAre
  <2>5. Shop[v] \notin ShopsOf(is) => n = 0
    BY <1>4, <2>0
  <2> HIDE DEF f, g
  <2>6. SumFunctionOnSet(g, Orders) = SumFunctionOnSet(f, Orders) + n
    <3>1. AddsAt(ShopsOf(is), id, Shop[v], f, g, n)
      BY <1>1, <1>9, <2>1, <2>2, <2>3, <2>5 DEF AddsAt
    <3> QED BY <3>1, ShopSum
  <2> QED BY <2>0, <2>4, <2>6
<1>7. LiveFlash(v)' = LiveFlash(v) + Units(FlashOf(is), v)
  <2>0. PICK n \in Nat : n = Units(FlashOf(is), v)
    BY <1>3
  <2> DEFINE f == [o \in Orders |-> LiveFlashOf(order[o], v)]
             g == [o \in Orders |-> LiveFlashOf(order'[o], v)]
  <2>1. \A o \in Orders : f[o] \in Nat /\ g[o] \in Nat
    BY CountedRows, CountedRowsNext, RowNat
  <2>2. \A o \in Orders : (\A s \in ShopsOf(is) : id[s] # o) => g[o] = f[o]
    BY <1>1
  <2>3. /\ \A s \in ShopsOf(is) : f[id[s]] = 0
        /\ \A s \in ShopsOf(is) \ {Shop[v]} : g[id[s]] = 0
        /\ Shop[v] \in ShopsOf(is) => g[id[Shop[v]]] = n
    BY <1>1, <1>5, <2>0, RowNat DEF CountedRow
  <2>4. LiveFlash(v) = SumFunctionOnSet(f, Orders) /\ LiveFlash(v)' = SumFunctionOnSet(g, Orders)
    BY OrderSumsAre
  <2>5. Shop[v] \notin ShopsOf(is) => n = 0
    BY <1>4, <2>0
  <2> HIDE DEF f, g
  <2>6. SumFunctionOnSet(g, Orders) = SumFunctionOnSet(f, Orders) + n
    <3>1. AddsAt(ShopsOf(is), id, Shop[v], f, g, n)
      BY <1>1, <1>9, <2>1, <2>2, <2>3, <2>5 DEF AddsAt
    <3> QED BY <3>1, ShopSum
  <2> QED BY <2>0, <2>4, <2>6
<1>8. OrderedUnits(v)' = OrderedUnits(v) + Units(is, v)
  <2>0. PICK n \in Nat : n = Units(is, v)
    BY <1>3
  <2> DEFINE f == [o \in Orders |-> PlacedOf(order[o], v)]
             g == [o \in Orders |-> PlacedOf(order'[o], v)]
  <2>1. \A o \in Orders : f[o] \in Nat /\ g[o] \in Nat
    BY CountedRows, CountedRowsNext, RowNat
  <2>2. \A o \in Orders : (\A s \in ShopsOf(is) : id[s] # o) => g[o] = f[o]
    BY <1>1
  <2>3. /\ \A s \in ShopsOf(is) : f[id[s]] = 0
        /\ \A s \in ShopsOf(is) \ {Shop[v]} : g[id[s]] = 0
        /\ Shop[v] \in ShopsOf(is) => g[id[Shop[v]]] = n
    BY <1>1, <1>5, <2>0, RowNat DEF CountedRow
  <2>4. OrderedUnits(v) = SumFunctionOnSet(f, Orders) /\ OrderedUnits(v)' = SumFunctionOnSet(g, Orders)
    BY OrderSumsAre
  <2>5. Shop[v] \notin ShopsOf(is) => n = 0
    BY <1>4, <2>0
  <2> HIDE DEF f, g
  <2>6. SumFunctionOnSet(g, Orders) = SumFunctionOnSet(f, Orders) + n
    <3>1. AddsAt(ShopsOf(is), id, Shop[v], f, g, n)
      BY <1>1, <1>9, <2>1, <2>2, <2>3, <2>5 DEF AddsAt
    <3> QED BY <3>1, ShopSum
  <2> QED BY <2>0, <2>4, <2>6
<1> QED BY <1>6, <1>7, <1>8

-----------------------------------------------------------------------------
(* How each kind of step moves the sums. *)

\* What orders and effects of variant v grow by.
Moves(v, live, flash, deduct, restore, reverse) ==
  /\ LiveUnits(v)' = LiveUnits(v) + live /\ LiveFlash(v)' = LiveFlash(v) + flash
  /\ ToDeduct(v)' = ToDeduct(v) + deduct
  /\ ToRestore(v)' = ToRestore(v) + restore /\ ToReverse(v)' = ToReverse(v) + reverse

LEMMA EffectMoves ==
  ASSUME SInv, SInv', NEW r \in Requests, OnlyAt(r), UNCHANGED order, NEW v
  PROVE  Moves(v, 0, 0, DeductOf(req'[r], v) - DeductOf(req[r], v),
               RestoreOf(req'[r], v) - RestoreOf(req[r], v),
               ReverseOf(req'[r], v) - ReverseOf(req[r], v))
<1>1. LiveUnits(v)' = LiveUnits(v) /\ LiveFlash(v)' = LiveFlash(v)
  BY DEF LiveUnits, LiveFlash
<1>2. LiveUnits(v) \in Nat /\ LiveFlash(v) \in Nat
  BY OrdersNat
<1>3. ToDeduct(v) \in Nat /\ ToRestore(v) \in Nat /\ ToReverse(v) \in Nat
  BY EffectsNat
<1>4. CountedJob(req[r]) /\ CountedJob(req'[r])
  BY CountedJobs, CountedNext
<1>5. /\ DeductOf(req[r], v) \in Nat /\ RestoreOf(req[r], v) \in Nat /\ ReverseOf(req[r], v) \in Nat
      /\ DeductOf(req'[r], v) \in Nat /\ RestoreOf(req'[r], v) \in Nat
      /\ ReverseOf(req'[r], v) \in Nat
  BY <1>4, EffectNat
<1>6. /\ ToDeduct(v)' = ToDeduct(v) + DeductOf(req'[r], v) - DeductOf(req[r], v)
      /\ ToRestore(v)' = ToRestore(v) + RestoreOf(req'[r], v) - RestoreOf(req[r], v)
      /\ ToReverse(v)' = ToReverse(v) + ReverseOf(req'[r], v) - ReverseOf(req[r], v)
  BY EffectSums
<1> QED BY <1>1, <1>2, <1>3, <1>5, <1>6 DEF Moves

LEMMA NoEffect ==
  ASSUME NEW job, job.op \notin Effects, NEW v
  PROVE  DeductOf(job, v) = 0 /\ RestoreOf(job, v) = 0 /\ ReverseOf(job, v) = 0
BY DEF Effects, DeductOf, RestoreOf, ReverseOf

LEMMA QuietMoves ==
  ASSUME SInv, SInv', NEW r \in Requests, OnlyAt(r), UNCHANGED order, NEW v,
         req[r].op \notin Effects, req'[r].op \notin Effects
  PROVE  Moves(v, 0, 0, 0, 0, 0)
<1>1. /\ DeductOf(req[r], v) = 0 /\ RestoreOf(req[r], v) = 0 /\ ReverseOf(req[r], v) = 0
      /\ DeductOf(req'[r], v) = 0 /\ RestoreOf(req'[r], v) = 0 /\ ReverseOf(req'[r], v) = 0
  BY NoEffect
<1>2. Moves(v, 0, 0, DeductOf(req'[r], v) - DeductOf(req[r], v),
            RestoreOf(req'[r], v) - RestoreOf(req[r], v),
            ReverseOf(req'[r], v) - ReverseOf(req[r], v))
  BY EffectMoves
<1> QED BY <1>1, <1>2

LEMMA CommitMoves ==
  ASSUME SInv, SInv', NEW r \in Requests, CommitStep(r), NEW v \in Variants
  PROVE  \E n, m \in Nat :
           /\ Moves(v, n, m, n, 0, 0)
           /\ sold'[v] = sold[v] + m /\ stock' = stock
<1>1. PICK is : is = req[r].items
  OBVIOUS
<1>2. /\ OnlyAt(r) /\ Committed(r, req[r]) /\ req[r].op = "commit" /\ UNCHANGED stock
  BY DEF CommitStep
<1>3. is \in SUBSET OrderItem /\ IsFiniteSet(is)
  BY <1>1, <1>2, JobAt, OrderJobFacts DEF Sound, CheckoutOps
<1>4. PICK id : NewOrders(is, id)
  BY <1>1, <1>2 DEF Committed
<1>5. /\ LiveUnits(v)' = LiveUnits(v) + Units(is, v)
      /\ LiveFlash(v)' = LiveFlash(v) + Units(FlashOf(is), v)
  BY <1>3, <1>4, CommitSums
<1>6. req'[r] = [op |-> "deduct", on |-> {}, left |-> is]
  BY <1>1, <1>2, GotoAt DEF Committed
<1>7. DeductOf(req'[r], v) = Units(is, v) /\ RestoreOf(req'[r], v) = 0 /\ ReverseOf(req'[r], v) = 0
  BY <1>6 DEF DeductOf, RestoreOf, ReverseOf
<1>8. DeductOf(req[r], v) = 0 /\ RestoreOf(req[r], v) = 0 /\ ReverseOf(req[r], v) = 0
  BY <1>2, NoEffect DEF Effects
<1>9. /\ ToDeduct(v)' = ToDeduct(v) + DeductOf(req'[r], v) - DeductOf(req[r], v)
      /\ ToRestore(v)' = ToRestore(v) + RestoreOf(req'[r], v) - RestoreOf(req[r], v)
      /\ ToReverse(v)' = ToReverse(v) + ReverseOf(req'[r], v) - ReverseOf(req[r], v)
  BY <1>2, EffectSums
<1>10. ToDeduct(v) \in Nat /\ ToRestore(v) \in Nat /\ ToReverse(v) \in Nat
  BY EffectsNat
<1>11. Units(is, v) \in Nat /\ Units(FlashOf(is), v) \in Nat
  BY <1>3, ItemsCounted, UnitsNat
<1>12. sold'[v] = sold[v] + Units(FlashOf(is), v)
  BY <1>1, <1>2 DEF Committed
<1>13. Moves(v, Units(is, v), Units(FlashOf(is), v), Units(is, v), 0, 0)
  BY <1>5, <1>7, <1>8, <1>9, <1>10, <1>11 DEF Moves
<1> QED BY <1>2, <1>11, <1>12, <1>13

\* A loop's job after item i, or idle when that was the last.
LEMMA LastOfDeduct ==
  ASSUME NEW job \in AllJobs, job.op = "deduct", Counted(job.left), NEW i \in job.left, NEW next,
         next = IF job.left = {i} THEN Idle ELSE [job EXCEPT !.left = @ \ {i}], NEW v
  PROVE  /\ DeductOf(job, v) = UnitsIn(i, v) + DeductOf(next, v)
         /\ UnitsIn(i, v) \in Nat /\ DeductOf(next, v) \in Nat
         /\ RestoreOf(next, v) = 0 /\ ReverseOf(next, v) = 0
         /\ RestoreOf(job, v) = 0 /\ ReverseOf(job, v) = 0
<1>1. /\ Units(job.left, v) = UnitsIn(i, v) + Units(job.left \ {i}, v)
      /\ Units(job.left \ {i}, v) \in Nat /\ UnitsIn(i, v) \in Nat
  BY UnitsRemove
<1>2. DeductOf(job, v) = Units(job.left, v) /\ RestoreOf(job, v) = 0 /\ ReverseOf(job, v) = 0
  BY DEF DeductOf, RestoreOf, ReverseOf
<1>3. CASE job.left = {i}
  <2>1. next = Idle /\ job.left \ {i} = {}
    BY <1>3
  <2>2. DeductOf(next, v) = 0 /\ RestoreOf(next, v) = 0 /\ ReverseOf(next, v) = 0
    BY <2>1, IdleJob, NoEffect DEF Effects
  <2>3. Units(job.left \ {i}, v) = 0
    BY <2>1, UnitsEmpty
  <2> QED BY <1>1, <1>2, <2>2, <2>3
<1>4. CASE job.left # {i}
  <2>1. next.op = "deduct" /\ next.left = job.left \ {i}
    BY <1>4, LoopRest
  <2>2. DeductOf(next, v) = Units(job.left \ {i}, v) /\ RestoreOf(next, v) = 0 /\ ReverseOf(next, v) = 0
    BY <2>1 DEF DeductOf, RestoreOf, ReverseOf
  <2> QED BY <1>1, <1>2, <2>2
<1> QED BY <1>3, <1>4

LEMMA DeductMoves ==
  ASSUME SInv, SInv', NEW r \in Requests, DeductStock(r), NEW v \in Variants
  PROVE  /\ UNCHANGED <<sold, leaked, overwritten>> /\ short \subseteq short'
         /\ \E n \in Nat :
              /\ Moves(v, 0, 0, 0 - n, 0, 0)
              /\ v \in short' \/ stock'[v] = stock[v] - n
<1>1. PICK job \in AllJobs : job = req[r] /\ job.op = "deduct" /\ Sound(job)
  BY JobAt DEF DeductStock
<1>2. CountedJob(job)
  BY <1>1, CountedJobs
<1>3. job.left \in SUBSET OrderItem /\ Counted(job.left)
  BY <1>1, <1>2, EffectNat
<1>4. PICK i \in job.left :
        /\ IF stock[i.variant] >= i.quantity
           THEN /\ stock' = [stock EXCEPT ![i.variant] = @ - i.quantity]
                /\ UNCHANGED short
           ELSE /\ short' = short \cup {i.variant}
                /\ UNCHANGED stock
        /\ Goto(r, IF job.left = {i} THEN Idle ELSE [job EXCEPT !.left = @ \ {i}])
  BY <1>1 DEF DeductStock
<1>5. PICK next : next = IF job.left = {i} THEN Idle ELSE [job EXCEPT !.left = @ \ {i}]
  OBVIOUS
<1>6. OnlyAt(r) /\ req'[r] = next
  BY <1>4, <1>5, GotoAt
<1>7. /\ DeductOf(job, v) = UnitsIn(i, v) + DeductOf(next, v)
      /\ UnitsIn(i, v) \in Nat /\ DeductOf(next, v) \in Nat
      /\ RestoreOf(next, v) = 0 /\ ReverseOf(next, v) = 0
      /\ RestoreOf(job, v) = 0 /\ ReverseOf(job, v) = 0
  BY <1>1, <1>3, <1>5, LastOfDeduct
<1>8. UNCHANGED <<order, sold, leaked, overwritten>>
  BY DEF DeductStock
<1>9. Moves(v, 0, 0, DeductOf(next, v) - DeductOf(job, v), RestoreOf(next, v) - RestoreOf(job, v),
            ReverseOf(next, v) - ReverseOf(job, v))
  BY <1>1, <1>6, <1>8, EffectMoves
<1>10. DeductOf(next, v) - DeductOf(job, v) = 0 - UnitsIn(i, v)
  BY <1>7
<1>11. Moves(v, 0, 0, 0 - UnitsIn(i, v), 0, 0)
  BY <1>7, <1>9, <1>10
<1>12. stock \in [Variants -> Nat] /\ i.variant \in Variants /\ i.quantity \in Nat
  BY <1>3, SoldType DEF OrderItem
<1>13. short \subseteq short' /\ (v \in short' \/ stock'[v] = stock[v] - UnitsIn(i, v))
  <2>1. CASE stock[i.variant] >= i.quantity
    BY <1>4, <1>12, <2>1 DEF UnitsIn
  <2>2. CASE ~(stock[i.variant] >= i.quantity)
    <3>1. short' = short \cup {i.variant} /\ stock' = stock
      BY <1>4, <2>2
    <3>2. v # i.variant => UnitsIn(i, v) = 0
      BY DEF UnitsIn
    <3> QED BY <1>12, <3>1, <3>2
  <2> QED BY <2>1, <2>2
<1> QED BY <1>7, <1>8, <1>11, <1>13

LEMMA CancelMoves ==
  ASSUME SInv, SInv', NEW r \in Requests, CancelOrder(r), NEW v \in Variants
  PROVE  /\ UNCHANGED <<sold, stock, short, leaked>> /\ overwritten \subseteq overwritten'
         /\ \E n, m \in Nat :
              \/ Moves(v, 0 - n, 0 - m, 0, n, m)
              \/ v \in overwritten'
              \/ Moves(v, 0, 0, 0, 0, 0)
<1>1. PICK job \in AllJobs : job = req[r] /\ job.op = "cancel" /\ Sound(job)
  BY JobAt DEF CancelOrder
<1>2. PICK o \in Orders : o = job.order /\ Placed(o)
  BY <1>1, OrderJobFacts DEF Sound
<1>3. PICK row : row = order[o]
  OBVIOUS
<1>4. PICK is : is = row.items
  OBVIOUS
<1>5. PICK new : new = [order[o] EXCEPT !.status = "cancelled"]
  OBVIOUS
<1>6. /\ is \in SUBSET OrderItem /\ IsFiniteSet(is)
      /\ row.status \in {"live", "cancelled"} /\ new.status = "cancelled" /\ new.items = is
  BY <1>2, <1>3, <1>4, <1>5, OrderFacts
<1> DEFINE next == [op |-> "undo", on |-> {}, reverse |-> FlashOf(is), restore |-> is]
<1>7. /\ order' = [order EXCEPT ![o] = new]
      /\ overwritten' = IF row.status = "cancelled" THEN overwritten \cup VariantsOf(is) ELSE overwritten
      /\ Goto(r, next)
      /\ UNCHANGED <<sold, stock, short, leaked>>
  BY <1>1, <1>2, <1>3, <1>4, <1>5 DEF CancelOrder
<1>8. /\ DeductOf(next, v) = 0 /\ RestoreOf(next, v) = Units(is, v)
      /\ ReverseOf(next, v) = Units(FlashOf(is), v)
  BY DEF DeductOf, RestoreOf, ReverseOf
<1>9. DeductOf(job, v) = 0 /\ RestoreOf(job, v) = 0 /\ ReverseOf(job, v) = 0
  BY <1>1, NoEffect DEF Effects
<1> HIDE DEF next
<1>10. OnlyAt(r) /\ req'[r] = next
  BY <1>7, GotoAt
<1>11. /\ ToDeduct(v)' = ToDeduct(v) + DeductOf(next, v) - DeductOf(job, v)
       /\ ToRestore(v)' = ToRestore(v) + RestoreOf(next, v) - RestoreOf(job, v)
       /\ ToReverse(v)' = ToReverse(v) + ReverseOf(next, v) - ReverseOf(job, v)
  BY <1>1, <1>10, EffectSums
<1>12. order \in [Orders -> {order[p] : p \in Orders}]
  BY DEF SInv, TypeOK
<1>13. order'[o] = new /\ \A p \in Orders \ {o} : order'[p] = order[p]
  BY <1>7, <1>12
<1>14. /\ LiveUnits(v)' = LiveUnits(v) + LiveOf(new, v) - LiveOf(row, v)
       /\ LiveFlash(v)' = LiveFlash(v) + LiveFlashOf(new, v) - LiveFlashOf(row, v)
  BY <1>3, <1>13, OrderChange
<1>15. LiveOf(new, v) = 0 /\ LiveFlashOf(new, v) = 0
  BY <1>6 DEF LiveOf, LiveFlashOf
<1>16. /\ Units(is, v) \in Nat /\ Units(FlashOf(is), v) \in Nat
       /\ Counted(is) /\ Counted(FlashOf(is))
  BY <1>6, ItemsCounted, UnitsNat
<1>17. /\ LiveUnits(v) \in Nat /\ LiveFlash(v) \in Nat
       /\ ToDeduct(v) \in Nat /\ ToRestore(v) \in Nat /\ ToReverse(v) \in Nat
  BY OrdersNat, EffectsNat
<1>18. overwritten \subseteq overwritten'
  BY <1>7
<1>19. CASE row.status = "live"
  <2>1. LiveOf(row, v) = Units(is, v) /\ LiveFlashOf(row, v) = Units(FlashOf(is), v)
    BY <1>4, <1>19 DEF LiveOf, LiveFlashOf
  <2>2. Moves(v, 0 - Units(is, v), 0 - Units(FlashOf(is), v), 0, Units(is, v), Units(FlashOf(is), v))
    BY <1>8, <1>9, <1>11, <1>14, <1>15, <1>16, <1>17, <2>1 DEF Moves
  <2> QED BY <1>7, <1>16, <1>18, <2>2
<1>20. CASE row.status = "cancelled"
  <2>1. CASE v \in VariantsOf(is)
    <3>1. v \in overwritten'
      BY <1>7, <1>20, <2>1
    <3> QED BY <1>7, <1>16, <1>18, <3>1
  <2>2. CASE v \notin VariantsOf(is)
    <3>1. v \notin VariantsOf(FlashOf(is))
      BY <2>2 DEF VariantsOf, FlashOf
    <3>2. Units(is, v) = 0 /\ Units(FlashOf(is), v) = 0
      BY <1>16, <2>2, <3>1, UnitsNone
    <3>3. LiveOf(row, v) = 0 /\ LiveFlashOf(row, v) = 0
      BY <1>20 DEF LiveOf, LiveFlashOf
    <3>4. Moves(v, 0, 0, 0, 0, 0)
      BY <1>8, <1>9, <1>11, <1>14, <1>15, <1>17, <3>2, <3>3 DEF Moves
    <3> QED BY <1>7, <1>16, <1>18, <3>4
  <2> QED BY <2>1, <2>2
<1> QED BY <1>6, <1>19, <1>20

LEMMA ReverseMoves ==
  ASSUME SInv, SInv', NEW r \in Requests, ReverseFlash(r), NEW v \in Variants
  PROVE  /\ UNCHANGED <<stock, short, leaked, overwritten>>
         /\ \E n \in Nat :
              /\ Moves(v, 0, 0, 0, 0, 0 - n)
              /\ n <= ToReverse(v)
              /\ sold'[v] = IF sold[v] < n THEN 0 ELSE sold[v] - n
<1>1. PICK job \in AllJobs : job = req[r] /\ job.op = "undo" /\ Sound(job)
  BY JobAt DEF ReverseFlash
<1>2. CountedJob(job)
  BY <1>1, CountedJobs
<1>3. job.reverse \in SUBSET OrderItem /\ Counted(job.reverse)
  BY <1>1, <1>2, EffectNat
<1>4. PICK i \in job.reverse :
        /\ sold' = [sold EXCEPT ![i.variant] = IF @ < i.quantity THEN 0 ELSE @ - i.quantity]
        /\ Goto(r, [job EXCEPT !.reverse = @ \ {i}])
  BY <1>1 DEF ReverseFlash
<1>5. PICK next : next = [job EXCEPT !.reverse = @ \ {i}]
  OBVIOUS
<1>6. next.op = "undo" /\ next.reverse = job.reverse \ {i} /\ next.restore = job.restore
  BY <1>1, <1>5, LoopRest
<1>7. OnlyAt(r) /\ req'[r] = next
  BY <1>4, <1>5, GotoAt
<1>8. /\ Units(job.reverse, v) = UnitsIn(i, v) + Units(job.reverse \ {i}, v)
      /\ Units(job.reverse \ {i}, v) \in Nat /\ UnitsIn(i, v) \in Nat
  BY <1>3, UnitsRemove
<1>9. /\ DeductOf(next, v) = 0 /\ DeductOf(job, v) = 0
      /\ RestoreOf(next, v) = RestoreOf(job, v) /\ RestoreOf(job, v) \in Nat
      /\ ReverseOf(next, v) - ReverseOf(job, v) = 0 - UnitsIn(i, v)
      /\ UnitsIn(i, v) <= ReverseOf(job, v)
  <2>1. /\ DeductOf(next, v) = 0 /\ DeductOf(job, v) = 0
        /\ RestoreOf(next, v) = RestoreOf(job, v)
        /\ ReverseOf(next, v) = Units(job.reverse \ {i}, v)
        /\ ReverseOf(job, v) = Units(job.reverse, v)
    BY <1>1, <1>6 DEF DeductOf, RestoreOf, ReverseOf
  <2>2. RestoreOf(job, v) \in Nat
    BY <1>2, EffectNat
  <2> QED BY <1>8, <2>1, <2>2
<1>10. UNCHANGED <<order, stock, short, leaked, overwritten>>
  BY DEF ReverseFlash
<1>11. Moves(v, 0, 0, DeductOf(next, v) - DeductOf(job, v), RestoreOf(next, v) - RestoreOf(job, v),
             ReverseOf(next, v) - ReverseOf(job, v))
  BY <1>1, <1>7, <1>10, EffectMoves
<1>12. DeductOf(next, v) - DeductOf(job, v) = 0 /\ RestoreOf(next, v) - RestoreOf(job, v) = 0
  BY <1>9
<1>13. Moves(v, 0, 0, 0, 0, 0 - UnitsIn(i, v))
  BY <1>9, <1>11, <1>12
<1>14. UnitsIn(i, v) <= ToReverse(v)
  <2>1. ReverseOf(job, v) <= ToReverse(v) /\ ToReverse(v) \in Nat
    BY <1>1, EffectsNat
  <2>2. ReverseOf(job, v) \in Nat
    BY <1>2, EffectNat
  <2> QED BY <1>8, <1>9, <2>1, <2>2
<1>15. sold'[v] = IF sold[v] < UnitsIn(i, v) THEN 0 ELSE sold[v] - UnitsIn(i, v)
  <2>1. i.variant \in Variants /\ i.quantity \in Nat /\ sold \in [Variants -> Nat]
    BY <1>3, SoldType DEF OrderItem
  <2> QED BY <1>4, <2>1 DEF UnitsIn
<1> QED BY <1>8, <1>10, <1>13, <1>14, <1>15

LEMMA RestoreMoves ==
  ASSUME SInv, SInv', NEW r \in Requests, RestoreStock(r), NEW v \in Variants
  PROVE  /\ UNCHANGED <<sold, short, leaked, overwritten>>
         /\ \E n \in Nat :
              /\ Moves(v, 0, 0, 0, 0 - n, 0)
              /\ stock'[v] = stock[v] + n
<1>1. PICK job \in AllJobs : job = req[r] /\ job.op = "undo" /\ job.reverse = {} /\ Sound(job)
  BY JobAt DEF RestoreStock
<1>2. CountedJob(job)
  BY <1>1, CountedJobs
<1>3. job.restore \in SUBSET OrderItem /\ Counted(job.restore)
  BY <1>1, <1>2, EffectNat
<1>4. PICK i \in job.restore :
        /\ stock' = [stock EXCEPT ![i.variant] = @ + i.quantity]
        /\ Goto(r, IF job.restore = {i} THEN Idle ELSE [job EXCEPT !.restore = @ \ {i}])
  BY <1>1 DEF RestoreStock
<1>5. PICK next : next = IF job.restore = {i} THEN Idle ELSE [job EXCEPT !.restore = @ \ {i}]
  OBVIOUS
<1>6. OnlyAt(r) /\ req'[r] = next
  BY <1>4, <1>5, GotoAt
<1>7. /\ Units(job.restore, v) = UnitsIn(i, v) + Units(job.restore \ {i}, v)
      /\ Units(job.restore \ {i}, v) \in Nat /\ UnitsIn(i, v) \in Nat
  BY <1>3, UnitsRemove
<1>8. DeductOf(job, v) = 0 /\ RestoreOf(job, v) = Units(job.restore, v) /\ ReverseOf(job, v) = 0
  BY <1>1, UnitsEmpty DEF DeductOf, RestoreOf, ReverseOf
<1>9. /\ DeductOf(next, v) = 0 /\ ReverseOf(next, v) = 0
      /\ RestoreOf(next, v) = Units(job.restore \ {i}, v)
  <2>1. CASE job.restore = {i}
    <3>1. next = Idle /\ job.restore \ {i} = {}
      BY <1>5, <2>1
    <3> QED BY <3>1, IdleJob, NoEffect, UnitsEmpty DEF Effects
  <2>2. CASE job.restore # {i}
    <3>1. next.op = "undo" /\ next.reverse = {} /\ next.restore = job.restore \ {i}
      BY <1>1, <1>5, <2>2, LoopRest
    <3> QED BY <3>1, UnitsEmpty DEF DeductOf, RestoreOf, ReverseOf
  <2> QED BY <2>1, <2>2
<1>10. UNCHANGED <<order, sold, short, leaked, overwritten>>
  BY DEF RestoreStock, orderVars
<1>11. Moves(v, 0, 0, DeductOf(next, v) - DeductOf(job, v), RestoreOf(next, v) - RestoreOf(job, v),
             ReverseOf(next, v) - ReverseOf(job, v))
  BY <1>1, <1>6, <1>10, EffectMoves
<1>12. RestoreOf(next, v) - RestoreOf(job, v) = 0 - UnitsIn(i, v)
  BY <1>7, <1>8, <1>9
<1>13. Moves(v, 0, 0, 0, 0 - UnitsIn(i, v), 0)
  BY <1>8, <1>9, <1>11, <1>12
<1>14. stock'[v] = stock[v] + UnitsIn(i, v)
  <2>1. i.variant \in Variants /\ i.quantity \in Nat /\ stock \in [Variants -> Nat]
    BY <1>3, SoldType DEF OrderItem
  <2> QED BY <1>4, <2>1 DEF UnitsIn
<1> QED BY <1>7, <1>10, <1>13, <1>14

LEMMA LoseMoves ==
  ASSUME SInv, SInv', NEW r \in Requests, LoseStep(r), NEW v \in Variants
  PROVE  /\ UNCHANGED <<sold, stock, short, overwritten>> /\ leaked \subseteq leaked'
         /\ \E n, m, k \in Nat :
              /\ Moves(v, 0, 0, 0 - n, 0 - m, 0 - k)
              /\ v \in leaked' \/ (n = 0 /\ m = 0 /\ k = 0)
<1>1. PICK job \in AllJobs : job = req[r] /\ job.op \in Effects /\ CountedJob(job)
  BY JobAt, CountedJobs DEF LoseStep
<1>2. /\ Goto(r, Idle)
      /\ leaked' = leaked \cup
           CASE job.op = "deduct" -> VariantsOf(job.left)
             [] job.op = "undo"   -> VariantsOf(job.restore)
             [] OTHER -> {}
      /\ UNCHANGED <<order, sold, stock, short, overwritten>>
  BY <1>1 DEF LoseStep, Fail
<1>3. OnlyAt(r) /\ req'[r] = Idle
  BY <1>2, GotoAt
<1>4. /\ DeductOf(job, v) \in Nat /\ RestoreOf(job, v) \in Nat /\ ReverseOf(job, v) \in Nat
      /\ DeductOf(Idle, v) = 0 /\ RestoreOf(Idle, v) = 0 /\ ReverseOf(Idle, v) = 0
  BY <1>1, EffectNat, IdleJob, NoEffect DEF Effects
<1>5. Moves(v, 0, 0, DeductOf(Idle, v) - DeductOf(job, v), RestoreOf(Idle, v) - RestoreOf(job, v),
            ReverseOf(Idle, v) - ReverseOf(job, v))
  BY <1>1, <1>2, <1>3, EffectMoves
<1>6. Moves(v, 0, 0, 0 - DeductOf(job, v), 0 - RestoreOf(job, v), 0 - ReverseOf(job, v))
  BY <1>4, <1>5
<1>7. ASSUME v \notin leaked'
      PROVE  DeductOf(job, v) = 0 /\ RestoreOf(job, v) = 0 /\ ReverseOf(job, v) = 0
  <2>1. CASE job.op = "deduct"
    <3>1. v \notin VariantsOf(job.left) /\ Counted(job.left)
      BY <1>1, <1>2, <1>7, <2>1, EffectNat
    <3> QED BY <2>1, <3>1, UnitsNone DEF DeductOf, RestoreOf, ReverseOf
  <2>2. CASE job.op = "undo"
    <3>1. v \notin VariantsOf(job.restore) /\ Counted(job.restore) /\ Counted(job.reverse)
      BY <1>1, <1>2, <1>7, <2>2, EffectNat
    <3>2. v \notin VariantsOf(job.reverse)
      BY <1>1, <2>2, <3>1 DEF VariantsOf, CountedJob
    <3> QED BY <2>2, <3>1, <3>2, UnitsNone DEF DeductOf, RestoreOf, ReverseOf
  <2> QED BY <1>1, <2>1, <2>2 DEF Effects
<1>8. leaked \subseteq leaked'
  BY <1>2
<1> QED BY <1>2, <1>4, <1>6, <1>7, <1>8

-----------------------------------------------------------------------------
(* Orders, quotas and stock agree. *)

\* Every unit given back was taken from the quota, also when a failure lost the
\* giving back of others.
Covers(v) == sold[v] >= LiveFlash(v) + ToReverse(v)
SoldAgrees(v) == sold[v] = LiveFlash(v) + ToReverse(v)
StockAgrees(v) == stock[v] + LiveUnits(v) + ToRestore(v) = Starting[v] + ToDeduct(v)

SalesAt(v) ==
  /\ v \notin overwritten => Covers(v)
  /\ v \notin overwritten \cup leaked => SoldAgrees(v)
  /\ v \notin short \cup leaked \cup overwritten => StockAgrees(v)

SalesInv == \A v \in Variants : SalesAt(v)

LEMMA SalesNat ==
  ASSUME SInv, NEW v \in Variants
  PROVE  /\ LiveUnits(v) \in Nat /\ LiveFlash(v) \in Nat
         /\ ToDeduct(v) \in Nat /\ ToRestore(v) \in Nat /\ ToReverse(v) \in Nat
         /\ sold[v] \in Nat /\ stock[v] \in Nat /\ Starting[v] \in Nat
BY OrdersNat, EffectsNat, SoldType, CartAssumption

LEMMA Balance ==
  ASSUME NEW x \in Nat, NEW l \in Nat, NEW r \in Nat, NEW s \in Nat, NEW t \in Nat, NEW y \in Nat,
         NEW n \in Int, NEW d \in Int, NEW b \in Int,
         x + l + r = s + t, y + n + b = x + d
  PROVE  y + (l + n) + (r + b) = s + (t + d)
OBVIOUS

\* What a step that moves what the sums count by n, m, d, b and k does to sold_quantity
\* and to the stock.
Fits(v, n, m, d, b, k) ==
  /\ Moves(v, n, m, d, b, k)
  /\ short \subseteq short' /\ leaked \subseteq leaked' /\ overwritten \subseteq overwritten'
  /\ v \notin overwritten' => sold'[v] >= sold[v] + m + k
  /\ v \notin overwritten' \cup leaked' => sold'[v] = sold[v] + m + k
  /\ v \notin short' \cup leaked' \cup overwritten' => stock'[v] + n + b = stock[v] + d

\* The arithmetic of such a step.
LEMMA SalesMove ==
  ASSUME SInv, NEW v \in Variants, SalesAt(v),
         NEW n \in Int, NEW m \in Int, NEW d \in Int, NEW b \in Int, NEW k \in Int,
         Fits(v, n, m, d, b, k), sold'[v] \in Nat, stock'[v] \in Nat
  PROVE  SalesAt(v)'
<1>1. /\ LiveUnits(v) \in Nat /\ LiveFlash(v) \in Nat
      /\ ToDeduct(v) \in Nat /\ ToRestore(v) \in Nat /\ ToReverse(v) \in Nat
      /\ sold[v] \in Nat /\ stock[v] \in Nat /\ Starting[v] \in Nat
  BY SalesNat
<1>2. /\ LiveUnits(v)' = LiveUnits(v) + n /\ LiveFlash(v)' = LiveFlash(v) + m
      /\ ToDeduct(v)' = ToDeduct(v) + d
      /\ ToRestore(v)' = ToRestore(v) + b /\ ToReverse(v)' = ToReverse(v) + k
  BY DEF Fits, Moves
<1>3. ASSUME v \notin overwritten' PROVE Covers(v)'
  <2>1. sold[v] >= LiveFlash(v) + ToReverse(v) /\ sold'[v] >= sold[v] + m + k
    BY <1>3 DEF SalesAt, Covers, Fits
  <2>2. sold'[v] >= LiveFlash(v)' + ToReverse(v)'
    BY <1>1, <1>2, <2>1
  <2> QED BY <2>2 DEF Covers
<1>4. ASSUME v \notin overwritten' \cup leaked' PROVE SoldAgrees(v)'
  <2>1. sold[v] = LiveFlash(v) + ToReverse(v) /\ sold'[v] = sold[v] + m + k
    BY <1>4 DEF SalesAt, SoldAgrees, Fits
  <2>2. sold'[v] = LiveFlash(v)' + ToReverse(v)'
    BY <1>1, <1>2, <2>1
  <2> QED BY <2>2 DEF SoldAgrees
<1>5. ASSUME v \notin short' \cup leaked' \cup overwritten' PROVE StockAgrees(v)'
  <2>1. v \notin short \cup leaked \cup overwritten
    BY <1>5 DEF Fits
  <2>2. stock[v] + LiveUnits(v) + ToRestore(v) = Starting[v] + ToDeduct(v)
    BY <2>1 DEF SalesAt, StockAgrees
  <2>3. stock'[v] + n + b = stock[v] + d
    BY <1>5 DEF Fits
  <2>4. stock'[v] + (LiveUnits(v) + n) + (ToRestore(v) + b) = Starting[v] + (ToDeduct(v) + d)
    BY <1>1, <2>2, <2>3, Balance
  <2>5. stock'[v] + LiveUnits(v)' + ToRestore(v)' = Starting[v] + ToDeduct(v)'
    BY <1>2, <2>4
  <2> QED BY <2>5 DEF StockAgrees
<1> QED BY <1>3, <1>4, <1>5 DEF SalesAt

LEMMA NextSoldType ==
  ASSUME SInv'
  PROVE  sold' \in [Variants -> Nat] /\ stock' \in [Variants -> Nat]
BY DEF SInv, TypeOK, CartTypeOK

LEMMA SalesStep ==
  ASSUME SInv, SInv', SalesInv, NEW r \in Requests, StepKind(r), NEW v \in Variants
  PROVE  SalesAt(v)'
<1>0. /\ sold'[v] \in Nat /\ stock'[v] \in Nat /\ sold[v] \in Nat /\ stock[v] \in Nat
      /\ SalesAt(v)
  BY NextSoldType, SoldType DEF SalesInv
<1>zero. 0 \in Int
  OBVIOUS
<1>1. ASSUME OnlyAt(r), UNCHANGED sales, req[r].op \notin Effects, req'[r].op \notin Effects
      PROVE  SalesAt(v)'
  <2>1. UNCHANGED <<order, sold, stock, short, leaked, overwritten>>
    BY <1>1 DEF sales
  <2>2. Moves(v, 0, 0, 0, 0, 0)
    BY <1>1, <2>1, QuietMoves
  <2>3. Fits(v, 0, 0, 0, 0, 0)
    BY <1>0, <2>1, <2>2 DEF Fits
  <2> QED BY <1>0, <1>zero, <2>3, SalesMove, Zenon
<1>2. CASE QuietStep(r)
  BY <1>1, <1>2 DEF QuietStep
<1>3. ASSUME NEW i, TakeStep(r, i) PROVE SalesAt(v)'
  BY <1>1, <1>3 DEF TakeStep, Effects
<1>4. CASE CommitStep(r)
  <2>1. PICK n, m \in Nat :
          /\ Moves(v, n, m, n, 0, 0)
          /\ sold'[v] = sold[v] + m /\ stock' = stock
    BY <1>4, CommitMoves
  <2>2. /\ short \subseteq short' /\ leaked \subseteq leaked' /\ overwritten \subseteq overwritten'
    BY <1>4 DEF CommitStep
  <2>3. Fits(v, n, m, n, 0, 0) /\ n \in Int /\ m \in Int
    BY <1>0, <2>1, <2>2 DEF Fits
  <2> QED BY <1>0, <1>zero, <2>3, SalesMove, Zenon
<1>5. CASE DeductStock(r)
  <2>1. /\ UNCHANGED <<sold, leaked, overwritten>> /\ short \subseteq short'
        /\ \E n \in Nat : /\ Moves(v, 0, 0, 0 - n, 0, 0)
                          /\ v \in short' \/ stock'[v] = stock[v] - n
    BY <1>5, DeductMoves
  <2>2. PICK n \in Nat : /\ Moves(v, 0, 0, 0 - n, 0, 0)
                         /\ v \in short' \/ stock'[v] = stock[v] - n
    BY <2>1
  <2>3. PICK d \in Int : d = 0 - n
    BY <2>2
  <2>4. Fits(v, 0, 0, d, 0, 0)
    BY <1>0, <2>1, <2>2, <2>3 DEF Fits
  <2> QED BY <1>0, <1>zero, <2>3, <2>4, SalesMove, Zenon
<1>6. CASE CancelOrder(r)
  <2>1. /\ UNCHANGED <<sold, stock, short, leaked>> /\ overwritten \subseteq overwritten'
        /\ \E n, m \in Nat :
             \/ Moves(v, 0 - n, 0 - m, 0, n, m)
             \/ v \in overwritten'
             \/ Moves(v, 0, 0, 0, 0, 0)
    BY <1>6, CancelMoves
  <2>2. PICK n, m \in Nat :
          Moves(v, 0 - n, 0 - m, 0, n, m) \/ v \in overwritten' \/ Moves(v, 0, 0, 0, 0, 0)
    BY <2>1
  <2>3. CASE v \in overwritten'
    BY <2>3 DEF SalesAt
  <2>4. CASE Moves(v, 0, 0, 0, 0, 0)
    <3>1. Fits(v, 0, 0, 0, 0, 0)
      BY <1>0, <2>1, <2>4 DEF Fits
    <3> QED BY <1>0, <1>zero, <3>1, SalesMove, Zenon
  <2>5. CASE Moves(v, 0 - n, 0 - m, 0, n, m)
    <3>1. PICK nn, mm \in Int : nn = 0 - n /\ mm = 0 - m
      BY <2>2
    <3>2. Fits(v, nn, mm, 0, n, m) /\ n \in Int /\ m \in Int
      BY <1>0, <2>1, <2>5, <3>1 DEF Fits
    <3> QED BY <1>0, <1>zero, <3>2, SalesMove, Zenon
  <2> QED BY <2>2, <2>3, <2>4, <2>5
<1>7. CASE ReverseFlash(r)
  <2>1. /\ UNCHANGED <<stock, short, leaked, overwritten>>
        /\ \E n \in Nat :
             /\ Moves(v, 0, 0, 0, 0, 0 - n)
             /\ n <= ToReverse(v)
             /\ sold'[v] = IF sold[v] < n THEN 0 ELSE sold[v] - n
    BY <1>7, ReverseMoves
  <2>2. PICK n \in Nat :
          /\ Moves(v, 0, 0, 0, 0, 0 - n)
          /\ n <= ToReverse(v)
          /\ sold'[v] = IF sold[v] < n THEN 0 ELSE sold[v] - n
    BY <2>1
  <2>3. PICK k \in Int : k = 0 - n
    BY <2>2
  <2>4. v \notin overwritten => sold[v] >= n
    <3>1. LiveFlash(v) \in Nat /\ ToReverse(v) \in Nat
      BY SalesNat
    <3>2. v \notin overwritten => sold[v] >= LiveFlash(v) + ToReverse(v)
      BY <1>0 DEF SalesAt, Covers
    <3> QED BY <1>0, <2>2, <3>1, <3>2
  <2>5. Fits(v, 0, 0, 0, 0, k)
    BY <1>0, <2>1, <2>2, <2>3, <2>4 DEF Fits
  <2> QED BY <1>0, <1>zero, <2>3, <2>5, SalesMove, Zenon
<1>8. CASE RestoreStock(r)
  <2>1. /\ UNCHANGED <<sold, short, leaked, overwritten>>
        /\ \E n \in Nat : Moves(v, 0, 0, 0, 0 - n, 0) /\ stock'[v] = stock[v] + n
    BY <1>8, RestoreMoves
  <2>2. PICK n \in Nat : Moves(v, 0, 0, 0, 0 - n, 0) /\ stock'[v] = stock[v] + n
    BY <2>1
  <2>3. PICK b \in Int : b = 0 - n
    BY <2>2
  <2>4. Fits(v, 0, 0, 0, b, 0)
    BY <1>0, <2>1, <2>2, <2>3 DEF Fits
  <2> QED BY <1>0, <1>zero, <2>3, <2>4, SalesMove, Zenon
<1>9. CASE LoseStep(r)
  <2>1. /\ UNCHANGED <<sold, stock, short, overwritten>> /\ leaked \subseteq leaked'
        /\ \E n, m, k \in Nat :
             /\ Moves(v, 0, 0, 0 - n, 0 - m, 0 - k)
             /\ v \in leaked' \/ (n = 0 /\ m = 0 /\ k = 0)
    BY <1>9, LoseMoves
  <2>2. PICK n, m, k \in Nat :
          /\ Moves(v, 0, 0, 0 - n, 0 - m, 0 - k)
          /\ v \in leaked' \/ (n = 0 /\ m = 0 /\ k = 0)
    BY <2>1
  <2>3. PICK nn, mm, kk \in Int : nn = 0 - n /\ mm = 0 - m /\ kk = 0 - k
    BY <2>2
  <2>4. Moves(v, 0, 0, nn, mm, kk)
    BY <2>2, <2>3
  <2>5. /\ kk <= 0
        /\ v \notin leaked' => nn = 0 /\ mm = 0 /\ kk = 0
    BY <2>2, <2>3
  <2>6. /\ short \subseteq short' /\ overwritten \subseteq overwritten' /\ leaked \subseteq leaked'
        /\ sold'[v] = sold[v] /\ stock'[v] = stock[v]
    BY <2>1
  <2>7. sold'[v] >= sold[v] + 0 + kk
    BY <1>0, <2>3, <2>5, <2>6
  <2>8. ASSUME v \notin leaked'
        PROVE  sold'[v] = sold[v] + 0 + kk /\ stock'[v] + 0 + mm = stock[v] + nn
    BY <1>0, <2>5, <2>6, <2>8
  <2>9. Fits(v, 0, 0, nn, mm, kk)
    BY <2>4, <2>6, <2>7, <2>8 DEF Fits
  <2> QED BY <1>0, <1>zero, <2>3, <2>9, SalesMove, Zenon
<1> QED BY <1>2, <1>3, <1>4, <1>5, <1>6, <1>7, <1>8, <1>9 DEF StepKind

LEMMA ReopenMoves ==
  ASSUME SInv, SInv', NEW o \in Orders, OverwriteCancellation(o), NEW v \in Variants
  PROVE  /\ UNCHANGED <<sold, stock, short, leaked>> /\ overwritten \subseteq overwritten'
         /\ v \in overwritten' \/ Moves(v, 0, 0, 0, 0, 0)
<1>1. /\ overwritten' = overwritten \cup VariantsOf(order[o].items)
      /\ UNCHANGED <<req, sold, stock, short, leaked>>
  BY DEF OverwriteCancellation, cartVars
<1>2. PICK row : row = order[o]
  OBVIOUS
<1>3. PICK new : new = order'[o]
  OBVIOUS
<1>4. /\ Placed(o) /\ row.status = "cancelled" /\ new.status = "live" /\ new.items = row.items
      /\ \A p \in Orders \ {o} : order'[p] = order[p]
  BY <1>2, <1>3, ReopenFacts
<1>5. row.items \in SUBSET OrderItem /\ IsFiniteSet(row.items)
  BY <1>2, <1>4, OrderFacts
<1>6. ASSUME v \notin VariantsOf(row.items)
      PROVE  Moves(v, 0, 0, 0, 0, 0)
  <2>1. Counted(row.items) /\ Counted(FlashOf(row.items))
    BY <1>5, ItemsCounted
  <2>2. v \notin VariantsOf(FlashOf(row.items))
    BY <1>6 DEF VariantsOf, FlashOf
  <2>3. Units(row.items, v) = 0 /\ Units(FlashOf(row.items), v) = 0
    BY <1>6, <2>1, <2>2, UnitsNone
  <2>4. /\ LiveOf(row, v) = 0 /\ LiveFlashOf(row, v) = 0
        /\ LiveOf(new, v) = 0 /\ LiveFlashOf(new, v) = 0
    BY <1>4, <2>3 DEF LiveOf, LiveFlashOf
  <2>5. /\ LiveUnits(v)' = LiveUnits(v) + LiveOf(new, v) - LiveOf(row, v)
        /\ LiveFlash(v)' = LiveFlash(v) + LiveFlashOf(new, v) - LiveFlashOf(row, v)
    BY <1>2, <1>3, <1>4, OrderChange
  <2>6. /\ LiveUnits(v) \in Nat /\ LiveFlash(v) \in Nat
        /\ ToDeduct(v) \in Nat /\ ToRestore(v) \in Nat /\ ToReverse(v) \in Nat
    BY OrdersNat, EffectsNat
  <2>7. /\ ToDeduct(v)' = ToDeduct(v) /\ ToRestore(v)' = ToRestore(v)
        /\ ToReverse(v)' = ToReverse(v)
    BY <1>1 DEF ToDeduct, ToRestore, ToReverse
  <2> QED BY <2>4, <2>5, <2>6, <2>7 DEF Moves
<1> QED BY <1>1, <1>2, <1>6

LEMMA ReopenSales ==
  ASSUME SInv, SInv', SalesInv, NEW o \in Orders, OverwriteCancellation(o), NEW v \in Variants
  PROVE  SalesAt(v)'
<1>1. /\ sold'[v] \in Nat /\ stock'[v] \in Nat /\ sold[v] \in Nat /\ stock[v] \in Nat
      /\ SalesAt(v) /\ 0 \in Int
  BY NextSoldType, SoldType DEF SalesInv
<1>2. /\ UNCHANGED <<sold, stock, short, leaked>> /\ overwritten \subseteq overwritten'
      /\ v \in overwritten' \/ Moves(v, 0, 0, 0, 0, 0)
  BY ReopenMoves
<1>3. CASE v \in overwritten'
  BY <1>3 DEF SalesAt
<1>4. CASE Moves(v, 0, 0, 0, 0, 0)
  <2>1. Fits(v, 0, 0, 0, 0, 0)
    BY <1>1, <1>2, <1>4 DEF Fits
  <2> QED BY <1>1, <2>1, SalesMove, Zenon
<1> QED BY <1>2, <1>3, <1>4

LEMMA SalesNext ==
  ASSUME SInv, SInv', SalesInv, [Next]_vars
  PROVE  SalesInv'
<1>1. ASSUME UNCHANGED <<sales, req>>
      PROVE  SalesInv'
  BY <1>1 DEF SalesInv, SalesAt, Covers, SoldAgrees, StockAgrees, LiveUnits, LiveFlash, ToDeduct,
              ToRestore, ToReverse, sales
<1>2. ASSUME NEW r \in Requests, StepKind(r)
      PROVE  SalesInv'
  BY <1>2, SalesStep DEF SalesInv
<1>3. ASSUME NEW o \in Orders, OverwriteCancellation(o)
      PROVE  SalesInv'
  BY <1>3, ReopenSales DEF SalesInv
<1> QED BY <1>1, <1>2, <1>3, StepKinds

LEMMA SalesInit == Init => SalesInv
<1> SUFFICES ASSUME Init, NEW v \in Variants PROVE SalesAt(v)
  BY DEF SalesInv
<1>1. /\ req = [r \in Requests |-> Idle] /\ sold = [w \in Variants |-> 0]
      /\ order = [o \in Orders |-> NoOrder] /\ stock = Starting
  BY DEF Init, CartInit
<1>2. SInv
  BY InitInv
<1>3. IsFiniteSet(Requests) /\ IsFiniteSet(Orders)
  BY CheckoutAssumption
<1> DEFINE f == [o \in Orders |-> 0]
           g == [r \in Requests |-> 0]
<1>4. SumFunctionOnSet(f, Orders) = 0
  <2>1. \A o \in Orders \ {} : f[o] = 0
    OBVIOUS
  <2> HIDE DEF f
  <2>2. SumFunctionOnSet(f, Orders) = SumFunctionOnSet(f, {})
    BY <1>3, <2>1, SumZeros
  <2> QED BY <2>2, SumEmpty
<1>5. SumFunctionOnSet(g, Requests) = 0
  <2>1. \A r \in Requests \ {} : g[r] = 0
    OBVIOUS
  <2> HIDE DEF g
  <2>2. SumFunctionOnSet(g, Requests) = SumFunctionOnSet(g, {})
    BY <1>3, <2>1, SumZeros
  <2> QED BY <2>2, SumEmpty
<1>6. /\ [o \in Orders |-> LiveOf(order[o], v)] = f
      /\ [o \in Orders |-> LiveFlashOf(order[o], v)] = f
  BY <1>1 DEF LiveOf, LiveFlashOf, NoOrder
<1>7. /\ [r \in Requests |-> DeductOf(req[r], v)] = g
      /\ [r \in Requests |-> RestoreOf(req[r], v)] = g
      /\ [r \in Requests |-> ReverseOf(req[r], v)] = g
  BY <1>1 DEF DeductOf, RestoreOf, ReverseOf, Idle
<1>8. LiveUnits(v) = 0 /\ LiveFlash(v) = 0
  BY <1>4, <1>6, OrderSumsAre
<1>9. /\ ToDeduct(v) = SumFunctionOnSet([r \in Requests |-> DeductOf(req[r], v)], Requests)
      /\ ToRestore(v) = SumFunctionOnSet([r \in Requests |-> RestoreOf(req[r], v)], Requests)
      /\ ToReverse(v) = SumFunctionOnSet([r \in Requests |-> ReverseOf(req[r], v)], Requests)
  BY DEF ToDeduct, ToRestore, ToReverse, DeductOf, RestoreOf, ReverseOf
<1> HIDE DEF g
<1>10. ToDeduct(v) = 0 /\ ToRestore(v) = 0 /\ ToReverse(v) = 0
  BY <1>5, <1>7, <1>9
<1>11. Starting[v] \in Nat /\ sold[v] = 0 /\ stock[v] = Starting[v]
  BY <1>1, CartAssumption
<1> QED BY <1>8, <1>10, <1>11 DEF SalesAt, Covers, SoldAgrees, StockAgrees

-----------------------------------------------------------------------------
(* Theorems. *)

IInv == SInv /\ LInv /\ SalesInv

LEMMA Invariance == Spec => []IInv
<1>1. Init => IInv
  BY InitInv, LocksInit, SalesInit DEF IInv
<1>2. IInv /\ [Next]_vars => IInv'
  BY NextInv, LocksNext, SalesNext DEF IInv
<1> QED BY <1>1, <1>2, PTL DEF Spec

\* sold_quantity counts the flash units of live orders and of those still to be given
\* back, whatever rolled back, however many variants, orders and requests there are;
\* not for variants of an order whose cancellation another status write met (a second
\* cancellation, or a stale confirmation that makes it live again) or lost an effect.
THEOREM SoldIsAlwaysLive == Spec => []SoldIsLive
<1>1. IInv => SoldIsLive
  BY DEF IInv, SalesInv, SalesAt, SoldAgrees, SoldIsLive
<1> QED BY <1>1, Invariance, PTL

\* Stock and orders move together: the guarded deduction, the restore and the effects
\* still on their way add up, for every variant that lost none of them, missed no
\* deduction and is in no order whose cancellation another status write met.
THEOREM StockIsAlwaysExact == Spec => []StockIsExact
<1>1. IInv => StockIsExact
  BY DEF IInv, SalesInv, SalesAt, StockAgrees, StockIsExact
<1> QED BY <1>1, Invariance, PTL

\* No more units are live at the flash price than the quota: the guarded update under
\* the row's lock counts what its own transaction took before.  Units of an order whose
\* cancellation another status write met are not covered: they may be sold twice.
THEOREM QuotaAlwaysHolds == Spec => []QuotaHolds
<1>1. IInv => QuotaHolds
  <2> SUFFICES ASSUME IInv, NEW v \in Variants \ overwritten PROVE LiveFlash(v) <= Quota[v]
    BY DEF QuotaHolds
  <2>1. sold[v] >= LiveFlash(v) + ToReverse(v)
    BY DEF IInv, SalesInv, SalesAt, Covers
  <2>2. sold[v] <= Quota[v]
    BY DEF IInv, LInv, WithinQuota
  <2>3. LiveFlash(v) \in Nat /\ ToReverse(v) \in Nat /\ sold[v] \in Nat /\ Quota[v] \in Nat
    BY SalesNat, SoldType DEF IInv
  <2> QED BY <2>1, <2>2, <2>3
<1> QED BY <1>1, Invariance, PTL

-----------------------------------------------------------------------------
(* Checkout implements Purchases. *)

LEMMA BoughtSum ==
  ASSUME NEW f, NEW S
  PROVE  Bought!SumFunctionOnSet(f, S) = SumFunctionOnSet(f, S)
BY DEF Bought!SumFunctionOnSet, SumFunctionOnSet, Bought!FoldFunctionOnSet, FoldFunctionOnSet,
       Bought!MapThenFoldSet, MapThenFoldSet

LEMMA FlashUnitsAre ==
  ASSUME NEW is, NEW v, Counted(is)
  PROVE  Bought!FlashUnits(is, v) = Units(FlashOf(is), v)
<1> DEFINE f == [i \in is |-> IF i.variant = v /\ i.flash THEN i.quantity ELSE 0]
           g == [i \in FlashOf(is) |-> IF i.variant = v THEN i.quantity ELSE 0]
<1>1. PICK S : S = FlashOf(is)
  OBVIOUS
<1>2. S \in SUBSET is /\ IsFiniteSet(is) /\ IsFiniteSet(S)
  BY <1>1, FS_Subset DEF FlashOf, Counted
<1>3. Bought!FlashUnits(is, v) = SumFunctionOnSet(f, is)
  BY BoughtSum DEF Bought!FlashUnits
<1>4. Units(S, v) = SumFunctionOnSet(g, S)
  BY <1>1 DEF Units
<1>5. /\ \A x \in is : f[x] \in Int
      /\ \A x \in is \ S : f[x] = 0
      /\ \A x \in S : f[x] = g[x] /\ f[x] \in Int
  BY <1>1 DEF Counted, FlashOf
<1> HIDE DEF f, g
<1>6. SumFunctionOnSet(f, is) = SumFunctionOnSet(f, S)
  BY <1>2, <1>5, SumZeros
<1>7. SumFunctionOnSet(f, S) = SumFunctionOnSet(g, S)
  BY <1>2, <1>5, SumSame
<1> QED BY <1>1, <1>3, <1>4, <1>6, <1>7

ItemsAt(o) == IF order[o] = NoOrder THEN {} ELSE order[o].items

LEMMA CommitBuys ==
  ASSUME IInv, IInv', NEW r \in Requests, CommitStep(r)
  PROVE  Bought!Buy
<1>1. PICK job \in AllJobs : job = req[r] /\ job.op = "commit" /\ Sound(job)
  BY JobAt DEF CommitStep, IInv
<1>2. PICK is : is = job.items
  OBVIOUS
<1>3. is \in SUBSET OrderItem /\ IsFiniteSet(is) /\ is # {} /\ Counted(is)
  BY <1>1, <1>2, OrderJobFacts, ItemsCounted DEF Sound, CheckoutOps
<1>4. /\ \E id : NewOrders(is, id)
      /\ sold' = [v \in Variants |-> sold[v] + Units(FlashOf(is), v)]
      /\ order' \in [Orders -> {order'[o] : o \in Orders}]
  BY <1>1, <1>2 DEF CommitStep, Committed
<1>5. PICK id : NewOrders(is, id)
  BY <1>4
<1>6. \A s \in ShopsOf(is) :
        /\ id[s] \in Orders /\ order[id[s]] = NoOrder
        /\ order'[id[s]] = Ordered(OfShop(is, s))
        /\ OfShop(is, s) # {}
        /\ ItemsAt(id[s])' = OfShop(is, s)
  <2> SUFFICES ASSUME NEW s \in ShopsOf(is)
               PROVE  /\ id[s] \in Orders /\ order[id[s]] = NoOrder
                      /\ order'[id[s]] = Ordered(OfShop(is, s))
                      /\ OfShop(is, s) # {}
                      /\ ItemsAt(id[s])' = OfShop(is, s)
    OBVIOUS
  <2>1. /\ Ordered(OfShop(is, s)) # NoOrder /\ Ordered(OfShop(is, s)).items = OfShop(is, s)
        /\ OfShop(is, s) # {}
    BY <1>3, ShopFacts
  <2>2. id[s] \in Orders /\ order[id[s]] = NoOrder /\ order'[id[s]] = Ordered(OfShop(is, s))
    BY <1>5 DEF NewOrders
  <2> QED BY <2>1, <2>2 DEF ItemsAt
<1>7. \A o \in Orders : (\A s \in ShopsOf(is) : id[s] # o) => ItemsAt(o)' = ItemsAt(o)
  BY <1>5 DEF NewOrders, ItemsAt
<1>8. \A o \in Orders : ItemsAt(o) # {} => ItemsAt(o)' = ItemsAt(o)
  BY <1>6, <1>7 DEF ItemsAt
<1>9. PICK i : i \in is
  BY <1>3
<1>10. \A x \in is : Shop[x.variant] \in ShopsOf(is) /\ x \in OfShop(is, Shop[x.variant])
  BY DEF ShopsOf, OfShop, VariantsOf
<1>11. \E o \in Orders : ItemsAt(o)' # ItemsAt(o)
  BY <1>6, <1>9, <1>10 DEF ItemsAt
<1>12. UNION {ItemsAt(o)' : o \in {p \in Orders : ItemsAt(p) = {}}} = is
  <2> DEFINE new == {p \in Orders : ItemsAt(p) = {}}
  <2>1. ASSUME NEW o \in new PROVE ItemsAt(o)' \subseteq is
    <3>1. CASE \E s \in ShopsOf(is) : id[s] = o
      BY <1>6, <3>1 DEF OfShop
    <3>2. CASE \A s \in ShopsOf(is) : id[s] # o
      BY <1>7, <3>2
    <3> QED BY <3>1, <3>2
  <2>2. ASSUME NEW x \in is PROVE \E o \in new : x \in ItemsAt(o)'
    <3>1. PICK s \in ShopsOf(is) : x \in OfShop(is, s)
      BY <1>10
    <3>2. id[s] \in new
      BY <1>6 DEF ItemsAt
    <3> QED BY <1>6, <3>1, <3>2
  <2> QED BY <2>1, <2>2
<1>13. ASSUME NEW v \in Variants
       PROVE  LET units == Bought!FlashUnits(is, v)
              IN sold'[v] = sold[v] + units /\ (units > 0 => sold'[v] <= Quota[v])
  <2>1. Bought!FlashUnits(is, v) = Units(FlashOf(is), v)
    BY <1>3, FlashUnitsAre
  <2>2. sold'[v] <= Quota[v]
    BY DEF IInv, LInv, WithinQuota
  <2> QED BY <1>4, <2>1, <2>2
<1>14. UNION {[u \in Orders |-> ItemsAt(u)'][o] :
                o \in {p \in Orders : [q \in Orders |-> ItemsAt(q)][p] = {}}} = is
  BY <1>12
<1> QED BY <1>8, <1>11, <1>13, <1>14 DEF Bought!Buy, ItemsAt

LEMMA ReverseGivesBack ==
  ASSUME SInv, NEW r \in Requests, ReverseFlash(r)
  PROVE  Bought!GiveBack
<1>1. PICK job \in AllJobs : job = req[r] /\ job.op = "undo" /\ Sound(job)
  BY JobAt DEF ReverseFlash
<1>2. PICK i \in job.reverse :
        sold' = [sold EXCEPT ![i.variant] = IF @ < i.quantity THEN 0 ELSE @ - i.quantity]
  BY <1>1 DEF ReverseFlash
<1>3. PICK o \in Orders : i.flash /\ Placed(o) /\ i \in order[o].items
  BY <1>1, <1>2 DEF Sound
<1>4. i \in ItemsAt(o) /\ order' = order
  BY <1>3 DEF ItemsAt, Placed, ReverseFlash
<1>5. i \in [p \in Orders |-> ItemsAt(p)][o]
  BY <1>4
<1> QED BY <1>2, <1>3, <1>4, <1>5 DEF Bought!GiveBack, ItemsAt

LEMMA CancelKeepsItems ==
  ASSUME SInv, NEW r \in Requests, CancelOrder(r)
  PROVE  (\A o \in Orders : ItemsAt(o)' = ItemsAt(o)) /\ sold' = sold
<1>1. PICK job \in AllJobs : job = req[r] /\ job.op = "cancel" /\ Sound(job)
  BY JobAt DEF CancelOrder
<1>2. PICK o : o = job.order
  OBVIOUS
<1>3. o \in Orders /\ Placed(o)
  BY <1>1, <1>2, OrderJobFacts DEF Sound
<1>4. PICK new : new = [order[o] EXCEPT !.status = "cancelled"]
  OBVIOUS
<1>5. new.items = order[o].items /\ new # NoOrder
  BY <1>3, <1>4, OrderFacts
<1>6. order' = [order EXCEPT ![o].status = "cancelled"] /\ sold' = sold
  BY <1>1, <1>2 DEF CancelOrder
<1>7. order \in [Orders -> {NoOrder} \cup [status : {"live", "cancelled"},
                                          items : SUBSET OrderItem]]
  BY DEF SInv, TypeOK
<1>8. order'[o] = new /\ \A p \in Orders \ {o} : order'[p] = order[p]
  BY <1>3, <1>4, <1>6, <1>7
<1> QED BY <1>3, <1>5, <1>6, <1>8 DEF ItemsAt, Placed

LEMMA StepBuys ==
  ASSUME IInv, IInv', [Next]_vars
  PROVE  Bought!Next \/ UNCHANGED <<[o \in Orders |-> ItemsAt(o)], sold>>
<1>0. SInv
  BY DEF IInv
<1>1. ASSUME UNCHANGED <<order, sold>>
      PROVE  UNCHANGED <<[o \in Orders |-> ItemsAt(o)], sold>>
  BY <1>1 DEF ItemsAt
<1>2. ASSUME UNCHANGED sales
      PROVE  UNCHANGED <<[o \in Orders |-> ItemsAt(o)], sold>>
  BY <1>1, <1>2 DEF sales
<1>3. ASSUME NEW r \in Requests, StepKind(r)
      PROVE  Bought!Next \/ UNCHANGED <<[o \in Orders |-> ItemsAt(o)], sold>>
  <2>1. CASE QuietStep(r)
    BY <1>2, <2>1 DEF QuietStep
  <2>2. ASSUME NEW i, TakeStep(r, i)
        PROVE  UNCHANGED <<[o \in Orders |-> ItemsAt(o)], sold>>
    BY <1>2, <2>2 DEF TakeStep
  <2>3. CASE CommitStep(r)
    BY <2>3, CommitBuys DEF Bought!Next
  <2>4. CASE DeductStock(r)
    BY <1>1, <2>4 DEF DeductStock
  <2>5. CASE CancelOrder(r)
    BY <1>0, <2>5, CancelKeepsItems
  <2>6. CASE ReverseFlash(r)
    BY <1>0, <2>6, ReverseGivesBack DEF Bought!Next
  <2>7. CASE RestoreStock(r)
    BY <1>1, <2>7 DEF RestoreStock, orderVars
  <2>8. CASE LoseStep(r)
    <3>1. UNCHANGED <<order, sold>>
      BY <2>8 DEF LoseStep, Fail
    <3> QED BY <1>1, <3>1
  <2> QED BY <1>3, <2>1, <2>2, <2>3, <2>4, <2>5, <2>6, <2>7, <2>8 DEF StepKind
<1>4. ASSUME NEW o \in Orders, OverwriteCancellation(o)
      PROVE  UNCHANGED <<[p \in Orders |-> ItemsAt(p)], sold>>
  <2>1. /\ order'[o] # NoOrder /\ order'[o].items = order[o].items /\ Placed(o)
        /\ \A p \in Orders \ {o} : order'[p] = order[p]
    BY <1>0, <1>4, ReopenFacts
  <2>2. \A p \in Orders : ItemsAt(p)' = ItemsAt(p)
    BY <2>1 DEF ItemsAt, Placed
  <2>3. sold' = sold
    BY <1>4 DEF OverwriteCancellation
  <2> QED BY <2>2, <2>3
<1> QED BY <1>0, <1>2, <1>3, <1>4, StepKinds

\* Whatever fails or overlaps, orders and quotas move as Purchases says: the orders of a
\* checkout and the units it takes appear in one step, within the quota, and units come
\* back one item of an order at a time.
THEOREM CheckoutImplementsPurchases == Spec => BuysAllOrNothing
<1>1. Init => Bought!Init
  <2> SUFFICES ASSUME Init PROVE Bought!Init
    OBVIOUS
  <2>1. order = [o \in Orders |-> NoOrder] /\ sold = [v \in Variants |-> 0]
    BY DEF Init
  <2> QED BY <2>1 DEF Bought!Init
<1>2. IInv /\ IInv' /\ [Next]_vars =>
        [Bought!Next]_<<[o \in Orders |-> IF order[o] = NoOrder THEN {} ELSE order[o].items], sold>>
  BY StepBuys DEF ItemsAt
<1> QED BY <1>1, <1>2, Invariance, PTL DEF Spec, BuysAllOrNothing, Bought!Spec

Rows == [Lines -> {NoLine} \cup Row]

LEMMA UnitsAtNat ==
  ASSUME NEW f \in Rows, NEW l \in Lines, NEW v
  PROVE  /\ UnitsAt(f[l], v) \in Nat
         /\ UnitsAt(f[l], v) # 0 <=> Has(f[l], v)
         /\ UnitsAt(NoLine, v) = 0
BY DEF Rows, UnitsAt, Has, Row

LEMMA AmongNat ==
  ASSUME NEW f \in Rows, NEW ls, NEW v
  PROVE  Among(f, ls, v) \in Nat
<1> DEFINE a == [l \in Lines |-> IF l \in ls THEN UnitsAt(f[l], v) ELSE 0]
<1>1. \A l \in Lines : a[l] \in Nat
  BY UnitsAtNat
<1>2. IsFiniteSet(Lines)
  BY CartAssumption
<1> HIDE DEF a
<1>3. SumFunctionOnSet(a, Lines) \in Nat
  BY <1>1, <1>2, SumNat
<1> QED BY <1>3 DEF Among, a

\* Only the lines of the variant count.
LEMMA AmongSame ==
  ASSUME NEW f, NEW g, NEW v, NEW ls, NEW ks,
         \A l \in Lines : \/ f[l] = g[l] /\ (l \in ls <=> l \in ks)
                          \/ ~Has(f[l], v) /\ ~Has(g[l], v)
  PROVE  Among(f, ls, v) = Among(g, ks, v)
<1> DEFINE a == [l \in Lines |-> IF l \in ls THEN UnitsAt(f[l], v) ELSE 0]
           b == [l \in Lines |-> IF l \in ks THEN UnitsAt(g[l], v) ELSE 0]
<1>1. \A l \in Lines : a[l] = b[l]
  BY DEF UnitsAt
<1>2. a = b
  BY <1>1
<1> QED BY <1>2 DEF Among

\* One line changes.
LEMMA AmongChange ==
  ASSUME NEW f \in Rows, NEW g \in Rows, NEW v, NEW ls, NEW k \in Lines,
         \A l \in Lines \ {k} : f[l] = g[l]
  PROVE  /\ k \in ls => Among(g, ls, v) = Among(f, ls, v) + UnitsAt(g[k], v) - UnitsAt(f[k], v)
         /\ k \notin ls => Among(g, ls, v) = Among(f, ls, v)
<1> DEFINE a == [l \in Lines |-> IF l \in ls THEN UnitsAt(f[l], v) ELSE 0]
           b == [l \in Lines |-> IF l \in ls THEN UnitsAt(g[l], v) ELSE 0]
<1>1. \A l \in Lines : a[l] \in Int /\ b[l] \in Int
  BY UnitsAtNat
<1>2. \A l \in Lines \ {k} : a[l] = b[l]
  OBVIOUS
<1>3. /\ k \in ls => a[k] = UnitsAt(f[k], v) /\ b[k] = UnitsAt(g[k], v)
      /\ k \notin ls => a[k] = 0 /\ b[k] = 0
  OBVIOUS
<1>4. Among(f, ls, v) = SumFunctionOnSet(a, Lines) /\ Among(g, ls, v) = SumFunctionOnSet(b, Lines)
  BY DEF Among
<1>5. IsFiniteSet(Lines)
  BY CartAssumption
<1> HIDE DEF a, b
<1>6. SumFunctionOnSet(b, Lines) = SumFunctionOnSet(a, Lines) + b[k] - a[k]
  BY <1>1, <1>2, <1>5, SumChange
<1>7. SumFunctionOnSet(a, Lines) \in Int
  BY <1>1, <1>5, SumType
<1> QED BY <1>1, <1>3, <1>4, <1>6, <1>7

\* Lines are dropped.
LEMMA AmongDrop ==
  ASSUME NEW f \in Rows, NEW g, NEW v, NEW ls \in SUBSET Lines,
         \A l \in Lines : g[l] = IF l \in ls THEN NoLine ELSE f[l]
  PROVE  Among(f, Lines, v) = Among(g, Lines, v) + Among(f, ls, v)
<1> DEFINE a == [l \in Lines |-> IF l \in Lines THEN UnitsAt(g[l], v) ELSE 0]
           b == [l \in Lines |-> IF l \in ls THEN UnitsAt(f[l], v) ELSE 0]
           c == [l \in Lines |-> IF l \in Lines THEN UnitsAt(f[l], v) ELSE 0]
<1>1. \A l \in Lines : UnitsAt(f[l], v) \in Nat /\ UnitsAt(NoLine, v) = 0
  BY UnitsAtNat
<1>2. \A l \in Lines : a[l] \in Int /\ b[l] \in Int /\ c[l] = a[l] + b[l]
  <2> SUFFICES ASSUME NEW l \in Lines
               PROVE  a[l] \in Int /\ b[l] \in Int /\ c[l] = a[l] + b[l]
    OBVIOUS
  <2>1. CASE l \in ls
    <3>1. a[l] = 0 /\ b[l] = UnitsAt(f[l], v) /\ c[l] = UnitsAt(f[l], v)
      BY <1>1, <2>1
    <3> QED BY <1>1, <3>1
  <2>2. CASE l \notin ls
    <3>1. a[l] = UnitsAt(f[l], v) /\ b[l] = 0 /\ c[l] = UnitsAt(f[l], v)
      BY <1>1, <2>2
    <3> QED BY <1>1, <3>1
  <2> QED BY <2>1, <2>2
<1>3. /\ Among(g, Lines, v) = SumFunctionOnSet(a, Lines)
      /\ Among(f, ls, v) = SumFunctionOnSet(b, Lines)
      /\ Among(f, Lines, v) = SumFunctionOnSet(c, Lines)
  BY DEF Among
<1>4. IsFiniteSet(Lines)
  BY CartAssumption
<1> HIDE DEF a, b, c
<1> QED BY <1>2, <1>3, <1>4, SumPlus

\* In the words of the model.
LEMMA CartSums ==
  ASSUME NEW v
  PROVE  CartUnits(v) = Among(line, Lines, v)
<1> DEFINE a == [l \in Lines |-> IF l \in Lines /\ Holds(l, v) THEN line[l].quantity ELSE 0]
           b == [l \in Lines |-> IF l \in Lines THEN UnitsAt(line[l], v) ELSE 0]
<1>1. \A l \in Lines : a[l] = b[l]
  BY DEF Holds, UnitsAt, Has
<1>2. a = b
  BY <1>1
<1>3. CartUnits(v) = SumFunctionOnSet(a, Lines)
  BY DEF CartUnits, UnitsOn
<1>4. Among(line, Lines, v) = SumFunctionOnSet(b, Lines)
  BY DEF Among
<1> QED BY <1>2, <1>3, <1>4

\* What a request reads of a cart has the units of its lines.
LEMMA ItemUnits ==
  ASSUME TypeOK, NEW c \in CartIds, NEW v
  PROVE  Units(Items(c), v) = Among(line, InCart(line, c), v)
<1> DEFINE h == [l \in LinesOf(c) |-> [line |-> l, variant |-> line[l].variant,
                                       quantity |-> line[l].quantity]]
           a == [l \in Lines |-> IF l \in InCart(line, c) THEN UnitsAt(line[l], v) ELSE 0]
           g == [i \in Items(c) |-> IF i.variant = v THEN i.quantity ELSE 0]
<1>0. IsFiniteSet(Lines) /\ IsFiniteSet(LinesOf(c)) /\ LinesOf(c) \in SUBSET Lines
  BY CartAssumption, FS_Subset DEF LinesOf
<1>1. Items(c) = {h[l] : l \in LinesOf(c)}
  BY DEF Items
<1>2. \A k, l \in LinesOf(c) : h[k] = h[l] => k = l
  <2>1. \A l \in LinesOf(c) : h[l].line = l
    OBVIOUS
  <2> HIDE DEF h
  <2> QED BY <2>1
<1>3. ASSUME NEW l \in LinesOf(c)
      PROVE  a[l] \in Int /\ g[h[l]] = a[l]
  <2>1. l \in Lines /\ line[l] # NoLine /\ l \in InCart(line, c) /\ line[l].quantity \in Int
    BY LineFacts DEF LinesOf, InCart
  <2>2. h[l].variant = line[l].variant /\ h[l].quantity = line[l].quantity
    OBVIOUS
  <2>3. h[l] \in Items(c)
    BY <1>1
  <2> HIDE DEF h
  <2>4. g[h[l]] = IF line[l].variant = v THEN line[l].quantity ELSE 0
    BY <2>2, <2>3
  <2>5. a[l] = IF line[l].variant = v THEN line[l].quantity ELSE 0
    BY <2>1 DEF UnitsAt, Has
  <2> QED BY <2>1, <2>4, <2>5
<1>4. \A l \in Lines \ LinesOf(c) : a[l] = 0
  BY DEF LinesOf, InCart
<1>5. Units(Items(c), v) = SumFunctionOnSet(g, Items(c))
  BY DEF Units
<1>6. Among(line, InCart(line, c), v) = SumFunctionOnSet(a, Lines)
  BY DEF Among
<1> HIDE DEF h, a, g
<1>7. SumFunctionOnSet(g, {h[l] : l \in LinesOf(c)}) = SumFunctionOnSet(a, LinesOf(c))
  BY <1>0, <1>2, <1>3, SumImage
<1>8. SumFunctionOnSet(a, Lines) = SumFunctionOnSet(a, LinesOf(c))
  BY <1>0, <1>3, <1>4, SumZeros
<1> QED BY <1>1, <1>5, <1>6, <1>7, <1>8

\* Prices do not change what is ordered.
LEMMA PricedUnits ==
  ASSUME NEW is \in SUBSET Item, IsFiniteSet(is), NEW v
  PROVE  Units(Priced(is), v) = Units(is, v)
<1> DEFINE h == [i \in is |-> [line |-> i.line, variant |-> i.variant, quantity |-> i.quantity,
                               flash |-> i.variant \in open]]
           a == [i \in is |-> IF i.variant = v THEN i.quantity ELSE 0]
           g == [i \in Priced(is) |-> IF i.variant = v THEN i.quantity ELSE 0]
<1>1. Priced(is) = {h[i] : i \in is}
  BY DEF Priced
<1>2. \A i \in is : h[i].line = i.line /\ h[i].variant = i.variant /\ h[i].quantity = i.quantity
  OBVIOUS
<1>3. \A i, j \in is : h[i] = h[j] => i = j
  <2> SUFFICES ASSUME NEW i \in is, NEW j \in is, h[i] = h[j] PROVE i = j
    OBVIOUS
  <2>1. i.line = j.line /\ i.variant = j.variant /\ i.quantity = j.quantity
    <3> HIDE DEF h
    <3> QED BY <1>2
  <2>2. i \in [line : Lines, variant : Variants, quantity : Nat \ {0}]
        /\ j \in [line : Lines, variant : Variants, quantity : Nat \ {0}]
    BY DEF Item
  <2> QED BY <2>1, <2>2
<1>4. ASSUME NEW i \in is
      PROVE  a[i] \in Int /\ g[h[i]] = a[i]
  <2>1. h[i] \in Priced(is)
    BY <1>1
  <2>2. a[i] \in Int
    BY DEF Item
  <2> HIDE DEF h
  <2> QED BY <1>2, <2>1, <2>2
<1>5. Units(Priced(is), v) = SumFunctionOnSet(g, Priced(is)) /\ Units(is, v) = SumFunctionOnSet(a, is)
  BY DEF Units
<1> HIDE DEF h, a, g
<1>6. SumFunctionOnSet(g, {h[i] : i \in is}) = SumFunctionOnSet(a, is)
  BY <1>3, <1>4, SumImage
<1> QED BY <1>1, <1>5, <1>6

-----------------------------------------------------------------------------
(* One request moves at a time.                                              *)

Watchful == Merging \cup CheckoutOps \cup {"addWrite", "mergeUser", "mergeCreate"}

\* The other jobs know nothing of lines.
LEMMA KnowsNothing ==
  ASSUME NEW job, job.op \notin Watchful, NEW v, NEW f, NEW cs, NEW gone, NEW due
  PROVE  Knows(job, v, f, cs, gone, due)
BY DEF Knows, Watchful, Merging, CheckoutOps

\* A job that does not work on v knows nothing of its units.
LEMMA KnowsOwn ==
  ASSUME NEW job, job.op \in AddOps => job.variant \in job.on,
         job.op \in MergeOps \cup CheckoutOps => job.on = Variants,
         NEW v \in Variants, v \notin job.on, NEW f, NEW cs, NEW gone, NEW due
  PROVE  Knows(job, v, f, cs, gone, due) /\ job.op \notin Merging
BY DEF Knows, Merging, AddOps, MergeOps, CheckoutOps

\* What a job knows stays true while the lines of v and the customer's carts are kept.
LEMMA KnowsKept ==
  ASSUME NEW job \in AllJobs, NEW v, NEW f, NEW g, NEW cs, NEW ds, NEW gone, NEW due,
         \A l \in Lines : f[l] = g[l] \/ (~Has(f[l], v) /\ ~Has(g[l], v)),
         cs \subseteq ds, Knows(job, v, f, cs, gone, due)
  PROVE  Knows(job, v, g, ds, gone, due)
<1>1. Among(g, Lines, v) = Among(f, Lines, v)
  BY AmongSame
<1>2. ASSUME NEW c
      PROVE  Among(f, InCart(f, c), v) = Among(g, InCart(g, c), v)
  <2>1. \A l \in Lines : \/ f[l] = g[l] /\ (l \in InCart(f, c) <=> l \in InCart(g, c))
                         \/ ~Has(f[l], v) /\ ~Has(g[l], v)
    BY DEF InCart
  <2> QED BY <2>1, AmongSame
<1>3. Among(g, gone, v) = Among(f, gone, v)
  BY AmongSame
<1>4. ASSUME NEW hit \in SUBSET Lines, NEW sum, NEW n, Found(f, v, hit, sum, n)
      PROVE  Found(g, v, hit, sum, n)
  BY <1>4 DEF Found
<1>5. job.op = "addWrite" => job.hit \in SUBSET Lines
  BY JobFacts
<1>6. job.op = "mergeWrite" => job.hit \in SUBSET Lines
  BY MergeFacts
<1> QED BY <1>1, <1>2, <1>3, <1>4, <1>5, <1>6 DEF Knows

\* What request r knows, and what it owes.
Local(r, v) ==
  /\ Accurate(r, v)
  /\ req[r].op \notin Merging => Among(line, Lines, v) = Due(v)

\* Request r takes on no variant but at its beginning.
TakesOn(r) ==
  \/ raced' = raced /\ req'[r].on \subseteq req[r].on
  \/ raced' = raced \cup (req'[r].on \cap UNION {req[s].on : s \in Requests})

\* A step of r does not touch a variant that r does not work on.
Apart(r, v) ==
  /\ \A l \in Lines : line[l] = line'[l] \/ (~Has(line[l], v) /\ ~Has(line'[l], v))
  /\ Due(v)' = Due(v)
  /\ CartsOf("user") \subseteq CartsOf("user")'

Advance(r) ==
  /\ \A s \in Requests \ {r} : req'[s] = req[s] /\ cleared'[s] = cleared[s]
  /\ TakesOn(r)
  /\ twin => twin'
  /\ torn => torn'
  /\ OneCart => OneCart'
  /\ \A v \in Variants : v \notin req[r].on => Apart(r, v)
  /\ ~twin' /\ ~torn' /\ OneCart => \A v \in Variants : Local(r, v) => Local(r, v)'

LEMMA AdvanceApart ==
  ASSUME NEW r \in Requests, Advance(r), OneAtWork
  PROVE  OneAtWork' /\ raced \subseteq raced'
<1>1. raced \subseteq raced'
  BY DEF Advance, TakesOn
<1>2. ASSUME NEW s \in Requests \ {r}
      PROVE  req'[r].on \cap req'[s].on \subseteq raced'
  <2>1. req'[s] = req[s]
    BY DEF Advance
  <2>2. req[r].on \cap req[s].on \subseteq raced
    BY DEF OneAtWork
  <2>3. CASE raced' = raced /\ req'[r].on \subseteq req[r].on
    BY <2>1, <2>2, <2>3
  <2>4. CASE raced' = raced \cup (req'[r].on \cap UNION {req[t].on : t \in Requests})
    BY <2>1, <2>4
  <2> QED BY <2>3, <2>4 DEF Advance, TakesOn
<1>3. ASSUME NEW s \in Requests \ {r}, NEW t \in Requests \ {r}, s # t
      PROVE  req'[s].on \cap req'[t].on \subseteq raced'
  <2>1. req'[s] = req[s] /\ req'[t] = req[t]
    BY DEF Advance
  <2> QED BY <1>1, <1>3, <2>1 DEF OneAtWork
<1>4. ASSUME NEW s \in Requests, NEW t \in Requests, s # t
      PROVE  req'[s].on \cap req'[t].on \subseteq raced'
  BY <1>2, <1>3, <1>4
<1> QED BY <1>1, <1>4 DEF OneAtWork

LEMMA NextSound ==
  ASSUME SInv', NEW s \in Requests
  PROVE  /\ req'[s].op \in AddOps => req'[s].variant \in req'[s].on
         /\ req'[s].op \in MergeOps \cup CheckoutOps => req'[s].on = Variants
BY DEF SInv, JobsSound, Sound

LEMMA NowSound ==
  ASSUME SInv, NEW s \in Requests
  PROVE  /\ req[s].op \in AddOps => req[s].variant \in req[s].on
         /\ req[s].op \in MergeOps \cup CheckoutOps => req[s].on = Variants
BY DEF SInv, JobsSound, Sound

\* A variant that r works on concerns no other request.
LEMMA BalancedOn ==
  ASSUME SInv, SInv', OneAtWork, OneAtWork', OneCart, NEW r \in Requests, Advance(r),
         ~twin', ~torn', NEW v \in Variants, v \notin raced', raced \subseteq raced',
         Balanced(v), v \in req[r].on \cup req'[r].on
  PROVE  Balanced(v)'
<1>1. ASSUME NEW s \in Requests \ {r}
      PROVE  /\ Accurate(s, v)' /\ req'[s].op \notin Merging
             /\ req[s].op \notin Merging
  <2>1. req'[s] = req[s]
    BY DEF Advance
  <2>2. v \notin req[s].on
    BY <2>1 DEF OneAtWork
  <2>3. Knows(req'[s], v, line', CartsOf("user")', cleared'[s], Due(v)') /\ req'[s].op \notin Merging
    BY <2>1, <2>2, NextSound, KnowsOwn
  <2> QED BY <2>1, <2>3 DEF Accurate
<1>2. Local(r, v)
  <2>1. Accurate(r, v)
    BY DEF Balanced
  <2>2. ASSUME req[r].op \notin Merging
        PROVE  Among(line, Lines, v) = Due(v)
    BY <1>1, <2>2 DEF Balanced
  <2> QED BY <2>1, <2>2 DEF Local
<1>3. Local(r, v)'
  BY <1>2 DEF Advance
<1>4. \A s \in Requests : Accurate(s, v)'
  BY <1>1, <1>3 DEF Local
<1>5. ASSUME \A s \in Requests : req'[s].op \notin Merging
      PROVE  Among(line', Lines, v) = Due(v)'
  BY <1>3, <1>5 DEF Local
<1> QED BY <1>4, <1>5 DEF Balanced

\* A variant that r does not work on is as it was.
LEMMA BalancedApart ==
  ASSUME SInv, SInv', NEW r \in Requests, Advance(r), NEW v \in Variants, Balanced(v),
         v \notin req[r].on \cup req'[r].on
  PROVE  Balanced(v)'
<1>1. /\ \A l \in Lines : line[l] = line'[l] \/ (~Has(line[l], v) /\ ~Has(line'[l], v))
      /\ Due(v)' = Due(v)
      /\ CartsOf("user") \subseteq CartsOf("user")'
  BY DEF Advance, Apart
<1>2. ASSUME NEW s \in Requests \ {r}
      PROVE  Accurate(s, v)' /\ req'[s].op = req[s].op
  <2>1. req'[s] = req[s] /\ cleared'[s] = cleared[s]
    BY DEF Advance
  <2>2. Knows(req[s], v, line, CartsOf("user"), cleared[s], Due(v)) /\ req[s] \in AllJobs
    BY JobAt DEF Balanced, Accurate
  <2>3. Knows(req[s], v, line', CartsOf("user")', cleared[s], Due(v))
    BY <1>1, <2>2, KnowsKept
  <2> QED BY <1>1, <2>1, <2>3 DEF Accurate
<1>3. Accurate(r, v)' /\ req'[r].op \notin Merging /\ req[r].op \notin Merging
  <2>1. Knows(req'[r], v, line', CartsOf("user")', cleared'[r], Due(v)') /\ req'[r].op \notin Merging
    BY NextSound, KnowsOwn
  <2>2. req[r].op \notin Merging
    BY NowSound, KnowsOwn
  <2> QED BY <2>1, <2>2 DEF Accurate
<1>4. \A s \in Requests : Accurate(s, v)'
  BY <1>2, <1>3
<1>5. ASSUME \A s \in Requests : req'[s].op \notin Merging
      PROVE  Among(line', Lines, v) = Due(v)'
  <2>1. \A s \in Requests : req[s].op \notin Merging
    BY <1>2, <1>3, <1>5
  <2>2. Among(line, Lines, v) = Due(v)
    BY <2>1 DEF Balanced
  <2>3. Among(line, Lines, v) = Among(line', Lines, v)
    BY <1>1, AmongSame
  <2> QED BY <1>1, <2>2, <2>3
<1> QED BY <1>4, <1>5 DEF Balanced

LEMMA AdvanceKeeps ==
  ASSUME SInv, SInv', OneAtWork, OneCart, AllBalanced, NEW r \in Requests, Advance(r)
  PROVE  OneAtWork' /\ OneCart' /\ AllBalanced'
<1>1. OneAtWork' /\ raced \subseteq raced'
  BY AdvanceApart
<1>2. OneCart'
  BY DEF Advance
<1>3. ASSUME ~twin', ~torn', NEW v \in Variants, v \notin raced'
      PROVE  Balanced(v)'
  <2>1. ~twin /\ ~torn /\ v \notin raced
    BY <1>1, <1>3 DEF Advance
  <2>2. Balanced(v)
    BY <2>1 DEF AllBalanced
  <2> QED BY <1>1, <1>3, <2>2, BalancedOn, BalancedApart
<1> QED BY <1>1, <1>2, <1>3 DEF AllBalanced

-----------------------------------------------------------------------------
(* Steps that write no line.                                                 *)

LEMMA SameOrders ==
  ASSUME UNCHANGED order, NEW v
  PROVE  OrderedUnits(v)' = OrderedUnits(v)
BY OrderSumsAre

\* Request r reads, or writes what is no matter of the carts.
LEMMA StillStep ==
  ASSUME SInv, NEW r \in Requests, NEW job, req' = [req EXCEPT ![r] = job],
         UNCHANGED <<line, wanted, owner, twin>>, torn => torn',
         \A v \in Variants : OrderedUnits(v)' = OrderedUnits(v),
         \A s \in Requests \ {r} : cleared'[s] = cleared[s],
         \/ raced' = raced /\ job.on \subseteq req[r].on
         \/ raced' = raced \cup (job.on \cap UNION {req[s].on : s \in Requests}),
         ~torn' => job.op \in Merging \/ req[r].op \notin Merging,
         ~torn' /\ ~twin /\ OneCart =>
           \A v \in Variants : Local(r, v) => Knows(job, v, line, CartsOf("user"), cleared'[r], Due(v))
  PROVE  Advance(r)
<1>1. req'[r] = job /\ \A s \in Requests \ {r} : req'[s] = req[s]
  BY DEF SInv, TypeOK
<1>2. CartsOf("user")' = CartsOf("user")
  BY DEF CartsOf
<1>3. \A v \in Variants : Due(v)' = Due(v)
  BY DEF Due
<1>4. OneCart => OneCart'
  BY DEF OneCart, CartsOf
<1>5. ASSUME ~twin', ~torn', OneCart, NEW v \in Variants, Local(r, v)
      PROVE  Local(r, v)'
  <2>1. Knows(job, v, line, CartsOf("user"), cleared'[r], Due(v))
    BY <1>5
  <2>2. Accurate(r, v)'
    BY <1>1, <1>2, <1>3, <2>1 DEF Accurate
  <2>3. job.op \notin Merging => Among(line', Lines, v) = Due(v)'
    BY <1>3, <1>5 DEF Local
  <2> QED BY <1>1, <2>2, <2>3 DEF Local
<1>6. ASSUME NEW v \in Variants
      PROVE  Apart(r, v)
  <2>1. Due(v)' = Due(v)
    BY <1>3
  <2> QED BY <1>2, <2>1 DEF Apart
<1>7. TakesOn(r)
  BY <1>1 DEF TakesOn
<1> QED BY <1>1, <1>4, <1>5, <1>6, <1>7 DEF Advance

\* A request that begins by reading nothing of a cart.
LEMMA BeginStep ==
  ASSUME SInv, NEW r \in Requests, NEW job, Begin(r, job),
         UNCHANGED <<line, wanted, owner, twin, torn, cleared, order>>,
         \A v \in Variants : Knows(job, v, line, CartsOf("user"), cleared[r], Due(v))
  PROVE  Advance(r)
<1>1. /\ req[r] = Idle /\ req' = [req EXCEPT ![r] = job]
      /\ raced' = raced \cup (job.on \cap UNION {req[s].on : s \in Requests})
  BY DEF Begin, Goto
<1>2. req[r].op \notin Merging
  BY <1>1, IdleJob DEF Merging
<1>3. \A v \in Variants : OrderedUnits(v)' = OrderedUnits(v)
  BY SameOrders
<1> QED BY <1>1, <1>2, <1>3, StillStep

LEMMA GotoStep ==
  ASSUME SInv, NEW r \in Requests, NEW job, Goto(r, job), job.on \subseteq req[r].on,
         UNCHANGED <<line, wanted, owner, twin, torn, cleared, order, raced>>,
         job.op \in Merging \/ req[r].op \notin Merging,
         ~torn /\ ~twin /\ OneCart =>
           \A v \in Variants : Local(r, v) => Knows(job, v, line, CartsOf("user"), cleared[r], Due(v))
  PROVE  Advance(r)
<1>1. req' = [req EXCEPT ![r] = job]
  BY DEF Goto
<1>2. \A v \in Variants : OrderedUnits(v)' = OrderedUnits(v)
  BY SameOrders
<1> QED BY <1>1, <1>2, StillStep

\* A job that knows nothing needs no proof.
LEMMA BlindStep ==
  ASSUME SInv, NEW r \in Requests, NEW job, Goto(r, job), job.on \subseteq req[r].on,
         job.op \notin Watchful, req[r].op \notin Merging,
         UNCHANGED <<line, wanted, owner, twin, torn, order, raced>>,
         \A s \in Requests \ {r} : cleared'[s] = cleared[s]
  PROVE  Advance(r)
<1>1. req' = [req EXCEPT ![r] = job]
  BY DEF Goto
<1>2. \A v \in Variants : OrderedUnits(v)' = OrderedUnits(v)
  BY SameOrders
<1>3. \A v \in Variants : Knows(job, v, line, CartsOf("user"), cleared'[r], Due(v))
  BY KnowsNothing
<1> QED BY <1>1, <1>2, <1>3, StillStep

LEMMA IdleStep ==
  ASSUME SInv, NEW r \in Requests, Goto(r, Idle), req[r].op \notin Merging,
         UNCHANGED <<line, wanted, owner, twin, torn, order, raced>>,
         \A s \in Requests \ {r} : cleared'[s] = cleared[s]
  PROVE  Advance(r)
<1>1. Idle.on = {} /\ Idle.op \notin Watchful
  BY IdleJob DEF Watchful, Merging, CheckoutOps
<1> QED BY <1>1, BlindStep

LEMMA AddItemSteps ==
  ASSUME SInv, NEW r \in Requests, NEW o \in Owners, NEW v \in Variants,
         NEW n \in 1 .. MaxQuantity, AddItem(r, o, v, n), UNCHANGED orderVars
  PROVE  Advance(r)
<1> DEFINE job == [op |-> "addCart", on |-> {v}, owner |-> o, variant |-> v,
                   quantity |-> n, cap |-> stock[v]]
<1>1. job.op \notin Watchful
  BY DEF Watchful, Merging, CheckoutOps
<1>2. Begin(r, job) /\ UNCHANGED <<line, wanted, owner, twin, torn, cleared, order>>
  BY DEF AddItem, orderVars
<1> HIDE DEF job
<1>3. \A w \in Variants : Knows(job, w, line, CartsOf("user"), cleared[r], Due(w))
  BY <1>1, KnowsNothing
<1> QED BY <1>2, <1>3, BeginStep

LEMMA AddFindCartSteps ==
  ASSUME SInv, NEW r \in Requests, AddFindCart(r), UNCHANGED orderVars
  PROVE  Advance(r)
<1>1. PICK job \in AllJobs : job = req[r] /\ job.op = "addCart"
  BY JobAt DEF AddFindCart
<1>2. /\ UNCHANGED <<line, wanted, owner, twin, torn, cleared, order, raced>>
      /\ req[r].op \notin Merging
  BY <1>1 DEF AddFindCart, orderVars, Merging
<1>3. ASSUME NEW next, Goto(r, next), next.op \in {"addCreate", "addLine"}, next.on = job.on
      PROVE  Advance(r)
  <2>1. next.op \notin Watchful /\ next.on \subseteq req[r].on
    BY <1>1, <1>3 DEF Watchful, Merging, CheckoutOps
  <2> QED BY <1>2, <1>3, <2>1, BlindStep
<1>4. CASE Goto(r, [job EXCEPT !.op = "addCreate"])
  <2>1. job \in [op : {"addCart", "addCreate"}, on : SUBSET Variants, owner : Owners,
                 variant : Variants, quantity : Nat \ {0}, cap : Nat]
    BY <1>1 DEF AllJobs, CartJob, OrderJob, Idle
  <2>2. PICK next : next = [job EXCEPT !.op = "addCreate"]
    OBVIOUS
  <2>3. next.op = "addCreate" /\ next.on = job.on
    BY <2>1, <2>2
  <2> QED BY <1>3, <1>4, <2>2, <2>3
<1>5. ASSUME NEW c,
             Goto(r, [op |-> "addLine", on |-> job.on, cart |-> c, variant |-> job.variant,
                      quantity |-> job.quantity, cap |-> job.cap])
      PROVE  Advance(r)
  BY <1>3, <1>5
<1> QED BY <1>1, <1>4, <1>5 DEF AddFindCart

LEMMA AddFindLineSteps ==
  ASSUME SInv, NEW r \in Requests, AddFindLine(r), UNCHANGED orderVars
  PROVE  Advance(r)
<1>1. PICK job \in AllJobs : job = req[r] /\ job.op = "addLine"
  BY JobAt DEF AddFindLine
<1>2. job.cart \in CartIds
  BY <1>1, JobFacts
<1>3. /\ UNCHANGED <<line, wanted, owner, twin, torn, cleared, order, raced>>
      /\ req[r].op \notin Merging
  BY <1>1 DEF AddFindLine, orderVars, Merging
<1>4. CASE Goto(r, Idle)
  BY <1>3, <1>4, IdleStep
<1>5. ASSUME NEW hit \in Hits(job.cart, job.variant),
             Goto(r, [op |-> "addWrite", on |-> job.on, cart |-> job.cart,
                      variant |-> job.variant, quantity |-> job.quantity,
                      hit |-> hit, sum |-> QuantityOf(hit) + job.quantity])
      PROVE  Advance(r)
  <2> DEFINE next == [op |-> "addWrite", on |-> job.on, cart |-> job.cart,
                      variant |-> job.variant, quantity |-> job.quantity,
                      hit |-> hit, sum |-> QuantityOf(hit) + job.quantity]
  <2>1. \A l \in hit : Has(line[l], job.variant) /\ QuantityOf(hit) = line[l].quantity
    BY <1>2, HitFacts DEF SInv, Has
  <2>2. ASSUME NEW v \in Variants
        PROVE  Knows(next, v, line, CartsOf("user"), cleared[r], Due(v))
    BY <2>1 DEF Knows, Found
  <2>3. next.on \subseteq req[r].on
    BY <1>1
  <2> HIDE DEF next
  <2>4. Goto(r, next)
    BY <1>5 DEF next
  <2> QED BY <1>3, <2>2, <2>3, <2>4, GotoStep
<1> QED BY <1>1, <1>4, <1>5 DEF AddFindLine

LEMMA EditItemSteps ==
  ASSUME SInv, NEW r \in Requests, NEW l \in Lines, NEW n \in 0 .. MaxQuantity,
         EditItem(r, l, n), UNCHANGED orderVars
  PROVE  Advance(r)
<1> DEFINE job == [op |-> "editOwn", on |-> {line[l].variant}, owner |-> owner[line[l].cart],
                   line |-> l, cart |-> line[l].cart, to |-> n]
<1>1. job.op \notin Watchful
  BY DEF Watchful, Merging, CheckoutOps
<1>2. Begin(r, job) /\ UNCHANGED <<line, wanted, owner, twin, torn, cleared, order>>
  BY DEF EditItem, orderVars
<1> HIDE DEF job
<1>3. \A w \in Variants : Knows(job, w, line, CartsOf("user"), cleared[r], Due(w))
  BY <1>1, KnowsNothing
<1> QED BY <1>2, <1>3, BeginStep

LEMMA EditFindCartSteps ==
  ASSUME SInv, NEW r \in Requests, EditFindCart(r), UNCHANGED orderVars
  PROVE  Advance(r)
<1>1. PICK job : job = req[r] /\ job.op = "editOwn"
  BY DEF EditFindCart
<1>2. /\ UNCHANGED <<line, wanted, owner, twin, torn, cleared, order, raced>>
      /\ req[r].op \notin Merging
  BY <1>1 DEF EditFindCart, orderVars, Merging
<1>3. CASE Goto(r, Idle)
  BY <1>2, <1>3, IdleStep
<1>4. CASE Goto(r, [op |-> "editWrite", on |-> job.on, line |-> job.line, to |-> job.to])
  <2> DEFINE next == [op |-> "editWrite", on |-> job.on, line |-> job.line, to |-> job.to]
  <2>1. next.op \notin Watchful /\ next.on \subseteq req[r].on
    BY <1>1 DEF Watchful, Merging, CheckoutOps
  <2> HIDE DEF next
  <2>2. Goto(r, next)
    BY <1>4 DEF next
  <2> QED BY <1>2, <2>1, <2>2, BlindStep
<1> QED BY <1>1, <1>3, <1>4 DEF EditFindCart

LEMMA MergeCartSteps ==
  ASSUME SInv, NEW r \in Requests, MergeCart(r), UNCHANGED orderVars
  PROVE  Advance(r)
<1>1. PICK c \in CartIds :
        Begin(r, [op |-> "mergeUser", on |-> Variants, guest |-> c, left |-> Items(c)])
  BY DEF MergeCart, CartsOf
<1> DEFINE job == [op |-> "mergeUser", on |-> Variants, guest |-> c, left |-> Items(c)]
<1>2. Begin(r, job) /\ UNCHANGED <<line, wanted, owner, twin, torn, cleared, order>>
  BY <1>1 DEF MergeCart, orderVars
<1>3. ASSUME NEW v \in Variants
      PROVE  Knows(job, v, line, CartsOf("user"), cleared[r], Due(v))
  <2>1. Units(Items(c), v) = Among(line, InCart(line, c), v)
    BY ItemUnits DEF SInv
  <2> QED BY <2>1 DEF Knows
<1> HIDE DEF job
<1> QED BY <1>2, <1>3, BeginStep

LEMMA LinesRows ==
  ASSUME SInv
  PROVE  line \in Rows
BY DEF SInv, TypeOK, CartTypeOK, Rows

LEMMA DueInt ==
  ASSUME SInv, NEW v \in Variants
  PROVE  Due(v) \in Int
<1>1. wanted[v] \in Int
  BY DEF SInv, TypeOK, CartTypeOK
<1>2. OrderedUnits(v) \in Int
  BY OrdersNat
<1> QED BY <1>1, <1>2 DEF Due

LEMMA MergeFindUserSteps ==
  ASSUME SInv, NEW r \in Requests, MergeFindUser(r), UNCHANGED orderVars
  PROVE  Advance(r)
<1>1. PICK job \in AllJobs : job = req[r] /\ job.op = "mergeUser"
  BY JobAt DEF MergeFindUser
<1>2. /\ UNCHANGED <<line, wanted, owner, twin, torn, cleared, order, raced>>
      /\ req[r].op \notin Merging
  BY <1>1 DEF MergeFindUser, orderVars, Merging
<1>3. ASSUME NEW v \in Variants, Local(r, v)
      PROVE  /\ Units(job.left, v) = Among(line, InCart(line, job.guest), v)
             /\ Among(line, Lines, v) = Due(v)
  BY <1>1, <1>2, <1>3 DEF Local, Accurate, Knows
<1>4. CASE Goto(r, [job EXCEPT !.op = "mergeCreate"])
  <2>1. job \in [op : {"mergeUser", "mergeCreate"}, on : SUBSET Variants, guest : CartIds,
                 left : SUBSET Item]
    BY <1>1 DEF AllJobs, CartJob, OrderJob, Idle
  <2>2. PICK next : next = [job EXCEPT !.op = "mergeCreate"]
    OBVIOUS
  <2>3. /\ next.op = "mergeCreate" /\ next.on = job.on /\ next.guest = job.guest
        /\ next.left = job.left
    BY <2>1, <2>2
  <2>4. ASSUME NEW v \in Variants, Local(r, v)
        PROVE  Knows(next, v, line, CartsOf("user"), cleared[r], Due(v))
    BY <1>3, <2>3, <2>4 DEF Knows
  <2> QED BY <1>1, <1>2, <1>4, <2>2, <2>3, <2>4, GotoStep
<1>5. ASSUME NEW c,
             Goto(r, [op |-> "mergeLine", on |-> job.on, guest |-> job.guest,
                      cart |-> c, left |-> job.left])
      PROVE  Advance(r)
  <2> DEFINE next == [op |-> "mergeLine", on |-> job.on, guest |-> job.guest,
                      cart |-> c, left |-> job.left]
  <2>1. ASSUME NEW v \in Variants, Local(r, v)
        PROVE  Knows(next, v, line, CartsOf("user"), cleared[r], Due(v))
    BY <1>3, <2>1 DEF Knows
  <2>2. next.on \subseteq req[r].on /\ next.op \in Merging
    BY <1>1 DEF Merging
  <2> HIDE DEF next
  <2>3. Goto(r, next)
    BY <1>5 DEF next
  <2> QED BY <1>2, <2>1, <2>2, <2>3, GotoStep
<1> QED BY <1>1, <1>4, <1>5 DEF MergeFindUser

LEMMA MergeFindLineSteps ==
  ASSUME SInv, NEW r \in Requests, MergeFindLine(r), UNCHANGED orderVars
  PROVE  Advance(r)
<1>1. PICK job \in AllJobs : job = req[r] /\ job.op = "mergeLine"
  BY JobAt DEF MergeFindLine
<1>2. job.cart \in CartIds
  BY <1>1, MergeFacts
<1>3. UNCHANGED <<line, wanted, owner, twin, torn, cleared, order, raced>>
  BY DEF MergeFindLine, orderVars
<1>4. ASSUME NEW v \in Variants, Local(r, v)
      PROVE  Among(line, Lines, v) + Units(job.left, v)
               = Due(v) + Among(line, InCart(line, job.guest), v)
  BY <1>1, <1>4 DEF Local, Accurate, Knows
<1>5. CASE job.left = {} /\ Goto(r, [op |-> "mergeDrop", on |-> job.on, guest |-> job.guest])
  <2> DEFINE next == [op |-> "mergeDrop", on |-> job.on, guest |-> job.guest]
  <2>1. ASSUME NEW v \in Variants, Local(r, v)
        PROVE  Knows(next, v, line, CartsOf("user"), cleared[r], Due(v))
    <3>1. Units(job.left, v) = 0
      BY <1>5, UnitsEmpty
    <3>2. Among(line, Lines, v) \in Nat
      BY LinesRows, AmongNat
    <3>3. Among(line, Lines, v) = Due(v) + Among(line, InCart(line, job.guest), v)
      BY <1>4, <2>1, <3>1, <3>2
    <3> QED BY <3>3 DEF Knows
  <2>2. next.on \subseteq req[r].on /\ next.op \in Merging
    BY <1>1 DEF Merging
  <2> HIDE DEF next
  <2>3. Goto(r, next)
    BY <1>5 DEF next
  <2> QED BY <1>3, <2>1, <2>2, <2>3, GotoStep
<1>6. ASSUME NEW i \in job.left, NEW hit \in Hits(job.cart, i.variant),
             Goto(r, [op |-> "mergeWrite", on |-> job.on, guest |-> job.guest,
                      cart |-> job.cart, left |-> job.left \ {i}, item |-> i, hit |-> hit,
                      sum |-> QuantityOf(hit) + i.quantity])
      PROVE  Advance(r)
  <2> DEFINE next == [op |-> "mergeWrite", on |-> job.on, guest |-> job.guest,
                      cart |-> job.cart, left |-> job.left \ {i}, item |-> i, hit |-> hit,
                      sum |-> QuantityOf(hit) + i.quantity]
  <2>1. \A l \in hit : Has(line[l], i.variant) /\ QuantityOf(hit) = line[l].quantity
    BY <1>2, HitFacts DEF SInv, Has
  <2>2. (job.left \ {i}) \cup {i} = job.left
    OBVIOUS
  <2>3. ASSUME NEW v \in Variants, Local(r, v)
        PROVE  Knows(next, v, line, CartsOf("user"), cleared[r], Due(v))
    BY <1>4, <2>1, <2>2, <2>3 DEF Knows, Found
  <2>4. next.on \subseteq req[r].on /\ next.op \in Merging
    BY <1>1 DEF Merging
  <2> HIDE DEF next
  <2>5. Goto(r, next)
    BY <1>6 DEF next
  <2> QED BY <1>3, <2>3, <2>4, <2>5, GotoStep
<1> QED BY <1>1, <1>5, <1>6 DEF MergeFindLine

LEMMA CartFailSteps ==
  ASSUME SInv, NEW r \in Requests, CartFail(r), UNCHANGED orderVars
  PROVE  Advance(r)
<1>1. /\ req' = [req EXCEPT ![r] = Idle]
      /\ torn' = (torn \/ req[r].op \in Merging)
      /\ UNCHANGED <<line, wanted, owner, twin, cleared, order, raced>>
  BY DEF CartFail, Goto, orderVars, Merging
<1>2. Idle.on = {} /\ Idle.op \notin Watchful
  BY IdleJob DEF Watchful, Merging, CheckoutOps
<1>3. \A v \in Variants : OrderedUnits(v)' = OrderedUnits(v)
  BY <1>1, SameOrders
<1>4. \A v \in Variants : Knows(Idle, v, line, CartsOf("user"), cleared'[r], Due(v))
  BY <1>2, KnowsNothing
<1> QED BY <1>1, <1>2, <1>3, <1>4, StillStep

LEMMA ReadCartSteps ==
  ASSUME SInv, NEW r \in Requests, ReadCart(r)
  PROVE  Advance(r)
<1>1. PICK c \in CartIds :
        /\ c \in CartsOf("user")
        /\ Begin(r, [op |-> "check", on |-> Variants, items |-> Items(c)])
  BY DEF ReadCart, CartsOf
<1> DEFINE job == [op |-> "check", on |-> Variants, items |-> Items(c)]
<1>2. Begin(r, job) /\ UNCHANGED <<line, wanted, owner, twin, torn, cleared, order>>
  BY <1>1 DEF ReadCart, orderVars
<1>3. ASSUME NEW v \in Variants
      PROVE  Knows(job, v, line, CartsOf("user"), cleared[r], Due(v))
  <2>1. Units(Items(c), v) = Among(line, InCart(line, c), v)
    BY ItemUnits DEF SInv
  <2> QED BY <1>1, <2>1 DEF Knows
<1> HIDE DEF job
<1> QED BY <1>2, <1>3, BeginStep

\* Checkouts hold what they read from the customer's cart.
LEMMA CheckoutKnows ==
  ASSUME NEW r \in Requests, req[r].op \in {"check", "consume", "clear"},
         NEW v \in Variants, Local(r, v)
  PROVE  \E c \in CartsOf("user") : Units(req[r].items, v) = Among(line, InCart(line, c), v)
BY DEF Local, Accurate, Knows

LEMMA CheckSteps ==
  ASSUME SInv, NEW r \in Requests, Check(r)
  PROVE  Advance(r)
<1>1. PICK job \in AllJobs : job = req[r] /\ job.op = "check" /\ Sound(job)
  BY JobAt DEF Check
<1>2. job.items \in SUBSET Item /\ IsFiniteSet(job.items)
  BY <1>1, OrderJobFacts DEF CheckoutOps, Sound
<1> DEFINE priced == Priced(job.items)
           next == [op |-> "consume", on |-> job.on, items |-> priced, left |-> FlashOf(priced)]
<1>3. /\ UNCHANGED <<line, wanted, owner, twin, torn, cleared, order, raced>>
      /\ req[r].op \notin Merging
      /\ Goto(r, next) \/ Goto(r, Idle)
  BY <1>1 DEF Check, Priced, Merging
<1>4. ASSUME NEW v \in Variants, Local(r, v)
      PROVE  Knows(next, v, line, CartsOf("user"), cleared[r], Due(v))
  <2>1. PICK c \in CartsOf("user") : Units(job.items, v) = Among(line, InCart(line, c), v)
    BY <1>1, <1>4, CheckoutKnows
  <2>2. Units(priced, v) = Units(job.items, v)
    BY <1>2, PricedUnits
  <2> HIDE DEF priced
  <2> QED BY <2>1, <2>2 DEF Knows
<1>5. next.on \subseteq req[r].on
  BY <1>1
<1> HIDE DEF next
<1> QED BY <1>3, <1>4, <1>5, IdleStep, GotoStep

LEMMA ConsumeSteps ==
  ASSUME SInv, NEW r \in Requests, Consume(r)
  PROVE  Advance(r)
<1>1. PICK job \in AllJobs : job = req[r] /\ job.op = "consume"
  BY JobAt DEF Consume
<1>2. /\ UNCHANGED <<line, wanted, owner, twin, torn, cleared, order, raced>>
      /\ req[r].op \notin Merging
  BY <1>1 DEF Consume, Merging, orderVars
<1>3. ASSUME NEW next, Goto(r, next), next.op \in {"consume", "clear"}, next.on = job.on,
             next.items = job.items
      PROVE  Advance(r)
  <2>1. ASSUME NEW v \in Variants, Local(r, v)
        PROVE  Knows(next, v, line, CartsOf("user"), cleared[r], Due(v))
    <3>1. PICK c \in CartsOf("user") : Units(job.items, v) = Among(line, InCart(line, c), v)
      BY <1>1, <2>1, CheckoutKnows
    <3> QED BY <1>3, <3>1 DEF Knows
  <2> QED BY <1>1, <1>2, <1>3, <2>1, GotoStep
<1>4. CASE Goto(r, Idle)
  BY <1>2, <1>4, IdleStep
<1>5. ASSUME NEW i, Goto(r, [job EXCEPT !.left = @ \ {i}])
      PROVE  Advance(r)
  <2>1. PICK next : next = [job EXCEPT !.left = @ \ {i}]
    OBVIOUS
  <2>2. next.op = "consume" /\ next.on = job.on /\ next.items = job.items
    BY <1>1, <2>1, LoopRest
  <2> QED BY <1>3, <1>5, <2>1, <2>2
<1>6. CASE Goto(r, [op |-> "clear", on |-> job.on, items |-> job.items])
  BY <1>3, <1>6
<1> QED BY <1>1, <1>4, <1>5, <1>6 DEF Consume

LEMMA FindCartSteps ==
  ASSUME SInv, NEW r \in Requests, FindCart(r)
  PROVE  Advance(r)
<1>1. PICK job \in AllJobs : job = req[r] /\ job.op = "clear"
  BY JobAt DEF FindCart
<1>2. /\ UNCHANGED <<line, wanted, owner, twin, torn, cleared, order, raced>>
      /\ req[r].op \notin Merging
  BY <1>1 DEF FindCart, Merging, orderVars
<1>3. ASSUME NEW c \in CartsOf("user"),
             Goto(r, [op |-> "clearLines", on |-> job.on, items |-> job.items, cart |-> c])
      PROVE  Advance(r)
  <2> DEFINE next == [op |-> "clearLines", on |-> job.on, items |-> job.items, cart |-> c]
  <2>1. ASSUME ~twin, OneCart, NEW v \in Variants, Local(r, v)
        PROVE  Knows(next, v, line, CartsOf("user"), cleared[r], Due(v))
    <3>1. PICK d \in CartsOf("user") : Units(job.items, v) = Among(line, InCart(line, d), v)
      BY <1>1, <2>1, CheckoutKnows
    <3>2. c = d
      BY <1>3, <2>1, <3>1 DEF OneCart, Owners
    <3> QED BY <3>1, <3>2 DEF Knows
  <2>2. next.on \subseteq req[r].on
    BY <1>1
  <2> HIDE DEF next
  <2>3. Goto(r, next)
    BY <1>3 DEF next
  <2> QED BY <1>2, <2>1, <2>2, <2>3, GotoStep
<1>4. CASE CartsOf("user") = {}
           /\ Goto(r, [op |-> "commit", on |-> job.on, items |-> job.items, carts |-> {}])
  <2> DEFINE next == [op |-> "commit", on |-> job.on, items |-> job.items, carts |-> {}]
  <2>1. ASSUME NEW v \in Variants, Local(r, v)
        PROVE  FALSE
    BY <1>1, <1>4, <2>1, CheckoutKnows
  <2>2. next.on \subseteq req[r].on
    BY <1>1
  <2> HIDE DEF next
  <2>3. Goto(r, next)
    BY <1>4 DEF next
  <2> QED BY <1>2, <2>1, <2>2, <2>3, GotoStep
<1> QED BY <1>1, <1>3, <1>4 DEF FindCart

LEMMA ClearLinesSteps ==
  ASSUME SInv, NEW r \in Requests, ClearLines(r)
  PROVE  Advance(r)
<1>1. PICK job \in AllJobs : job = req[r] /\ job.op = "clearLines"
  BY JobAt DEF ClearLines
<1> DEFINE next == [op |-> "commit", on |-> job.on, items |-> job.items, carts |-> {job.cart}]
<1>2. /\ UNCHANGED <<line, wanted, owner, twin, torn, order, raced>>
      /\ req' = [req EXCEPT ![r] = next]
      /\ cleared' = [cleared EXCEPT ![r] = LinesOf(job.cart)]
      /\ req[r].op \notin Merging
  BY <1>1 DEF ClearLines, Merging, orderVars, Goto
<1>3. cleared'[r] = InCart(line, job.cart) /\ \A s \in Requests \ {r} : cleared'[s] = cleared[s]
  BY <1>2 DEF SInv, TypeOK, CartTypeOK, LinesOf, InCart
<1>4. ASSUME NEW v \in Variants, Local(r, v)
      PROVE  Knows(next, v, line, CartsOf("user"), cleared'[r], Due(v))
  <2>1. Units(job.items, v) = Among(line, InCart(line, job.cart), v)
    BY <1>1, <1>4 DEF Local, Accurate, Knows
  <2> QED BY <1>3, <2>1 DEF Knows
<1>5. next.on \subseteq req[r].on
  BY <1>1
<1>6. \A v \in Variants : OrderedUnits(v)' = OrderedUnits(v)
  BY <1>2, SameOrders
<1> HIDE DEF next
<1> QED BY <1>2, <1>3, <1>4, <1>5, <1>6, StillStep

LEMMA DeductStockSteps ==
  ASSUME SInv, NEW r \in Requests, DeductStock(r)
  PROVE  Advance(r)
<1>1. PICK job \in AllJobs : job = req[r] /\ job.op = "deduct"
  BY JobAt DEF DeductStock
<1>2. /\ UNCHANGED <<line, wanted, owner, twin, torn, cleared, order, raced>>
      /\ req[r].op \notin Merging
  BY <1>1 DEF DeductStock, Merging
<1>3. PICK i : Goto(r, IF job.left = {i} THEN Idle ELSE [job EXCEPT !.left = @ \ {i}])
  BY <1>1 DEF DeductStock
<1>4. CASE Goto(r, Idle)
  BY <1>2, <1>4, IdleStep
<1>5. CASE Goto(r, [job EXCEPT !.left = @ \ {i}])
  <2>1. PICK next : next = [job EXCEPT !.left = @ \ {i}]
    OBVIOUS
  <2>2. next.op = "deduct" /\ next.on = job.on
    BY <1>1, <2>1, LoopRest
  <2>3. next.op \notin Watchful
    BY <2>2 DEF Watchful, Merging, CheckoutOps
  <2> QED BY <1>1, <1>2, <1>5, <2>1, <2>2, <2>3, BlindStep
<1> QED BY <1>3, <1>4, <1>5

LEMMA ReadOrderSteps ==
  ASSUME SInv, NEW r \in Requests, NEW o \in Orders, ReadOrder(r, o)
  PROVE  Advance(r)
<1> DEFINE job == [op |-> "cancel", on |-> {}, order |-> o]
<1>1. job.op \notin Watchful
  BY DEF Watchful, Merging, CheckoutOps
<1>2. Begin(r, job) /\ UNCHANGED <<line, wanted, owner, twin, torn, cleared, order>>
  BY DEF ReadOrder, orderVars
<1> HIDE DEF job
<1>3. \A w \in Variants : Knows(job, w, line, CartsOf("user"), cleared[r], Due(w))
  BY <1>1, KnowsNothing
<1> QED BY <1>2, <1>3, BeginStep

\* A cancelled order still counts: its units left the cart.
LEMMA CancelOrderSteps ==
  ASSUME SInv, NEW r \in Requests, CancelOrder(r)
  PROVE  Advance(r)
<1>1. PICK job \in AllJobs : job = req[r] /\ job.op = "cancel" /\ Sound(job)
  BY JobAt DEF CancelOrder
<1>2. job.order \in Orders /\ Placed(job.order)
  BY <1>1, OrderJobFacts DEF Sound
<1> DEFINE is == order[job.order].items
           next == [op |-> "undo", on |-> {}, reverse |-> FlashOf(is), restore |-> is]
<1>3. /\ UNCHANGED <<line, wanted, owner, twin, torn, cleared, raced>>
      /\ req[r].op \notin Merging
      /\ req' = [req EXCEPT ![r] = next]
      /\ order' = [order EXCEPT ![job.order].status = "cancelled"]
  BY <1>1 DEF CancelOrder, Merging, Goto
<1>4. ASSUME NEW v \in Variants
      PROVE  OrderedUnits(v)' = OrderedUnits(v)
  <2>1. ASSUME NEW o \in Orders
        PROVE  PlacedOf(order'[o], v) = PlacedOf(order[o], v)
    <3>1. CASE o # job.order
      <4>1. order'[o] = order[o]
        BY <1>2, <1>3, <3>1 DEF SInv, TypeOK
      <4> QED BY <4>1
    <3>2. CASE o = job.order
      <4>1. order'[o] = [order[o] EXCEPT !.status = "cancelled"]
        BY <1>2, <1>3, <3>2 DEF SInv, TypeOK
      <4>2. order'[o].items = order[o].items /\ order'[o] # NoOrder
        BY <1>2, <3>2, <4>1, OrderFacts
      <4> QED BY <1>2, <3>2, <4>2 DEF PlacedOf, Placed
    <3> QED BY <3>1, <3>2
  <2>2. [o \in Orders |-> PlacedOf(order'[o], v)] = [o \in Orders |-> PlacedOf(order[o], v)]
    BY <2>1
  <2> QED BY <2>2, OrderSumsAre
<1>5. next.on = {} /\ next.op \notin Watchful
  BY DEF Watchful, Merging, CheckoutOps
<1> HIDE DEF next
<1>6. \A v \in Variants : Knows(next, v, line, CartsOf("user"), cleared'[r], Due(v))
  BY <1>5, KnowsNothing
<1> QED BY <1>3, <1>4, <1>5, <1>6, StillStep

LEMMA ReverseFlashSteps ==
  ASSUME SInv, NEW r \in Requests, ReverseFlash(r)
  PROVE  Advance(r)
<1>1. PICK job \in AllJobs : job = req[r] /\ job.op = "undo"
  BY JobAt DEF ReverseFlash
<1>2. /\ UNCHANGED <<line, wanted, owner, twin, torn, cleared, order, raced>>
      /\ req[r].op \notin Merging
  BY <1>1 DEF ReverseFlash, Merging
<1>3. PICK i : Goto(r, [job EXCEPT !.reverse = @ \ {i}])
  BY <1>1 DEF ReverseFlash
<1>4. PICK next : next = [job EXCEPT !.reverse = @ \ {i}]
  OBVIOUS
<1>5. next.op = "undo" /\ next.on = job.on
  BY <1>1, <1>4, LoopRest
<1>6. next.op \notin Watchful
  BY <1>5 DEF Watchful, Merging, CheckoutOps
<1> QED BY <1>1, <1>2, <1>3, <1>4, <1>5, <1>6, BlindStep

LEMMA RestoreStockSteps ==
  ASSUME SInv, NEW r \in Requests, RestoreStock(r)
  PROVE  Advance(r)
<1>1. PICK job \in AllJobs : job = req[r] /\ job.op = "undo"
  BY JobAt DEF RestoreStock
<1>2. /\ UNCHANGED <<line, wanted, owner, twin, torn, cleared, order, raced>>
      /\ req[r].op \notin Merging
  BY <1>1 DEF RestoreStock, Merging, orderVars
<1>3. PICK i : Goto(r, IF job.restore = {i} THEN Idle ELSE [job EXCEPT !.restore = @ \ {i}])
  BY <1>1 DEF RestoreStock
<1>4. CASE Goto(r, Idle)
  BY <1>2, <1>4, IdleStep
<1>5. CASE Goto(r, [job EXCEPT !.restore = @ \ {i}])
  <2>1. PICK next : next = [job EXCEPT !.restore = @ \ {i}]
    OBVIOUS
  <2>2. next.op = "undo" /\ next.on = job.on
    BY <1>1, <2>1, LoopRest
  <2>3. next.op \notin Watchful
    BY <2>2 DEF Watchful, Merging, CheckoutOps
  <2> QED BY <1>1, <1>2, <1>5, <2>1, <2>2, <2>3, BlindStep
<1> QED BY <1>3, <1>4, <1>5

LEMMA FailSteps ==
  ASSUME SInv, NEW r \in Requests, Fail(r)
  PROVE  Advance(r)
<1>1. /\ UNCHANGED <<line, wanted, owner, twin, torn, order, raced>>
      /\ req[r].op \notin Merging
      /\ Goto(r, Idle)
      /\ \A s \in Requests \ {r} : cleared'[s] = cleared[s]
  BY DEF Fail, Merging, InTransaction, SInv, TypeOK, CartTypeOK
<1> QED BY <1>1, IdleStep

-----------------------------------------------------------------------------
(* Steps that write lines or carts.                                          *)

\* A request that works on every variant disturbs no other one.
LEMMA WholeStep ==
  ASSUME SInv, NEW r \in Requests, NEW job, req' = [req EXCEPT ![r] = job],
         req[r].on = Variants, job.on \subseteq Variants, raced' = raced,
         twin => twin', torn => torn', OneCart => OneCart',
         \A s \in Requests \ {r} : cleared'[s] = cleared[s],
         ~twin' /\ ~torn' /\ OneCart => \A v \in Variants : Local(r, v) => Local(r, v)'
  PROVE  Advance(r)
<1>1. req'[r] = job /\ \A s \in Requests \ {r} : req'[s] = req[s]
  BY DEF SInv, TypeOK
<1>2. TakesOn(r)
  BY <1>1 DEF TakesOn
<1> QED BY <1>1, <1>2 DEF Advance

LEMMA CommitSteps ==
  ASSUME SInv, SInv', NEW r \in Requests, Commit(r)
  PROVE  Advance(r)
<1>1. PICK job \in AllJobs : job = req[r] /\ job.op = "commit" /\ Sound(job)
  BY JobAt DEF Commit
<1>2. /\ cleared' = [cleared EXCEPT ![r] = {}]
      /\ UNCHANGED <<wanted, raced, twin, torn>>
      /\ \/ Goto(r, Idle) /\ UNCHANGED <<owner, line, order, sold>>
         \/ Committed(r, job)
  BY <1>1, CommitCases
<1>3. \A s \in Requests \ {r} : cleared'[s] = cleared[s]
  BY <1>2 DEF SInv, TypeOK, CartTypeOK
<1>4. CASE Goto(r, Idle) /\ UNCHANGED <<owner, line, order, sold>>
  <2>1. req[r].op \notin Merging
    BY <1>1 DEF Merging
  <2> QED BY <1>2, <1>3, <1>4, <2>1, IdleStep
<1>5. CASE Committed(r, job)
  <2> DEFINE next == [op |-> "deduct", on |-> {}, left |-> job.items]
  <2>1. PICK id : NewOrders(job.items, id)
    BY <1>5 DEF Committed
  <2>2. job.items \in SUBSET OrderItem /\ IsFiniteSet(job.items) /\ job.on = Variants
    BY <1>1, OrderJobFacts DEF Sound, CheckoutOps
  <2>3. /\ req' = [req EXCEPT ![r] = next]
        /\ line' = [l \in Lines |-> IF l \in cleared[r] THEN NoLine ELSE line[l]]
        /\ owner' = [c \in CartIds |-> IF c \in job.carts THEN "nobody" ELSE owner[c]]
    BY <1>5 DEF Committed, Goto
  <2>4. OneCart => OneCart'
    <3>1. \A o \in Owners : CartsOf(o)' \subseteq CartsOf(o)
      BY <2>3 DEF CartsOf, Owners
    <3> QED BY <1>2, <3>1 DEF OneCart
  <2>5. next.on = {} /\ next.op \notin Watchful
    BY DEF Watchful, Merging, CheckoutOps
  <2>6. req'[r] = next
    BY <2>3 DEF SInv, TypeOK
  <2> HIDE DEF next
  <2>7. ASSUME NEW v \in Variants, Local(r, v)
        PROVE  Local(r, v)'
    <3>1. /\ Among(line, Lines, v) = Due(v)
          /\ Units(job.items, v) = Among(line, cleared[r], v)
      BY <1>1, <2>7 DEF Local, Accurate, Knows, Merging
    <3>2. cleared[r] \in SUBSET Lines /\ line \in Rows
      BY LinesRows DEF SInv, TypeOK, CartTypeOK
    <3>3. Among(line, Lines, v) = Among(line', Lines, v) + Among(line, cleared[r], v)
      BY <2>3, <3>2, AmongDrop
    <3>4. OrderedUnits(v)' = OrderedUnits(v) + Units(job.items, v)
      BY <2>1, <2>2, CommitSums
    <3>5. wanted[v] \in Int /\ OrderedUnits(v) \in Int /\ Units(job.items, v) \in Int
      BY <2>2, OrdersNat, ItemsCounted, UnitsNat DEF SInv, TypeOK, CartTypeOK
    <3>6. Among(line', Lines, v) \in Int
      <4>1. line' \in Rows
        BY DEF SInv, TypeOK, CartTypeOK, Rows
      <4> QED BY <4>1, AmongNat
    <3>7. Due(v) = wanted[v] - OrderedUnits(v) /\ Due(v)' = wanted[v] - OrderedUnits(v)'
      BY <1>2 DEF Due
    <3>8. Among(line', Lines, v) = Due(v)'
      <4>1. Among(line', Lines, v) + Units(job.items, v) = wanted[v] - OrderedUnits(v)
        BY <3>1, <3>3, <3>7
      <4>2. Among(line', Lines, v) = wanted[v] - (OrderedUnits(v) + Units(job.items, v))
        BY <4>1, <3>5, <3>6
      <4> QED BY <4>2, <3>4, <3>7
    <3>9. Accurate(r, v)'
      BY <2>5, <2>6, KnowsNothing DEF Accurate
    <3> QED BY <3>8, <3>9 DEF Local
  <2> QED BY <1>1, <1>2, <1>3, <2>2, <2>3, <2>4, <2>5, <2>7, WholeStep
<1> QED BY <1>2, <1>4, <1>5

LEMMA InsertCartSteps ==
  ASSUME SInv, NEW r \in Requests, NEW job, NEW c \in CartIds, NEW o \in Owners,
         InsertCart(c, o), Goto(r, job), job.on \subseteq req[r].on,
         UNCHANGED <<line, wanted, order, torn, cleared, raced>>,
         job.op \in Merging \/ req[r].op \notin Merging,
         \A v \in Variants, cs \in SUBSET CartIds :
           Local(r, v) => Knows(job, v, line, cs, cleared[r], Due(v))
  PROVE  Advance(r)
<1>1. req'[r] = job /\ \A s \in Requests \ {r} : req'[s] = req[s]
  BY GotoAt
<1>2. owner' = [owner EXCEPT ![c] = o] /\ owner[c] = "nobody" /\ twin' = (twin \/ TwinCart(o))
  BY DEF InsertCart, FreshCart
<1>3. owner \in [CartIds -> Owners \cup {"nobody"}]
  BY DEF SInv, TypeOK, CartTypeOK
<1>4. \A p \in Owners : CartsOf(p) \subseteq CartsOf(p)' /\ CartsOf(p)' \subseteq CartsOf(p) \cup {c}
  BY <1>2, <1>3 DEF CartsOf, Owners
<1>5. CartsOf("user")' \in SUBSET CartIds /\ CartsOf("user") \subseteq CartsOf("user")'
  BY <1>4 DEF CartsOf, Owners
<1>6. \A v \in Variants : Due(v)' = Due(v)
  <2> SUFFICES ASSUME NEW v \in Variants PROVE Due(v)' = Due(v)
    OBVIOUS
  <2>1. OrderedUnits(v)' = OrderedUnits(v)
    BY SameOrders
  <2> QED BY <2>1 DEF Due
<1>7. OneCart => OneCart'
  <2> SUFFICES ASSUME OneCart, ~twin', NEW p \in Owners, NEW d \in CartsOf(p)', NEW e \in CartsOf(p)'
               PROVE  d = e
    BY DEF OneCart
  <2>1. ~twin /\ CartsOf(o) = {}
    BY <1>2 DEF TwinCart
  <2>2. CASE p = o
    BY <1>4, <2>1, <2>2
  <2>3. CASE p # o
    <3>1. CartsOf(p)' = CartsOf(p)
      BY <1>2, <1>3, <2>3 DEF CartsOf, Owners
    <3> QED BY <2>1, <3>1 DEF OneCart
  <2> QED BY <2>2, <2>3
<1>8. ASSUME NEW v \in Variants, Local(r, v)
      PROVE  Local(r, v)'
  <2>1. Knows(job, v, line, CartsOf("user")', cleared[r], Due(v))
    BY <1>5, <1>8
  <2>2. Accurate(r, v)'
    BY <1>1, <1>6, <2>1 DEF Accurate
  <2>3. job.op \notin Merging => Among(line', Lines, v) = Due(v)'
    BY <1>6, <1>8 DEF Local
  <2> QED BY <1>1, <2>2, <2>3 DEF Local
<1>9. ASSUME NEW v \in Variants
      PROVE  Apart(r, v)
  <2>1. Due(v)' = Due(v)
    BY <1>6
  <2> QED BY <1>5, <2>1 DEF Apart
<1>10. TakesOn(r)
  BY <1>1 DEF TakesOn
<1> QED BY <1>1, <1>2, <1>7, <1>8, <1>9, <1>10 DEF Advance

LEMMA AddCreateCartSteps ==
  ASSUME SInv, NEW r \in Requests, NEW c \in CartIds, AddCreateCart(r, c), UNCHANGED orderVars
  PROVE  Advance(r)
<1>1. PICK job \in AllJobs : job = req[r] /\ job.op = "addCreate"
  BY JobAt DEF AddCreateCart
<1> DEFINE next == [op |-> "addLine", on |-> job.on, cart |-> c, variant |-> job.variant,
                    quantity |-> job.quantity, cap |-> job.cap]
<1>2. /\ InsertCart(c, job.owner) /\ Goto(r, next)
      /\ UNCHANGED <<line, wanted, order, torn, cleared, raced>>
      /\ req[r].op \notin Merging
  BY <1>1 DEF AddCreateCart, orderVars, Merging
<1>3. next.op \notin Watchful /\ next.on \subseteq req[r].on
  BY <1>1 DEF Watchful, Merging, CheckoutOps
<1>4. job.owner \in Owners
  BY <1>1, JobFacts
<1> HIDE DEF next
<1>5. \A v \in Variants, cs \in SUBSET CartIds : Knows(next, v, line, cs, cleared[r], Due(v))
  BY <1>3, KnowsNothing
<1> QED BY <1>2, <1>3, <1>4, <1>5, InsertCartSteps

LEMMA MergeCreateUserSteps ==
  ASSUME SInv, NEW r \in Requests, NEW c \in CartIds, MergeCreateUser(r, c), UNCHANGED orderVars
  PROVE  Advance(r)
<1>1. PICK job \in AllJobs : job = req[r] /\ job.op = "mergeCreate"
  BY JobAt DEF MergeCreateUser
<1> DEFINE next == [op |-> "mergeLine", on |-> job.on, guest |-> job.guest,
                    cart |-> c, left |-> job.left]
<1>2. /\ InsertCart(c, "user") /\ Goto(r, next)
      /\ UNCHANGED <<line, wanted, order, torn, cleared, raced>>
      /\ req[r].op \notin Merging
  BY <1>1 DEF MergeCreateUser, orderVars, Merging
<1>3. ASSUME NEW v \in Variants, NEW cs \in SUBSET CartIds, Local(r, v)
      PROVE  Knows(next, v, line, cs, cleared[r], Due(v))
  <2>1. /\ Among(line, Lines, v) = Due(v)
        /\ Units(job.left, v) = Among(line, InCart(line, job.guest), v)
    BY <1>1, <1>2, <1>3 DEF Local, Accurate, Knows
  <2> QED BY <2>1 DEF Knows
<1>4. next.on \subseteq req[r].on
  BY <1>1
<1> HIDE DEF next
<1>5. "user" \in Owners
  BY DEF Owners
<1> QED BY <1>2, <1>3, <1>4, <1>5, InsertCartSteps

LEMMA MergeDropCartSteps ==
  ASSUME SInv, NEW r \in Requests, MergeDropCart(r), UNCHANGED orderVars
  PROVE  Advance(r)
<1>1. PICK job \in AllJobs : job = req[r] /\ job.op = "mergeEnd" /\ Sound(job)
  BY JobAt DEF MergeDropCart
<1>2. /\ UNCHANGED <<line, wanted, order, twin, torn, cleared, raced>>
      /\ req' = [req EXCEPT ![r] = Idle]
      /\ owner' = owner \/ owner' = [owner EXCEPT ![job.guest] = "nobody"]
  BY <1>1 DEF MergeDropCart, orderVars, Goto
<1>3. job.guest \in CartIds /\ job.on = Variants
  BY <1>1, MergeFacts DEF Sound, MergeOps
<1>4. \A o \in Owners : CartsOf(o)' \subseteq CartsOf(o)
  BY <1>2, <1>3 DEF CartsOf, Owners, SInv, TypeOK, CartTypeOK
<1>5. OneCart => OneCart'
  BY <1>2, <1>4 DEF OneCart
<1>6. Idle.on = {} /\ Idle.op \notin Watchful /\ req'[r] = Idle
  BY <1>2, IdleJob DEF Watchful, Merging, CheckoutOps, SInv, TypeOK
<1>7. ASSUME NEW v \in Variants, Local(r, v)
      PROVE  Local(r, v)'
  <2>1. Among(line, Lines, v) = Due(v)
    BY <1>1, <1>7 DEF Local, Merging
  <2>2. OrderedUnits(v)' = OrderedUnits(v)
    BY <1>2, SameOrders
  <2>3. Due(v)' = Due(v)
    BY <1>2, <2>2 DEF Due
  <2>4. Accurate(r, v)'
    BY <1>6, KnowsNothing DEF Accurate
  <2>5. Among(line', Lines, v) = Due(v)'
    BY <1>2, <2>1, <2>3
  <2> QED BY <2>4, <2>5 DEF Local
<1> QED BY <1>1, <1>2, <1>3, <1>5, <1>6, <1>7, WholeStep

LEMMA MergeDropLinesSteps ==
  ASSUME SInv, SInv', NEW r \in Requests, MergeDropLines(r), UNCHANGED orderVars
  PROVE  Advance(r)
<1>1. PICK job \in AllJobs : job = req[r] /\ job.op = "mergeDrop" /\ Sound(job)
  BY JobAt DEF MergeDropLines
<1>2. /\ UNCHANGED <<owner, wanted, order, twin, torn, cleared, raced>>
      /\ req' = [req EXCEPT ![r] = [job EXCEPT !.op = "mergeEnd"]]
      /\ line' = [l \in Lines |-> IF l \in InCart(line, job.guest) THEN NoLine ELSE line[l]]
  BY <1>1 DEF MergeDropLines, orderVars, Goto, InCart
<1>3. job.on = Variants
  BY <1>1 DEF Sound, MergeOps
<1>4. PICK next : next = [job EXCEPT !.op = "mergeEnd"]
  OBVIOUS
<1>5. next.op = "mergeEnd"
  BY <1>1, <1>4, RenamedJob
<1>6. req'[r] = next /\ next.op \notin Watchful
  BY <1>2, <1>4, <1>5 DEF Watchful, Merging, CheckoutOps, SInv, TypeOK
<1>7. next.on \subseteq Variants
  <2>1. next \in AllJobs
    BY <1>1, <1>4, SameJobFields
  <2> QED BY <2>1, JobFacts
<1>8. OneCart => OneCart'
  BY <1>2 DEF OneCart, CartsOf
<1>9. ASSUME NEW v \in Variants, Local(r, v)
      PROVE  Local(r, v)'
  <2>1. Among(line, Lines, v) = Due(v) + Among(line, InCart(line, job.guest), v)
    BY <1>1, <1>9 DEF Local, Accurate, Knows
  <2>2. line \in Rows /\ line' \in Rows /\ InCart(line, job.guest) \in SUBSET Lines
    BY LinesRows DEF SInv, TypeOK, CartTypeOK, Rows, InCart
  <2>3. Among(line, Lines, v) = Among(line', Lines, v) + Among(line, InCart(line, job.guest), v)
    BY <1>2, <2>2, AmongDrop
  <2>4. /\ Among(line, InCart(line, job.guest), v) \in Nat
        /\ Among(line', Lines, v) \in Nat /\ Due(v) \in Int
    BY <2>2, AmongNat, DueInt
  <2>5. Among(line', Lines, v) = Due(v)
    BY <2>1, <2>3, <2>4
  <2>6. OrderedUnits(v)' = OrderedUnits(v)
    BY <1>2, SameOrders
  <2>7. Due(v)' = Due(v)
    BY <1>2, <2>6 DEF Due
  <2>8. Accurate(r, v)'
    BY <1>6, KnowsNothing DEF Accurate
  <2>9. Among(line', Lines, v) = Due(v)'
    BY <2>5, <2>7
  <2> QED BY <2>8, <2>9 DEF Local
<1> QED BY <1>1, <1>2, <1>3, <1>4, <1>6, <1>7, <1>8, <1>9, WholeStep

\* One line changes by as many units as the customer asked for.
LEMMA LineStep ==
  ASSUME SInv, SInv', NEW r \in Requests, NEW k \in Lines, NEW w \in Variants, w \in req[r].on,
         NEW n \in Int, Goto(r, Idle), req[r].op \notin Merging,
         UNCHANGED <<owner, order, torn, cleared, raced>>, twin => twin',
         \A l \in Lines \ {k} : line'[l] = line[l],
         \A v \in Variants \ {w} : ~Has(line[k], v) /\ ~Has(line'[k], v),
         wanted' = [wanted EXCEPT ![w] = @ + n],
         ~twin' /\ Local(r, w) => UnitsAt(line'[k], w) = UnitsAt(line[k], w) + n
  PROVE  Advance(r)
<1>1. /\ req'[r] = Idle /\ \A s \in Requests \ {r} : req'[s] = req[s]
      /\ Idle.on = {} /\ Idle.op \notin Watchful
  BY GotoAt, IdleJob DEF Watchful, Merging, CheckoutOps
<1>2. TakesOn(r)
  BY <1>1 DEF TakesOn
<1>3. OneCart => OneCart'
  BY DEF OneCart, CartsOf
<1>4. wanted \in [Variants -> Int] /\ line \in Rows /\ line' \in Rows
  BY DEF SInv, TypeOK, CartTypeOK, Rows
<1>5. ASSUME NEW v \in Variants
      PROVE  OrderedUnits(v)' = OrderedUnits(v) /\ OrderedUnits(v) \in Int
  BY SameOrders, OrdersNat
<1>6. ASSUME NEW v \in Variants, v # w
      PROVE  /\ \A l \in Lines : line[l] = line'[l] \/ (~Has(line[l], v) /\ ~Has(line'[l], v))
             /\ Due(v)' = Due(v)
  <2>1. wanted'[v] = wanted[v]
    BY <1>4, <1>6
  <2>2. Due(v)' = Due(v)
    BY <1>5, <2>1 DEF Due
  <2> QED BY <1>6, <2>2
<1>7. ASSUME NEW v \in Variants, v \notin req[r].on
      PROVE  Apart(r, v)
  <2>1. CartsOf("user")' = CartsOf("user")
    BY DEF CartsOf
  <2> QED BY <1>6, <1>7, <2>1 DEF Apart
<1>8. ASSUME ~twin', NEW v \in Variants, Local(r, v)
      PROVE  Local(r, v)'
  <2>1. Accurate(r, v)'
    BY <1>1, KnowsNothing DEF Accurate
  <2>2. Among(line, Lines, v) = Due(v)
    BY <1>8 DEF Local
  <2>3. CASE v # w
    <3>1. Among(line, Lines, v) = Among(line', Lines, v)
      BY <1>6, <2>3, AmongSame
    <3>2. Among(line', Lines, v) = Due(v)'
      BY <1>6, <2>2, <2>3, <3>1
    <3> QED BY <2>1, <3>2 DEF Local
  <2>4. CASE v = w
    <3>1. Among(line', Lines, v)
            = Among(line, Lines, v) + UnitsAt(line'[k], v) - UnitsAt(line[k], v)
      BY <1>4, AmongChange
    <3>2. UnitsAt(line[k], v) \in Nat /\ Among(line, Lines, v) \in Nat
      BY <1>4, UnitsAtNat, AmongNat
    <3>3. UnitsAt(line'[k], v) = UnitsAt(line[k], v) + n
      BY <1>8, <2>4
    <3>4. Among(line', Lines, v) = Among(line, Lines, v) + n
      BY <3>1, <3>2, <3>3
    <3>5. wanted'[v] = wanted[v] + n /\ wanted[v] \in Int
      BY <1>4, <2>4
    <3>6. Due(v)' = Due(v) + n
      BY <1>5, <3>5 DEF Due
    <3>7. Among(line', Lines, v) = Due(v)'
      BY <2>2, <3>4, <3>6
    <3> QED BY <2>1, <3>7 DEF Local
  <2> QED BY <2>3, <2>4
<1> QED BY <1>1, <1>2, <1>3, <1>7, <1>8 DEF Advance

\* What an insert or an update of a line does to the units of its variant.
LEMMA InsertedUnits ==
  ASSUME SInv, NEW c \in CartIds, NEW v, NEW n, InsertLine(c, v, n)
  PROVE  \E k \in Lines :
           /\ \A l \in Lines \ {k} : line'[l] = line[l]
           /\ line[k] = NoLine /\ line'[k] = [cart |-> c, variant |-> v, quantity |-> n]
           /\ \A w : w # v => ~Has(line[k], w) /\ ~Has(line'[k], w)
           /\ UnitsAt(line[k], v) = 0 /\ UnitsAt(line'[k], v) = n
<1>1. PICK k \in Lines :
        /\ FreshLine(k)
        /\ line' = [line EXCEPT ![k] = [cart |-> c, variant |-> v, quantity |-> n]]
  BY DEF InsertLine
<1>2. line[k] = NoLine
  BY <1>1 DEF FreshLine
<1>3. /\ \A l \in Lines \ {k} : line'[l] = line[l]
      /\ line'[k] = [cart |-> c, variant |-> v, quantity |-> n]
  BY <1>1 DEF SInv, TypeOK, CartTypeOK
<1>4. line'[k] # NoLine /\ line'[k].variant = v /\ line'[k].quantity = n
  <2>1. line'[k].cart = c /\ NoLine.cart = "none" /\ c # "none"
    BY <1>3, CartAssumption DEF NoLine
  <2> QED BY <1>3, <2>1
<1>5. \A w : w # v => ~Has(line[k], w) /\ ~Has(line'[k], w)
  BY <1>2, <1>4 DEF Has
<1>6. UnitsAt(line[k], v) = 0 /\ UnitsAt(line'[k], v) = n
  BY <1>2, <1>4 DEF Has, UnitsAt
<1> QED BY <1>2, <1>3, <1>5, <1>6

LEMMA UpdatedUnits ==
  ASSUME SInv, NEW k \in Lines, NEW n \in Nat \ {0}, SetQuantity(k, n), UNCHANGED owner, NEW v,
         line[k] # NoLine => line[k].variant = v
  PROVE  /\ \A l \in Lines \ {k} : line'[l] = line[l]
         /\ \A w : w # v => ~Has(line[k], w) /\ ~Has(line'[k], w)
         /\ \A w : Has(line'[k], w) <=> Has(line[k], w)
         /\ UnitsAt(line'[k], v) = IF line[k] = NoLine THEN 0 ELSE n
         /\ \A c \in CartIds : line'[k].cart = c <=> line[k].cart = c
<1>1. /\ \A l \in Lines \ {k} : line'[l] = line[l]
      /\ line[k] = NoLine => line'[k] = NoLine
      /\ line[k] # NoLine => /\ line'[k] # NoLine /\ line'[k].cart = line[k].cart
                             /\ line'[k].variant = line[k].variant
                             /\ line'[k].quantity = n
  BY SetQuantityFacts
<1>2. CASE line[k] = NoLine
  BY <1>1, <1>2 DEF Has, UnitsAt
<1>3. CASE line[k] # NoLine
  BY <1>1, <1>3 DEF Has, UnitsAt
<1> QED BY <1>2, <1>3

LEMMA AddWriteSteps ==
  ASSUME SInv, SInv', NEW r \in Requests, AddWrite(r), UNCHANGED orderVars
  PROVE  Advance(r)
<1>1. PICK job \in AllJobs : job = req[r] /\ job.op = "addWrite" /\ Sound(job)
  BY JobAt DEF AddWrite
<1>2. /\ job.variant \in Variants /\ job.variant \in job.on /\ job.quantity \in Nat \ {0}
      /\ job.cart \in CartIds /\ job.hit \in SUBSET Lines /\ job.sum \in Nat \ {0}
      /\ \A l \in job.hit : line[l] # NoLine => line[l].variant = job.variant
  BY <1>1, JobFacts DEF Sound, AddOps
<1>3. /\ Goto(r, Idle) /\ req[r].op \notin Merging
      /\ UNCHANGED <<owner, order, torn, cleared, raced>>
  BY <1>1 DEF AddWrite, orderVars, Merging
<1>4. ASSUME NEW l \in job.hit, SetQuantity(l, job.sum), UNCHANGED twin,
             wanted' = [wanted EXCEPT ![job.variant] = @ + job.quantity]
      PROVE  Advance(r)
  <2>1. /\ \A k \in Lines \ {l} : line'[k] = line[k]
        /\ \A w : w # job.variant => ~Has(line[l], w) /\ ~Has(line'[l], w)
        /\ UnitsAt(line'[l], job.variant) = IF line[l] = NoLine THEN 0 ELSE job.sum
    <3>1. l \in Lines /\ job.sum \in Nat \ {0} /\ UNCHANGED owner
      BY <1>2, <1>3, <1>4
    <3>2. line[l] # NoLine => line[l].variant = job.variant
      BY <1>2, <1>4
    <3>3. PICK v : v = job.variant
      OBVIOUS
    <3>4. PICK n : n = job.sum
      OBVIOUS
    <3>5. SetQuantity(l, n)
      BY <1>4, <3>4
    <3>6. n \in Nat \ {0} /\ (line[l] # NoLine => line[l].variant = v)
      BY <3>1, <3>2, <3>3, <3>4
    <3>7. \A k \in Lines \ {l} : line'[k] = line[k]
      BY <3>1, <3>5, <3>6, UpdatedUnits
    <3>8. \A w : w # v => ~Has(line[l], w) /\ ~Has(line'[l], w)
      BY <3>1, <3>5, <3>6, UpdatedUnits
    <3>9. UnitsAt(line'[l], v) = IF line[l] = NoLine THEN 0 ELSE n
      BY <3>1, <3>5, <3>6, UpdatedUnits
    <3> QED BY <3>3, <3>4, <3>7, <3>8, <3>9
  <2>2. ASSUME Local(r, job.variant)
        PROVE  UnitsAt(line'[l], job.variant) = UnitsAt(line[l], job.variant) + job.quantity
    <3>1. Has(line[l], job.variant) /\ job.sum = line[l].quantity + job.quantity
      BY <1>1, <1>4, <2>2 DEF Local, Accurate, Knows, Found
    <3> QED BY <2>1, <3>1 DEF Has, UnitsAt
  <2>3. l \in Lines /\ job.quantity \in Int
    BY <1>2, <1>4
  <2> QED BY <1>1, <1>2, <1>3, <1>4, <2>1, <2>2, <2>3, LineStep
<1>5. ASSUME InsertLine(job.cart, job.variant, job.quantity),
             wanted' = [wanted EXCEPT ![job.variant] = @ + job.quantity]
      PROVE  Advance(r)
  <2>1. PICK k \in Lines :
          /\ \A l \in Lines \ {k} : line'[l] = line[l]
          /\ \A w : w # job.variant => ~Has(line[k], w) /\ ~Has(line'[k], w)
          /\ UnitsAt(line[k], job.variant) = 0
          /\ UnitsAt(line'[k], job.variant) = job.quantity
    <3>1. PICK c \in CartIds, v \in Variants, n \in Nat :
            v = job.variant /\ n = job.quantity /\ c = job.cart
      BY <1>2
    <3>2. InsertLine(c, v, n)
      BY <1>5, <3>1
    <3>3. \E k \in Lines :
            /\ \A l \in Lines \ {k} : line'[l] = line[l]
            /\ \A w : w # v => ~Has(line[k], w) /\ ~Has(line'[k], w)
            /\ UnitsAt(line[k], v) = 0 /\ UnitsAt(line'[k], v) = n
      BY <3>2, InsertedUnits
    <3> QED BY <3>1, <3>3
  <2>2. twin => twin'
    BY <1>5 DEF InsertLine
  <2>3. job.quantity \in Int
    BY <1>2
  <2>4. UnitsAt(line'[k], job.variant) = UnitsAt(line[k], job.variant) + job.quantity
    BY <2>1, <2>3
  <2> QED BY <1>1, <1>2, <1>3, <1>5, <2>1, <2>2, <2>3, <2>4, LineStep
<1>6. ASSUME UNCHANGED <<line, wanted, twin>>
      PROVE  Advance(r)
  BY <1>3, <1>6, IdleStep
<1> QED BY <1>1, <1>4, <1>5, <1>6 DEF AddWrite

LEMMA EditWriteSteps ==
  ASSUME SInv, SInv', NEW r \in Requests, EditWrite(r), UNCHANGED orderVars
  PROVE  Advance(r)
<1>1. PICK job \in AllJobs : job = req[r] /\ job.op = "editWrite" /\ Sound(job)
  BY JobAt DEF EditWrite
<1>2. PICK k \in Lines : k = job.line
  BY <1>1, JobFacts
<1>3. job.to \in Nat /\ (line[k] # NoLine => line[k].variant \in job.on)
  BY <1>1, <1>2, JobFacts DEF Sound
<1>4. /\ Goto(r, Idle) /\ req[r].op \notin Merging
      /\ UNCHANGED <<owner, order, torn, cleared, raced, twin>>
  BY <1>1 DEF EditWrite, orderVars, Merging
<1>5. CASE line[k] = NoLine
  <2>1. UNCHANGED <<line, wanted>>
    BY <1>1, <1>2, <1>5 DEF EditWrite
  <2> QED BY <1>4, <2>1, IdleStep
<1>6. CASE line[k] # NoLine
  <2>1. PICK row \in Row : row = line[k]
    BY <1>6, LineFacts DEF SInv
  <2>2. row.variant \in Variants /\ row.quantity \in Nat /\ row # NoLine
    BY <1>6, <2>1 DEF Row
  <2>3. /\ line' = [line EXCEPT ![k] = IF job.to = 0 THEN NoLine
                                       ELSE [row EXCEPT !.quantity = job.to]]
        /\ wanted' = [wanted EXCEPT ![row.variant] = (@ + job.to) - row.quantity]
    BY <1>1, <1>2, <1>6, <2>1 DEF EditWrite, SInv, TypeOK, CartTypeOK
  <2>4. /\ \A l \in Lines \ {k} : line'[l] = line[l]
        /\ line'[k] = IF job.to = 0 THEN NoLine ELSE [row EXCEPT !.quantity = job.to]
    BY <2>3 DEF SInv, TypeOK, CartTypeOK
  <2>5. wanted' = [wanted EXCEPT ![row.variant] = @ + (job.to - row.quantity)]
    <3>1. wanted[row.variant] \in Int
      BY <2>2 DEF SInv, TypeOK, CartTypeOK
    <3>2. (wanted[row.variant] + job.to) - row.quantity
            = wanted[row.variant] + (job.to - row.quantity)
      BY <1>3, <2>2, <3>1
    <3> QED BY <2>3, <3>2
  <2>6. /\ UnitsAt(line'[k], row.variant) = job.to
        /\ \A v : v # row.variant => ~Has(line'[k], v)
    <3>1. CASE job.to = 0
      BY <2>4, <3>1 DEF Has, UnitsAt
    <3>2. CASE job.to # 0
      <4>1. /\ line'[k].variant = row.variant /\ line'[k].quantity = job.to
            /\ line'[k] # NoLine
        BY <1>3, <2>1, <2>4, <3>2, RowWith
      <4> QED BY <4>1 DEF Has, UnitsAt
    <3> QED BY <3>1, <3>2
  <2>7. /\ UnitsAt(line[k], row.variant) = row.quantity
        /\ \A v : v # row.variant => ~Has(line[k], v)
    BY <1>6, <2>1 DEF Has, UnitsAt
  <2>8. UnitsAt(line'[k], row.variant) = UnitsAt(line[k], row.variant) + (job.to - row.quantity)
    BY <1>3, <2>2, <2>6, <2>7
  <2>9. row.variant \in req[r].on /\ job.to - row.quantity \in Int
    BY <1>1, <1>3, <1>6, <2>1, <2>2
  <2> QED BY <1>4, <2>2, <2>4, <2>5, <2>6, <2>7, <2>8, <2>9, LineStep
<1> QED BY <1>5, <1>6

\* A merge copies one item: the units it has still to copy, and those it will drop with
\* the guest's cart, are accounted for.
LEMMA CopyStep ==
  ASSUME SInv, SInv', NEW r \in Requests, NEW job \in AllJobs, job = req[r], job.op = "mergeWrite",
         Sound(job), NEW k \in Lines, NEW i \in Item, i = job.item,
         Goto(r, [op |-> "mergeLine", on |-> job.on, guest |-> job.guest,
                  cart |-> job.cart, left |-> job.left]),
         UNCHANGED <<owner, order, wanted, cleared, raced, torn>>, twin => twin',
         \A l \in Lines \ {k} : line'[l] = line[l],
         line[k].cart # job.guest, line'[k].cart # job.guest,
         \A v \in Variants \ {i.variant} : ~Has(line[k], v) /\ ~Has(line'[k], v),
         Local(r, i.variant) =>
           UnitsAt(line'[k], i.variant) = UnitsAt(line[k], i.variant) + i.quantity
  PROVE  Advance(r)
<1> DEFINE next == [op |-> "mergeLine", on |-> job.on, guest |-> job.guest,
                    cart |-> job.cart, left |-> job.left]
<1>1. /\ job.on = Variants /\ IsFiniteSet(job.left) /\ i \notin job.left
      /\ job.left \in SUBSET Item
  BY MergeFacts DEF Sound, MergeOps
<1>2. /\ req' = [req EXCEPT ![r] = next] /\ req'[r] = next
      /\ next.op = "mergeLine" /\ next.on = Variants /\ next.guest = job.guest
      /\ next.left = job.left
  BY <1>1, GotoAt DEF Goto
<1> HIDE DEF next
<1>3. OneCart => OneCart'
  BY DEF OneCart, CartsOf
<1>4. line \in Rows /\ line' \in Rows
  BY DEF SInv, TypeOK, CartTypeOK, Rows
<1>5. InCart(line', job.guest) = InCart(line, job.guest) /\ k \notin InCart(line, job.guest)
  BY DEF InCart
<1>6. Counted(job.left) /\ i.quantity \in Nat /\ i.variant \in Variants
  BY <1>1, ItemsCounted DEF Item
<1>7. ASSUME NEW v \in Variants, Local(r, v)
      PROVE  Local(r, v)'
  <2> DEFINE gs == InCart(line, job.guest)
  <2>1. /\ Among(line, Lines, v) + Units(job.left \cup {i}, v) = Due(v) + Among(line, gs, v)
    BY <1>7 DEF Local, Accurate, Knows
  <2>2. Units(job.left \cup {i}, v) = Units(job.left, v) + UnitsIn(i, v)
    BY <1>1, <1>6, UnitsAdd
  <2> HIDE DEF gs
  <2>3. Among(line', gs, v) = Among(line, gs, v)
    BY <1>4, <1>5, AmongChange DEF gs
  <2>4. /\ Among(line, Lines, v) \in Nat /\ Among(line, gs, v) \in Nat /\ Due(v) \in Int
        /\ Units(job.left, v) \in Nat
    BY <1>4, <1>6, AmongNat, DueInt, UnitsNat
  <2>5. Among(line', Lines, v) = Among(line, Lines, v) + UnitsIn(i, v)
    <3>1. CASE v = i.variant
      <4>1. Among(line', Lines, v)
              = Among(line, Lines, v) + UnitsAt(line'[k], v) - UnitsAt(line[k], v)
        BY <1>4, AmongChange
      <4>2. UnitsAt(line[k], v) \in Nat
        BY <1>4, UnitsAtNat
      <4>3. UnitsAt(line'[k], v) = UnitsAt(line[k], v) + i.quantity
        BY <1>7, <3>1
      <4>4. UnitsIn(i, v) = i.quantity
        BY <3>1 DEF UnitsIn
      <4> QED BY <1>6, <2>4, <4>1, <4>2, <4>3, <4>4
    <3>2. CASE v # i.variant
      <4>1. Among(line, Lines, v) = Among(line', Lines, v)
        <5>1. \A l \in Lines : line[l] = line'[l] \/ (~Has(line[l], v) /\ ~Has(line'[l], v))
          BY <3>2
        <5> QED BY <5>1, AmongSame
      <4>2. UnitsIn(i, v) = 0
        BY <3>2 DEF UnitsIn
      <4> QED BY <2>4, <4>1, <4>2
    <3> QED BY <3>1, <3>2
  <2>6. UnitsIn(i, v) \in Nat
    BY <1>6 DEF UnitsIn
  <2>7. Among(line', Lines, v) + Units(job.left, v) = Due(v) + Among(line', gs, v)
    BY <2>1, <2>2, <2>3, <2>4, <2>5, <2>6
  <2>8. OrderedUnits(v)' = OrderedUnits(v)
    BY SameOrders
  <2>9. Due(v)' = Due(v)
    BY <2>8 DEF Due
  <2>10. Accurate(r, v)'
    BY <1>2, <1>5, <2>7, <2>9 DEF Accurate, Knows, gs
  <2>11. req'[r].op \in Merging
    BY <1>2 DEF Merging
  <2> QED BY <2>10, <2>11 DEF Local
<1> QED BY <1>1, <1>2, <1>3, <1>7, WholeStep

LEMMA MergeWriteSteps ==
  ASSUME SInv, SInv', NEW r \in Requests, MergeWrite(r), UNCHANGED orderVars
  PROVE  Advance(r)
<1>1. PICK job \in AllJobs : job = req[r] /\ job.op = "mergeWrite" /\ Sound(job)
  BY JobAt DEF MergeWrite
<1>2. PICK i \in Item, c \in CartIds, g \in CartIds, n \in Nat \ {0} :
        i = job.item /\ c = job.cart /\ g = job.guest /\ n = job.sum
  BY <1>1, MergeFacts DEF MergeOps
<1>3. /\ c # g /\ job.hit \in SUBSET Lines
      /\ \A l \in job.hit : line[l] # NoLine => line[l].variant = i.variant /\ line[l].cart = c
  BY <1>1, <1>2, MergeFacts DEF Sound
<1>4. /\ UNCHANGED <<owner, order, wanted, cleared, raced>>
      /\ i.variant \in Variants /\ i.quantity \in Nat /\ NoLine.cart # g
  BY <1>1, <1>2, CartAssumption DEF MergeWrite, orderVars, Item, NoLine
<1> DEFINE next == [op |-> "mergeLine", on |-> job.on, guest |-> job.guest,
                    cart |-> job.cart, left |-> job.left]
<1>5. ASSUME NEW l \in job.hit, SetQuantity(l, job.sum), Goto(r, next), UNCHANGED <<twin, torn>>
      PROVE  Advance(r)
  <2>1. l \in Lines /\ SetQuantity(l, n) /\ (line[l] # NoLine => line[l].variant = i.variant)
    BY <1>2, <1>3, <1>5
  <2>2. PICK w \in Variants : w = i.variant
    BY <1>4
  <2>3. \A m \in Lines \ {l} : line'[m] = line[m]
    BY <1>4, <2>1, <2>2, UpdatedUnits
  <2>4. \A v : v # w => ~Has(line[l], v) /\ ~Has(line'[l], v)
    BY <1>4, <2>1, <2>2, UpdatedUnits
  <2>5. UnitsAt(line'[l], w) = IF line[l] = NoLine THEN 0 ELSE n
    BY <1>4, <2>1, <2>2, UpdatedUnits
  <2>6. line[l].cart # g
    BY <1>3, <1>4, <1>5
  <2>7. line'[l].cart # g
    BY <1>4, <2>1, <2>2, <2>6, UpdatedUnits
  <2>8. ASSUME Local(r, w)
        PROVE  UnitsAt(line'[l], w) = UnitsAt(line[l], w) + i.quantity
    <3>1. Has(line[l], w) /\ n = line[l].quantity + i.quantity
      BY <1>1, <1>2, <1>5, <2>2, <2>8 DEF Local, Accurate, Knows, Found
    <3> QED BY <2>5, <3>1 DEF Has, UnitsAt
  <2> QED BY <1>1, <1>2, <1>4, <1>5, <2>1, <2>2, <2>3, <2>4, <2>6, <2>7, <2>8, CopyStep
<1>6. ASSUME InsertLine(c, i.variant, i.quantity), Goto(r, next), UNCHANGED torn
      PROVE  Advance(r)
  <2>1. PICK w \in Variants, q \in Nat : w = i.variant /\ q = i.quantity
    BY <1>4
  <2>2. InsertLine(c, w, q)
    BY <1>6, <2>1
  <2>3. PICK k \in Lines :
          /\ \A l \in Lines \ {k} : line'[l] = line[l]
          /\ line[k] = NoLine /\ line'[k] = [cart |-> c, variant |-> w, quantity |-> q]
          /\ \A v : v # w => ~Has(line[k], v) /\ ~Has(line'[k], v)
          /\ UnitsAt(line[k], w) = 0 /\ UnitsAt(line'[k], w) = q
    BY <2>2, InsertedUnits
  <2>4. twin => twin'
    BY <2>2 DEF InsertLine
  <2>5. line[k].cart # g /\ line'[k].cart # g
    BY <1>3, <1>4, <2>3
  <2>6. UnitsAt(line'[k], w) = UnitsAt(line[k], w) + q
    BY <2>3
  <2> QED BY <1>1, <1>2, <1>4, <1>6, <2>1, <2>3, <2>4, <2>5, <2>6, CopyStep
<1>7. ASSUME torn', Goto(r, Idle), UNCHANGED <<line, twin>>
      PROVE  Advance(r)
  <2>1. req' = [req EXCEPT ![r] = Idle] /\ Idle.on = {} /\ req[r].on = Variants
    BY <1>1, <1>7, IdleJob DEF Goto, Sound, MergeOps
  <2>2. OneCart => OneCart'
    BY <1>4, <1>7 DEF OneCart, CartsOf
  <2> QED BY <1>4, <1>7, <2>1, <2>2, WholeStep
<1>8. \/ (\E l \in job.hit : SetQuantity(l, job.sum)) /\ Goto(r, next) /\ UNCHANGED <<twin, torn>>
      \/ InsertLine(c, i.variant, i.quantity) /\ Goto(r, next) /\ UNCHANGED torn
      \/ torn' /\ Goto(r, Idle) /\ UNCHANGED <<line, twin>>
  BY <1>1, <1>2 DEF MergeWrite
<1> HIDE DEF next
<1> QED BY <1>5, <1>6, <1>7, <1>8

LEMMA CartStepsAdvance ==
  ASSUME SInv, SInv', NEW r \in Requests, CartStep(r), UNCHANGED orderVars
  PROVE  Advance(r)
BY AddItemSteps, AddFindCartSteps, AddFindLineSteps, AddWriteSteps, EditItemSteps,
   EditFindCartSteps, EditWriteSteps, MergeCartSteps, MergeFindUserSteps, MergeFindLineSteps,
   MergeWriteSteps, MergeDropLinesSteps, MergeDropCartSteps, AddCreateCartSteps,
   MergeCreateUserSteps, CartFailSteps DEF CartStep

LEMMA OrderStepsAdvance ==
  ASSUME SInv, SInv', NEW r \in Requests, OrderStep(r)
  PROVE  Advance(r)
BY ReadCartSteps, CheckSteps, ConsumeSteps, FindCartSteps, ClearLinesSteps, CommitSteps,
   DeductStockSteps, ReadOrderSteps, CancelOrderSteps, ReverseFlashSteps, RestoreStockSteps,
   FailSteps DEF OrderStep

KInv == OneAtWork /\ OneCart /\ AllBalanced

LEMMA KeptStill ==
  ASSUME KInv, UNCHANGED cartVars, \A v \in Variants : OrderedUnits(v)' = OrderedUnits(v)
  PROVE  KInv'
<1>1. OneAtWork'
  BY DEF KInv, OneAtWork, cartVars
<1>2. OneCart'
  BY DEF KInv, OneCart, CartsOf, cartVars
<1>3. ASSUME NEW v \in Variants, Balanced(v)
      PROVE  Balanced(v)'
  <2>1. OrderedUnits(v)' = OrderedUnits(v)
    OBVIOUS
  <2>2. Due(v)' = Due(v)
    BY <2>1 DEF Due, cartVars
  <2>3. CartsOf("user")' = CartsOf("user")
    BY DEF CartsOf, cartVars
  <2>4. req' = req /\ line' = line /\ cleared' = cleared
    BY DEF cartVars
  <2>5. \A r \in Requests : Accurate(r, v)'
    BY <1>3, <2>2, <2>3, <2>4 DEF Accurate, Balanced
  <2>6. ASSUME \A r \in Requests : req'[r].op \notin Merging
        PROVE  Among(line', Lines, v) = Due(v)'
    BY <1>3, <2>2, <2>4, <2>6 DEF Balanced
  <2> QED BY <2>5, <2>6 DEF Balanced
<1>4. AllBalanced'
  BY <1>3 DEF KInv, AllBalanced, cartVars
<1> QED BY <1>1, <1>2, <1>4 DEF KInv

LEMMA KeptNext ==
  ASSUME SInv, SInv', KInv, [Next]_vars
  PROVE  KInv'
<1>1. ASSUME NEW r \in Requests, Advance(r)
      PROVE  KInv'
  BY <1>1, AdvanceKeeps DEF KInv
<1>2. ASSUME NEW v \in Variants, EndSale(v)
      PROVE  KInv'
  <2>1. UNCHANGED cartVars /\ order' = order
    BY <1>2 DEF EndSale
  <2> QED BY <2>1, SameOrders, KeptStill
<1>3. CASE UNCHANGED vars
  <2>1. UNCHANGED cartVars /\ order' = order
    BY <1>3 DEF vars, orderVars
  <2> QED BY <2>1, SameOrders, KeptStill
<1>4. ASSUME NEW o \in Orders, OverwriteCancellation(o)
      PROVE  KInv'
  <2>1. UNCHANGED cartVars
    BY <1>4 DEF OverwriteCancellation
  <2>2. /\ order'[o] # NoOrder /\ order'[o].items = order[o].items /\ Placed(o)
        /\ \A p \in Orders \ {o} : order'[p] = order[p]
    BY <1>4, ReopenFacts
  <2>3. ASSUME NEW v \in Variants
        PROVE  OrderedUnits(v)' = OrderedUnits(v)
    <3>1. \A p \in Orders : PlacedOf(order'[p], v) = PlacedOf(order[p], v)
      BY <2>2 DEF PlacedOf, Placed
    <3>2. [p \in Orders |-> PlacedOf(order'[p], v)] = [p \in Orders |-> PlacedOf(order[p], v)]
      BY <3>1
    <3> QED BY <3>2, OrderSumsAre
  <2> QED BY <2>1, <2>3, KeptStill
<1> QED BY <1>1, <1>2, <1>3, <1>4, CartStepsAdvance, OrderStepsAdvance DEF Next

LEMMA KeptInit == Init => KInv
<1> SUFFICES ASSUME Init PROVE KInv
  OBVIOUS
<1>1. /\ req = [r \in Requests |-> Idle] /\ order = [o \in Orders |-> NoOrder]
      /\ wanted = [v \in Variants |-> CartUnits(v)]
      /\ \A o \in Owners : \A c, d \in CartsOf(o) : c = d
  BY DEF Init, CartInit
<1>2. OneAtWork
  BY <1>1, IdleJob DEF OneAtWork
<1>3. ASSUME NEW v \in Variants
      PROVE  Balanced(v)
  <2> DEFINE f == [o \in Orders |-> 0]
  <2>1. SumFunctionOnSet(f, Orders) = 0
    <3>1. IsFiniteSet(Orders) /\ \A o \in Orders \ {} : f[o] = 0
      BY CheckoutAssumption
    <3> HIDE DEF f
    <3>2. SumFunctionOnSet(f, Orders) = SumFunctionOnSet(f, {})
      BY <3>1, SumZeros
    <3> QED BY <3>2, SumEmpty
  <2>2. [o \in Orders |-> PlacedOf(order[o], v)] = f
    BY <1>1 DEF PlacedOf, NoOrder
  <2>3. OrderedUnits(v) = 0
    BY <2>1, <2>2, OrderSumsAre
  <2>4. Among(line, Lines, v) = wanted[v] /\ Among(line, Lines, v) \in Nat
    <3>1. line \in Rows
      BY InitInv, LinesRows
    <3> QED BY <1>1, <3>1, CartSums, AmongNat
  <2>5. Among(line, Lines, v) = Due(v)
    BY <2>3, <2>4 DEF Due
  <2>6. \A r \in Requests : req[r] = Idle /\ Idle.op \notin Watchful
    BY <1>1, IdleJob DEF Watchful, Merging, CheckoutOps
  <2>7. \A r \in Requests : Accurate(r, v)
    BY <2>6, KnowsNothing DEF Accurate
  <2> QED BY <2>5, <2>7 DEF Balanced
<1> QED BY <1>1, <1>2, <1>3 DEF KInv, OneCart, AllBalanced

\* What the customer put into his carts is there or ordered, and once: checkouts and merges
\* that fail lose none of it, as long as no other request touches the same units and
\* neither a second cart nor a second line comes to be.
THEOREM CartIsAlwaysKept == Spec => []CartIsKept
<1>1. SInv /\ KInv => CartIsKept
  <2> SUFFICES ASSUME SInv, KInv, NEW v \in Variants \ raced, ~twin, ~torn,
                      \A r \in Requests : req[r].op \notin Merging
               PROVE  CartUnits(v) + OrderedUnits(v) = wanted[v]
    BY DEF CartIsKept, Merging
  <2>1. Among(line, Lines, v) = Due(v)
    BY DEF KInv, AllBalanced, Balanced
  <2>2. CartUnits(v) = wanted[v] - OrderedUnits(v)
    BY <2>1, CartSums DEF Due
  <2>3. wanted[v] \in Int /\ OrderedUnits(v) \in Int
    BY OrdersNat DEF SInv, TypeOK, CartTypeOK
  <2> QED BY <2>2, <2>3
<1>2. Init => KInv
  BY KeptInit
<1>3. SInv /\ SInv' /\ KInv /\ [Next]_vars => KInv'
  BY KeptNext
<1>4. IInv => SInv
  BY DEF IInv
<1> QED BY <1>1, <1>2, <1>3, <1>4, Invariance, PTL DEF Spec

-----------------------------------------------------------------------------
(* The distribution of a checkout's discounts: arithmetic. *)

LEMMA LeastFacts ==
  ASSUME NEW m \in Int, NEW n \in Int
  PROVE  /\ Least(m, n) \in Int /\ Least(m, n) <= m /\ Least(m, n) <= n
         /\ Least(m, n) = m \/ Least(m, n) = n
         /\ m \in Nat /\ n \in Nat => Least(m, n) \in Nat
BY DEF Least

\* A quotient is the largest number of divisors that fit.
LEMMA DivFacts ==
  ASSUME NEW a \in Nat, NEW b \in Nat \ {0}
  PROVE  /\ a \div b \in Nat
         /\ b * (a \div b) <= a
         /\ \A q \in Nat : b * q <= a => q <= a \div b
<1>1. /\ a \div b \in Int /\ a = b * (a \div b) + (a % b) /\ 0 <= a % b /\ a % b < b
  OBVIOUS
<1> DEFINE d == a \div b
           m == a % b
<1>2. d \in Int /\ m \in Int /\ a = b * d + m /\ 0 <= m /\ m < b
  BY <1>1
<1> HIDE DEF d, m
<1>3. d >= 0
  <2> SUFFICES ASSUME d <= -1 PROVE FALSE
    BY <1>2
  <2>1. b * d <= -b
    BY <1>2
  <2> QED BY <1>2, <2>1
<1>4. ASSUME NEW q \in Nat, b * q <= a PROVE q <= d
  <2> SUFFICES ASSUME q >= d + 1 PROVE FALSE
    BY <1>2
  <2>1. b * q >= b * (d + 1) /\ b * (d + 1) = b * d + b
    BY <1>2
  <2>2. b * d \in Int /\ b * q \in Int
    BY <1>2
  <2> QED BY <1>2, <1>4, <2>1, <2>2
<1>5. d \in Nat /\ b * d <= a
  <2>1. b * d \in Int
    BY <1>2
  <2> QED BY <1>2, <1>3, <2>1
<1> QED BY <1>4, <1>5 DEF d

\* Sharing among fewer gives no less.
LEMMA DivMonotone ==
  ASSUME NEW a \in Nat, NEW b \in Nat \ {0}, NEW c \in Nat \ {0}, b <= c
  PROVE  a \div c <= a \div b
<1> DEFINE q == a \div c
<1>1. q \in Nat /\ c * q <= a
  BY DivFacts
<1> HIDE DEF q
<1>2. b * q <= c * q /\ b * q \in Nat /\ c * q \in Nat
  BY <1>1
<1>3. b * q <= a
  BY <1>1, <1>2
<1>4. \A p \in Nat : b * p <= a => p <= a \div b
  BY DivFacts
<1> QED BY <1>1, <1>3, <1>4 DEF q

-----------------------------------------------------------------------------
(* The inductive invariant. *)

PlatformCaps == [s \in Shops |-> PlatformCap(cart, s)]

\* No shop is given more than its room, nor all shops together more than asked.
WithinCaps == \A s \in Shops : given[s] <= cap[s]
WithinTarget == Sum(given) <= Target

\* A shop without weight has no room, so the open shops are all that have any.
RoomHasWeight == \A s \in Shops : cap[s] <= weight[s]

\* What the rooms are, in the two passes.
Rooms ==
  /\ stage = "platform" => cap = PlatformCaps /\ share = None
  /\ stage # "platform" =>
       \A s \in Shops : Own(s) + share[s] <= cart.items[s] /\ cap[s] = Headroom(s)

\* Every round but the last closes a shop.
RoundsLeft ==
  /\ rounds <= Cardinality(Shops)
  /\ Remaining > 0 => rounds + Cardinality(Open) <= Cardinality(Shops)
  /\ rounds = 0 => given = None

AllocationInv ==
  /\ AllocationTypeOK /\ cart \in Carts
  /\ WithinCaps /\ WithinTarget /\ RoomHasWeight /\ Rooms /\ RoundsLeft
  /\ NothingLost /\ FairShare

LEMMA CartFacts ==
  ASSUME NEW c \in Cart
  PROVE  /\ \A s \in Shops : c.items[s] \in Nat /\ c.applicable[s] \in Nat /\ c.own[s] \in Nat
         /\ c.items \in [Shops -> Nat] /\ c.applicable \in [Shops -> Nat]
         /\ c.platform \in Nat /\ c.coins \in Nat
BY DEF Cart

LEMMA PlatformCapFacts ==
  ASSUME NEW c \in Carts, NEW s \in Shops
  PROVE  /\ PlatformCap(c, s) \in Nat
         /\ PlatformCap(c, s) <= c.applicable[s]
         /\ PlatformCap(c, s) + Least(c.own[s], c.items[s]) <= c.items[s]
<1>1. c.items[s] \in Nat /\ c.applicable[s] \in Nat /\ c.own[s] \in Nat
  BY CartFacts, AllocationAssumption
<1> QED BY <1>1 DEF PlatformCap, Least

LEMMA SumOfAmounts ==
  ASSUME NEW f \in Amounts
  PROVE  Sum(f) \in Nat
BY SumNat, AllocationAssumption DEF Sum, Amounts

LEMMA SumOfNone == Sum(None) = 0
<1>1. None \in Amounts /\ \A s \in Shops : None[s] = 0
  BY DEF None, Amounts
<1>2. /\ \A x \in {} : None[x] \in Int
      /\ \A x \in Shops \ {} : None[x] = 0
  BY <1>1
<1>3. SumFunctionOnSet(None, Shops) = SumFunctionOnSet(None, {})
  BY <1>2, SumZeros, AllocationAssumption
<1> QED BY <1>3, SumEmpty DEF Sum

LEMMA TargetFacts ==
  ASSUME AllocationTypeOK
  PROVE  /\ Target \in Nat /\ Target <= Sum(cap)
         /\ Sum(given) \in Nat /\ Sum(cap) \in Nat
         /\ Remaining \in Int
         /\ Sum(given) <= Target => Remaining \in Nat
<1>1. Sum(given) \in Nat /\ Sum(cap) \in Nat
  BY SumOfAmounts DEF AllocationTypeOK
<1>2. cart.platform \in Nat /\ cart.coins \in Nat
  BY CartFacts DEF AllocationTypeOK
<1>3. Target \in Nat /\ Target <= Sum(cap)
  BY <1>1, <1>2 DEF Target, Least
<1> QED BY <1>1, <1>3 DEF Remaining

LEMMA OpenFacts ==
  ASSUME AllocationTypeOK
  PROVE  /\ Open \in SUBSET Shops /\ IsFiniteSet(Open) /\ IsFiniteSet(Shops)
         /\ Cardinality(Open) \in Nat /\ Cardinality(Shops) \in Nat
         /\ Cardinality(Open) <= Cardinality(Shops)
         /\ Open # {} => Cardinality(Open) > 0
         /\ \A s \in Open : weight[s] \in Nat \ {0}
<1>1. Open \in SUBSET Shops
  BY DEF Open
<1>2. IsFiniteSet(Shops)
  BY AllocationAssumption
<1>3. IsFiniteSet(Open) /\ Cardinality(Open) <= Cardinality(Shops)
  BY <1>1, <1>2, FS_Subset
<1>4. Cardinality(Open) \in Nat /\ Cardinality(Shops) \in Nat
  BY <1>2, <1>3, FS_CardinalityType
<1>5. Open # {} => Cardinality(Open) # 0
  BY <1>3, FS_EmptySet
<1>6. \A s \in Open : weight[s] \in Nat \ {0}
  BY DEF Open, AllocationTypeOK, Amounts
<1> QED BY <1>1, <1>2, <1>3, <1>4, <1>5, <1>6

LEMMA AllocationInitInv == AllocationInit => AllocationInv
<1> SUFFICES ASSUME AllocationInit PROVE AllocationInv
  OBVIOUS
<1>1. cart \in Cart /\ cart \in Carts
  BY AllocationAssumption DEF AllocationInit
<1>2. \A s \in Shops : PlatformCap(cart, s) \in Nat
  BY <1>1, PlatformCapFacts
<1>3. AllocationTypeOK
  BY <1>1, <1>2, CartFacts DEF AllocationInit, AllocationTypeOK, Amounts, None
<1>4. /\ given = None /\ share = None /\ weight = cart.applicable /\ cap = PlatformCaps
      /\ stage = "platform" /\ rounds = 0
  BY DEF AllocationInit, PlatformCaps
<1>5. WithinCaps /\ RoomHasWeight
  BY <1>1, <1>2, <1>4, PlatformCapFacts DEF WithinCaps, RoomHasWeight, PlatformCaps, None
<1>6. WithinTarget
  BY <1>3, <1>4, TargetFacts, SumOfNone DEF WithinTarget
<1>7. RoundsLeft
  BY <1>3, <1>4, OpenFacts DEF RoundsLeft
<1> QED BY <1>1, <1>3, <1>4, <1>5, <1>6, <1>7
        DEF AllocationInv, Rooms, NothingLost, FairShare

-----------------------------------------------------------------------------
(* A round. *)

\* What a round adds to a shop before its room is looked at, and what it gives it.
Part(bumped, s) == Floor(s) + (IF s \in bumped THEN 1 ELSE 0)
Gets(bumped, s) == Least(Part(bumped, s), cap[s] - given[s])

LEMMA RoundFacts ==
  ASSUME AllocationTypeOK, WithinTarget, Pouring
  PROVE  /\ TotalWeight \in Nat \ {0} /\ TotalWeight <= Sum(weight) /\ Sum(weight) \in Nat
         /\ Remaining \in Nat
         /\ \A s \in Open : Floor(s) \in Nat
<1>1. Remaining \in Nat
  BY TargetFacts DEF WithinTarget
<1>2. /\ Open # {} /\ Open \in SUBSET Shops /\ IsFiniteSet(Open) /\ IsFiniteSet(Shops)
      /\ \A s \in Open : weight[s] \in Nat \ {0}
  BY OpenFacts DEF Pouring
<1>3. \A s \in Shops : weight[s] \in Nat
  BY DEF AllocationTypeOK, Amounts
<1>4. TotalWeight \in Nat /\ \A s \in Open : weight[s] <= TotalWeight
  BY <1>2, SumNat DEF TotalWeight
<1>5. TotalWeight \in Nat \ {0}
  BY <1>2, <1>4
<1>6. TotalWeight <= Sum(weight)
  <2> DEFINE f == [s \in Shops |-> IF s \in Open THEN weight[s] ELSE 0]
  <2>1. /\ \A s \in Shops : f[s] \in Int /\ weight[s] \in Int /\ f[s] <= weight[s]
        /\ \A s \in Open : f[s] = weight[s] /\ f[s] \in Int
        /\ \A s \in Shops \ Open : f[s] = 0
    BY <1>2, <1>3
  <2> HIDE DEF f
  <2>2. SumFunctionOnSet(f, Shops) <= SumFunctionOnSet(weight, Shops)
    BY <1>2, <2>1, SumMonotone
  <2>3. SumFunctionOnSet(f, Shops) = SumFunctionOnSet(f, Open)
    BY <1>2, <2>1, SumZeros
  <2>4. SumFunctionOnSet(f, Open) = SumFunctionOnSet(weight, Open)
    BY <1>2, <2>1, SumSame
  <2> QED BY <2>2, <2>3, <2>4 DEF TotalWeight, Sum
<1>7. Sum(weight) \in Nat
  BY SumOfAmounts DEF AllocationTypeOK
<1>8. ASSUME NEW s \in Open PROVE Floor(s) \in Nat
  <2>1. Remaining * weight[s] \in Nat
    BY <1>1, <1>2
  <2> QED BY <1>5, <2>1, DivFacts DEF Floor
<1> QED BY <1>1, <1>5, <1>6, <1>7, <1>8

\* The parts of a round add up to what remains.
LEMMA PartsAddUp ==
  ASSUME AllocationTypeOK, WithinTarget, Pouring, NEW bumped, LargestRemainders(bumped)
  PROVE  /\ SumFunctionOnSet([s \in Open |-> Part(bumped, s)], Open) = Remaining
         /\ \A s \in Open : Part(bumped, s) \in Nat
<1> DEFINE f == [s \in Open |-> Floor(s)]
           g == [s \in Open |-> IF s \in bumped THEN 1 ELSE 0]
           h == [s \in Open |-> Part(bumped, s)]
<1>1. IsFiniteSet(Open) /\ Remaining \in Nat /\ \A s \in Open : Floor(s) \in Nat
  BY OpenFacts, RoundFacts
<1>2. bumped \in SUBSET Open /\ Cardinality(bumped) = Remaining - SumFunctionOnSet(f, Open)
  BY DEF LargestRemainders, Leftover
<1>3. SumFunctionOnSet(g, Open) = Cardinality(bumped)
  BY <1>1, <1>2, SumCount
<1>4. \A s \in Open : f[s] \in Nat /\ g[s] \in Int /\ h[s] = f[s] + g[s] /\ h[s] \in Nat
  BY <1>1 DEF Part
<1>5. \A s \in Open : Part(bumped, s) \in Nat
  BY <1>1 DEF Part
<1> HIDE DEF f, g, h
<1>6. \A s \in Open : f[s] \in Int /\ g[s] \in Int /\ h[s] = f[s] + g[s]
  BY <1>4
<1>7. SumFunctionOnSet(h, Open) = SumFunctionOnSet(f, Open) + SumFunctionOnSet(g, Open)
  BY <1>1, <1>6, SumPlus
<1>8. SumFunctionOnSet(f, Open) \in Nat
  BY <1>1, <1>4, SumNat
<1> QED BY <1>1, <1>2, <1>3, <1>5, <1>7, <1>8 DEF h

\* What a round does to each shop.
LEMMA RoundEffect ==
  ASSUME AllocationTypeOK, WithinTarget, WithinCaps, Round
  PROVE  \E bumped :
           /\ Pouring /\ LargestRemainders(bumped)
           /\ given' \in Amounts
           /\ \A s \in Open : /\ Part(bumped, s) \in Nat
                              /\ Gets(bumped, s) \in Nat
                              /\ given'[s] = given[s] + Gets(bumped, s)
           /\ \A s \in Shops \ Open : given'[s] = given[s]
           /\ \A s \in Shops : given[s] <= given'[s] /\ given'[s] <= cap[s]
           /\ rounds' = rounds + 1
           /\ UNCHANGED <<cart, stage, weight, cap, share>>
<1>1. PICK bumped :
        /\ LargestRemainders(bumped)
        /\ given' = [s \in Shops |->
             IF s \in Open
             THEN given[s] + Least(Floor(s) + (IF s \in bumped THEN 1 ELSE 0), cap[s] - given[s])
             ELSE given[s]]
  BY DEF Round
<1>2. /\ Pouring /\ rounds' = rounds + 1
      /\ UNCHANGED <<cart, stage, weight, cap, share>>
  BY DEF Round
<1>3. \A s \in Open : Part(bumped, s) \in Nat
  BY <1>1, <1>2, PartsAddUp
<1>4. \A s \in Shops : given[s] \in Nat /\ cap[s] \in Nat /\ given[s] <= cap[s]
  BY DEF AllocationTypeOK, Amounts, WithinCaps
<1>5. Open \in SUBSET Shops
  BY OpenFacts
<1>6. \A s \in Open : Gets(bumped, s) \in Nat /\ Gets(bumped, s) <= cap[s] - given[s]
  BY <1>3, <1>4, <1>5 DEF Gets, Least
<1>7. /\ \A s \in Open : given'[s] = given[s] + Gets(bumped, s)
      /\ \A s \in Shops \ Open : given'[s] = given[s]
      /\ DOMAIN given' = Shops
  BY <1>1, <1>5 DEF Gets, Part
<1>8. \A s \in Shops : given'[s] \in Nat /\ given[s] <= given'[s] /\ given'[s] <= cap[s]
  BY <1>4, <1>6, <1>7
<1>9. given' \in Amounts
  <2>1. given' = [s \in Shops |-> given'[s]]
    BY <1>1
  <2> QED BY <1>8, <2>1 DEF Amounts
<1> QED BY <1>1, <1>2, <1>3, <1>6, <1>7, <1>8, <1>9

\* A round adds at most what remains, and exactly that unless it fills a shop.
LEMMA RoundSum ==
  ASSUME AllocationTypeOK, WithinTarget, WithinCaps, Round
  PROVE  /\ Sum(given') <= Target
         /\ Sum(given') < Target => \E s \in Open : given'[s] = cap[s]
<1>1. PICK bumped :
           /\ Pouring /\ LargestRemainders(bumped)
           /\ given' \in Amounts
           /\ \A s \in Open : /\ Part(bumped, s) \in Nat
                              /\ Gets(bumped, s) \in Nat
                              /\ given'[s] = given[s] + Gets(bumped, s)
           /\ \A s \in Shops \ Open : given'[s] = given[s]
  BY RoundEffect
<1> DEFINE part == [s \in Open |-> Part(bumped, s)]
           took == [s \in Shops |-> IF s \in Open THEN Gets(bumped, s) ELSE 0]
<1>2. /\ Open \in SUBSET Shops /\ IsFiniteSet(Open) /\ IsFiniteSet(Shops)
      /\ \A s \in Shops : given[s] \in Nat /\ cap[s] \in Nat
      /\ \A s \in Open : given[s] < cap[s]
  BY OpenFacts DEF AllocationTypeOK, Amounts, Open
<1>3. /\ \A s \in Open : took[s] = Gets(bumped, s) /\ part[s] = Part(bumped, s)
      /\ \A s \in Shops \ Open : took[s] = 0
      /\ \A s \in Shops : took[s] \in Nat
  BY <1>1, <1>2
<1>4. \A s \in Shops : given'[s] = given[s] + took[s]
  BY <1>1, <1>2
<1>5. SumFunctionOnSet(part, Open) = Remaining
  BY <1>1, PartsAddUp
<1> HIDE DEF part, took
<1>6. \A s \in Open : /\ took[s] \in Int /\ part[s] \in Int /\ took[s] <= part[s]
                      /\ took[s] # part[s] => given'[s] = cap[s]
  BY <1>1, <1>2, <1>3, <1>4 DEF Gets, Least
<1>7. SumFunctionOnSet(given', Shops) = SumFunctionOnSet(given, Shops) + SumFunctionOnSet(took, Shops)
  BY <1>2, <1>3, <1>4, SumPlus
<1>8. SumFunctionOnSet(took, Shops) = SumFunctionOnSet(took, Open)
  BY <1>2, <1>3, <1>6, SumZeros
<1>9. /\ SumFunctionOnSet(took, Open) <= SumFunctionOnSet(part, Open)
      /\ SumFunctionOnSet(took, Open) = SumFunctionOnSet(part, Open) => \A s \in Open : took[s] = part[s]
  BY <1>2, <1>6, SumMonotone
<1>10. SumFunctionOnSet(took, Open) \in Int
  BY <1>2, <1>6, SumType
<1>11. Remaining = Target - SumFunctionOnSet(given, Shops)
  BY DEF Remaining, Sum
<1>12. Target \in Nat /\ SumFunctionOnSet(given, Shops) \in Nat
  BY TargetFacts DEF Sum
<1>13. SumFunctionOnSet(took, Open) <= Remaining /\ Remaining \in Int
  BY <1>5, <1>9, <1>11, <1>12
<1>14. SumFunctionOnSet(given', Shops) <= Target
  BY <1>7, <1>8, <1>10, <1>11, <1>12, <1>13
<1>15. ASSUME SumFunctionOnSet(given', Shops) < Target
       PROVE  \E s \in Open : given'[s] = cap[s]
  <2> SUFFICES ASSUME \A s \in Open : took[s] = part[s] PROVE FALSE
    BY <1>6
  <2>1. SumFunctionOnSet(took, Open) = SumFunctionOnSet(part, Open)
    BY <1>2, <1>6, SumSame
  <2> QED BY <1>5, <1>7, <1>8, <1>11, <1>12, <1>15, <2>1
<1> QED BY <1>14, <1>15 DEF Sum

LEMMA TargetSame ==
  ASSUME UNCHANGED <<cart, stage, cap>>
  PROVE  Target' = Target
BY DEF Target, Sum

LEMMA RoundRoundsLeft ==
  ASSUME AllocationInv, Round
  PROVE  RoundsLeft'
<1>1. PICK bumped : /\ Pouring
                    /\ given' \in Amounts
                    /\ \A s \in Shops : given[s] <= given'[s] /\ given'[s] <= cap[s]
                    /\ rounds' = rounds + 1
                    /\ UNCHANGED <<cart, stage, weight, cap, share>>
  BY RoundEffect DEF AllocationInv
<1>2. /\ rounds \in Nat /\ Remaining > 0
      /\ rounds + Cardinality(Open) <= Cardinality(Shops)
      /\ Cardinality(Open) \in Nat /\ Cardinality(Open) > 0 /\ Cardinality(Shops) \in Nat
  BY <1>1, OpenFacts DEF AllocationInv, RoundsLeft, Pouring, AllocationTypeOK
<1>3. Open' \in SUBSET Open /\ IsFiniteSet(Open)
  <2>1. \A s \in Shops : given[s] \in Nat /\ given'[s] \in Nat /\ cap[s] \in Nat
    BY <1>1 DEF AllocationInv, AllocationTypeOK, Amounts
  <2>2. \A s \in Open' : s \in Open
    BY <1>1, <2>1 DEF Open
  <2> QED BY <2>2, OpenFacts DEF AllocationInv
<1>4. ASSUME Remaining' > 0
      PROVE  rounds' + Cardinality(Open') <= Cardinality(Shops)
  <2>1. Remaining' = Target - Sum(given')
    BY <1>1, TargetSame DEF Remaining, Sum
  <2>2. Sum(given') \in Nat /\ Target \in Nat
    BY <1>1, SumOfAmounts, TargetFacts DEF AllocationInv
  <2>3. Sum(given') < Target
    BY <1>4, <2>1, <2>2
  <2>4. PICK s \in Open : given'[s] = cap[s]
    BY <2>3, RoundSum DEF AllocationInv
  <2>5. cap[s] \in Nat
    BY OpenFacts DEF AllocationInv, AllocationTypeOK, Amounts
  <2>6. s \notin Open'
    BY <1>1, <2>4, <2>5 DEF Open
  <2>7. Cardinality(Open') < Cardinality(Open) /\ Cardinality(Open') \in Nat
    BY <1>3, <2>4, <2>6, FS_Subset, FS_CardinalityType
  <2> QED BY <1>1, <1>2, <2>7
<1>5. rounds' <= Cardinality(Shops) /\ rounds' # 0
  BY <1>1, <1>2
<1> QED BY <1>4, <1>5 DEF RoundsLeft

\* In the first round every open shop gets its part, rounded down, of the whole;
\* later rounds take nothing back.
LEMMA RoundFairShare ==
  ASSUME AllocationInv, Round
  PROVE  FairShare'
<1>1. PICK bumped : /\ Pouring
                    /\ \A s \in Open : /\ Part(bumped, s) \in Nat
                                       /\ given'[s] = given[s] + Gets(bumped, s)
                    /\ \A s \in Shops \ Open : given'[s] = given[s]
                    /\ given' \in Amounts
                    /\ \A s \in Shops : given[s] <= given'[s] /\ given'[s] <= cap[s]
                    /\ UNCHANGED <<cart, stage, weight, cap, share>>
  BY RoundEffect DEF AllocationInv
<1>2. Target' = Target /\ Sum(weight)' = Sum(weight)
  BY <1>1, TargetSame DEF Sum
<1>3. \A s \in Shops : /\ given[s] \in Nat /\ given'[s] \in Nat
                       /\ cap[s] \in Nat /\ weight[s] \in Nat /\ cap[s] <= weight[s]
  BY <1>1 DEF AllocationInv, AllocationTypeOK, Amounts, RoomHasWeight
<1>4. /\ TotalWeight \in Nat \ {0} /\ TotalWeight <= Sum(weight) /\ Sum(weight) \in Nat
      /\ \A s \in Open : Floor(s) \in Nat
  BY <1>1, RoundFacts DEF AllocationInv
<1> SUFFICES ASSUME NEW s \in Shops, given'[s] < cap[s]
             PROVE  given'[s] >= (Target * weight[s]) \div Sum(weight)
  BY <1>1, <1>2 DEF FairShare
<1>5. Target \in Nat
  BY TargetFacts DEF AllocationInv
<1> DEFINE whole == Target * weight[s]
<1>6. whole \in Nat
  BY <1>3, <1>5
<1>7. CASE rounds = 0
  <2>1. given = None /\ Remaining = Target
    <3>1. given = None
      BY <1>7 DEF AllocationInv, RoundsLeft
    <3> QED BY <1>5, <3>1, SumOfNone DEF Remaining
  <2>2. s \in Open
    <3>1. given[s] = 0 /\ cap[s] > 0
      BY <1>3, <2>1 DEF None
    <3> QED BY <1>3, <3>1 DEF Open
  <2>3. Floor(s) = whole \div TotalWeight /\ Floor(s) \in Nat
    BY <1>4, <2>1, <2>2 DEF Floor
  <2> HIDE DEF whole
  <2>4. whole \div Sum(weight) <= Floor(s) /\ whole \div Sum(weight) \in Nat
    <3>1. Sum(weight) \in Nat \ {0}
      BY <1>4
    <3> QED BY <1>4, <1>6, <2>3, <3>1, DivMonotone, DivFacts
  <2>5. given'[s] = Part(bumped, s)
    <3>1. given[s] = 0 /\ given'[s] = 0 + Gets(bumped, s) /\ Part(bumped, s) \in Nat
      BY <1>1, <2>1, <2>2 DEF None
    <3>2. Gets(bumped, s) = Least(Part(bumped, s), cap[s]) /\ cap[s] \in Nat
      BY <1>3, <3>1 DEF Gets
    <3>3. /\ Least(Part(bumped, s), cap[s]) \in Int
          /\ \/ Least(Part(bumped, s), cap[s]) = Part(bumped, s)
             \/ Least(Part(bumped, s), cap[s]) = cap[s]
      BY <3>1, <3>2 DEF Least
    <3>4. given'[s] = Least(Part(bumped, s), cap[s])
      BY <3>1, <3>2, <3>3
    <3> QED BY <1>3, <3>2, <3>3, <3>4
  <2>6. Floor(s) <= Part(bumped, s)
    BY <2>3 DEF Part
  <2>7. whole \div Sum(weight) <= given'[s]
    BY <1>3, <2>3, <2>4, <2>5, <2>6
  <2> QED BY <2>7 DEF whole
<1>8. CASE rounds # 0
  <2>1. rounds > 0
    BY <1>8 DEF AllocationInv, AllocationTypeOK
  <2>2. given[s] < cap[s]
    BY <1>1, <1>3
  <2>3. given[s] >= whole \div Sum(weight)
    BY <2>1, <2>2 DEF AllocationInv, FairShare
  <2>4. whole \div Sum(weight) \in Nat
    <3>1. Sum(weight) \in Nat \ {0}
      BY <1>4
    <3> HIDE DEF whole
    <3> QED BY <1>6, <3>1, DivFacts
  <2> QED BY <1>1, <1>3, <2>3, <2>4
<1> QED BY <1>7, <1>8

LEMMA RoundInv == AllocationInv /\ Round => AllocationInv'
<1> SUFFICES ASSUME AllocationInv, Round PROVE AllocationInv'
  OBVIOUS
<1>1. PICK bumped : /\ given' \in Amounts
                    /\ \A s \in Shops : given[s] <= given'[s] /\ given'[s] <= cap[s]
                    /\ rounds' = rounds + 1
                    /\ UNCHANGED <<cart, stage, weight, cap, share>>
  BY RoundEffect DEF AllocationInv
<1>2. stage # "done"
  BY DEF Round
<1>3. AllocationTypeOK' /\ cart' \in Carts
  BY <1>1 DEF AllocationInv, AllocationTypeOK
<1>4. WithinCaps' /\ RoomHasWeight'
  BY <1>1 DEF AllocationInv, WithinCaps, RoomHasWeight
<1>5. WithinTarget'
  BY <1>1, RoundSum, TargetSame DEF AllocationInv, WithinTarget, Sum
<1>6. Rooms'
  BY <1>1 DEF AllocationInv, Rooms, PlatformCaps, PlatformCap, Own, Headroom, Discount
<1>7. NothingLost'
  BY <1>1, <1>2 DEF AllocationInv, NothingLost, Sum, PlatformCap
<1> QED BY <1>3, <1>4, <1>5, <1>6, <1>7, RoundRoundsLeft, RoundFairShare DEF AllocationInv

-----------------------------------------------------------------------------
(* A pass that has ended. *)

\* It ended because nothing remains, or because no shop has room; never because
\* the loop's guard ran out.
LEMMA PassComplete ==
  ASSUME AllocationInv, ~Pouring
  PROVE  Sum(given) = Target
<1>1. /\ Remaining \in Nat /\ Target \in Nat /\ Target <= Sum(cap)
      /\ Sum(given) \in Nat /\ Sum(cap) \in Nat
  BY TargetFacts DEF AllocationInv, WithinTarget
<1>2. CASE Remaining = 0
  BY <1>1, <1>2 DEF Remaining
<1>3. CASE Remaining > 0
  <2>1. rounds < Cardinality(Shops) + 2
    BY <1>3, OpenFacts DEF AllocationInv, AllocationTypeOK, RoundsLeft
  <2>2. Open = {}
    BY <1>3, <2>1 DEF Pouring
  <2>3. \A s \in Shops : given[s] \in Nat /\ cap[s] \in Nat /\ weight[s] \in Nat
    BY DEF AllocationInv, AllocationTypeOK, Amounts
  <2>4. \A s \in Shops : given[s] = cap[s]
    BY <2>2, <2>3 DEF AllocationInv, WithinCaps, RoomHasWeight, Open
  <2>5. Sum(given) = Sum(cap)
    BY <2>3, <2>4, SumSame, AllocationAssumption DEF Sum
  <2> QED BY <1>1, <2>5 DEF Remaining
<1> QED BY <1>1, <1>2, <1>3

LEMMA DistributeInv == AllocationInv /\ DistributeCoins => AllocationInv'
<1> SUFFICES ASSUME AllocationInv, DistributeCoins PROVE AllocationInv'
  OBVIOUS
<1>1. /\ stage = "platform" /\ stage' = "coins" /\ share' = given /\ given' = None
      /\ weight' = [s \in Shops |-> (cart.items[s] - Own(s) - given[s]) \div Minor]
      /\ cap' = weight' /\ rounds' = 0 /\ cart' = cart /\ ~Pouring
  BY DEF DistributeCoins
<1>2. cart \in Carts /\ cart \in Cart
  BY DEF AllocationInv, AllocationTypeOK
<1>3. \A s \in Shops :
        /\ cart.items[s] \in Nat /\ cart.own[s] \in Nat /\ given[s] \in Nat
        /\ Own(s) \in Nat /\ Own(s) + given[s] <= cart.items[s]
        /\ (cart.items[s] - Own(s) - given[s]) \div Minor \in Nat
  <2> SUFFICES ASSUME NEW s \in Shops
               PROVE  /\ cart.items[s] \in Nat /\ cart.own[s] \in Nat /\ given[s] \in Nat
                      /\ Own(s) \in Nat /\ Own(s) + given[s] <= cart.items[s]
                      /\ (cart.items[s] - Own(s) - given[s]) \div Minor \in Nat
    OBVIOUS
  <2>1. cart.items[s] \in Nat /\ cart.own[s] \in Nat /\ given[s] \in Nat
    BY <1>2, CartFacts DEF AllocationInv, AllocationTypeOK, Amounts
  <2>2. Own(s) \in Nat
    BY <2>1 DEF Own, Least
  <2>3. cap[s] = PlatformCap(cart, s) /\ given[s] <= cap[s]
    BY <1>1 DEF AllocationInv, Rooms, PlatformCaps, WithinCaps
  <2>4. PlatformCap(cart, s) \in Nat /\ PlatformCap(cart, s) + Own(s) <= cart.items[s]
    BY <1>2, PlatformCapFacts DEF Own
  <2>5. Own(s) + given[s] <= cart.items[s]
    BY <2>1, <2>2, <2>3, <2>4
  <2>6. cart.items[s] - Own(s) - given[s] \in Nat
    BY <2>1, <2>2, <2>5
  <2>7. (cart.items[s] - Own(s) - given[s]) \div Minor \in Nat
    BY <2>6, DivFacts, AllocationAssumption
  <2> QED BY <2>1, <2>2, <2>5, <2>7
<1>4. AllocationTypeOK' /\ cart' \in Carts
  BY <1>1, <1>2, <1>3 DEF AllocationInv, AllocationTypeOK, Amounts, None
<1>5. WithinCaps' /\ RoomHasWeight'
  BY <1>1, <1>3 DEF WithinCaps, RoomHasWeight, None
<1>6. WithinTarget'
  <2>1. Sum(given)' = 0
    BY <1>1, SumOfNone DEF Sum
  <2>2. Target' \in Nat
    <3>1. cart.coins \in Nat
      BY <1>2, CartFacts
    <3>2. Sum(cap') \in Nat
      BY <1>4, SumOfAmounts DEF AllocationTypeOK
    <3>3. Target' = Least(cart.coins, Sum(cap'))
      BY <1>1 DEF Target, Sum
    <3> QED BY <3>1, <3>2, <3>3, LeastFacts
  <2> QED BY <2>1, <2>2 DEF WithinTarget
<1>7. Rooms'
  <2>1. \A s \in Shops : Own(s)' = Own(s) /\ Headroom(s)' = (cart.items[s] - (Own(s) + given[s])) \div Minor
    BY <1>1 DEF Own, Headroom, Discount
  <2>2. \A s \in Shops : cart.items[s] - (Own(s) + given[s]) = cart.items[s] - Own(s) - given[s]
    BY <1>3
  <2> QED BY <1>1, <1>3, <2>1, <2>2 DEF Rooms
<1>8. RoundsLeft'
  <2>1. Open' \in SUBSET Shops
    BY DEF Open
  <2>2. IsFiniteSet(Shops) /\ Cardinality(Open') <= Cardinality(Shops)
    BY <2>1, FS_Subset, AllocationAssumption
  <2>3. 0 <= Cardinality(Shops)
    BY <2>2, FS_CardinalityType
  <2>4. Cardinality(Open') \in Nat
    BY <2>1, <2>2, FS_Subset, FS_CardinalityType
  <2> QED BY <1>1, <2>2, <2>3, <2>4 DEF RoundsLeft
<1>9. NothingLost'
  <2>1. Sum(given) = Target
    BY <1>1, PassComplete
  <2>2. Target = Least(cart.platform, Sum(PlatformCaps))
    BY <1>1 DEF Target, AllocationInv, Rooms
  <2> QED BY <1>1, <2>1, <2>2 DEF NothingLost, Sum, PlatformCaps, PlatformCap
<1>10. FairShare'
  BY <1>1 DEF FairShare
<1> QED BY <1>4, <1>5, <1>6, <1>7, <1>8, <1>9, <1>10 DEF AllocationInv

LEMMA FinishInv == AllocationInv /\ Finish => AllocationInv'
<1> SUFFICES ASSUME AllocationInv, Finish PROVE AllocationInv'
  OBVIOUS
<1>1. /\ stage = "coins" /\ stage' = "done" /\ ~Pouring
      /\ UNCHANGED <<cart, weight, cap, given, rounds, share>>
  BY DEF Finish
<1>2. Target' = Target
  BY <1>1 DEF Target, Sum
<1>3. AllocationTypeOK' /\ cart' \in Carts
  BY <1>1 DEF AllocationInv, AllocationTypeOK
<1>4. WithinCaps' /\ RoomHasWeight'
  BY <1>1 DEF AllocationInv, WithinCaps, RoomHasWeight
<1>5. WithinTarget'
  BY <1>1, <1>2 DEF AllocationInv, WithinTarget, Sum
<1>6. Rooms'
  BY <1>1 DEF AllocationInv, Rooms, Own, Headroom, Discount
<1>7. RoundsLeft'
  BY <1>1, <1>2 DEF AllocationInv, RoundsLeft, Remaining, Open, Sum
<1>8. FairShare'
  BY <1>1, <1>2 DEF AllocationInv, FairShare, Sum
<1>9. NothingLost'
  <2>1. Sum(given) = Least(cart.coins, Sum(cap))
    BY <1>1, PassComplete DEF Target
  <2> QED BY <1>1, <2>1 DEF AllocationInv, NothingLost, Sum, PlatformCap
<1> QED BY <1>3, <1>4, <1>5, <1>6, <1>7, <1>8, <1>9 DEF AllocationInv

-----------------------------------------------------------------------------
(* The theorems. *)

THEOREM AllocationInvariance == AllocationSpec => []AllocationInv
<1>1. AllocationInv /\ [AllocationNext]_allocationVars => AllocationInv'
  <2> SUFFICES ASSUME AllocationInv, UNCHANGED allocationVars PROVE AllocationInv'
    BY RoundInv, DistributeInv, FinishInv DEF AllocationNext
  <2>1. Target' = Target
    BY DEF allocationVars, Target, Sum
  <2>2. AllocationTypeOK' /\ cart' \in Carts
    BY DEF allocationVars, AllocationInv, AllocationTypeOK
  <2>3. WithinCaps' /\ RoomHasWeight' /\ WithinTarget'
    BY <2>1 DEF allocationVars, AllocationInv, WithinCaps, RoomHasWeight, WithinTarget, Sum
  <2>4. Rooms'
    BY DEF allocationVars, AllocationInv, Rooms, PlatformCaps, PlatformCap, Own, Headroom, Discount
  <2>5. RoundsLeft'
    BY <2>1 DEF allocationVars, AllocationInv, RoundsLeft, Remaining, Open, Sum
  <2>6. NothingLost' /\ FairShare'
    BY <2>1 DEF allocationVars, AllocationInv, NothingLost, FairShare, Sum, PlatformCap
  <2> QED BY <2>2, <2>3, <2>4, <2>5, <2>6 DEF AllocationInv
<1> QED BY <1>1, AllocationInitInv, PTL DEF AllocationSpec

\* Amounts stay natural numbers through every rounding and every cap.
THEOREM AllocationTypeCorrect == AllocationSpec => []AllocationTypeOK
BY AllocationInvariance, PTL DEF AllocationInv

\* For any number of shops and any amounts, no sub-order is discounted below zero.
THEOREM TotalsNotNegative == AllocationSpec => []NoNegativeTotal
<1>1. AllocationInv => NoNegativeTotal
  <2> SUFFICES ASSUME AllocationInv, NEW s \in Shops
               PROVE  IF stage = "platform" THEN Own(s) + given[s] <= cart.items[s]
                                            ELSE Discount(s) + Minor * given[s] <= cart.items[s]
    BY DEF NoNegativeTotal
  <2>1. /\ cart \in Carts /\ cart \in Cart
        /\ cart.items[s] \in Nat /\ cart.own[s] \in Nat /\ given[s] \in Nat /\ share[s] \in Nat
        /\ given[s] <= cap[s]
    BY CartFacts DEF AllocationInv, AllocationTypeOK, Amounts, WithinCaps
  <2>2. Own(s) \in Nat
    BY <2>1 DEF Own, Least
  <2>3. CASE stage = "platform"
    <3>1. cap[s] = PlatformCap(cart, s)
      BY <2>3 DEF AllocationInv, Rooms, PlatformCaps
    <3>2. PlatformCap(cart, s) \in Nat /\ PlatformCap(cart, s) + Own(s) <= cart.items[s]
      BY <2>1, PlatformCapFacts DEF Own
    <3> QED BY <2>1, <2>2, <2>3, <3>1, <3>2
  <2>4. CASE stage # "platform"
    <3>1. PICK left \in Nat : left = cart.items[s] - Discount(s)
      BY <2>1, <2>2, <2>4 DEF AllocationInv, Rooms, Discount
    <3>2. given[s] <= left \div Minor /\ Minor \in Nat \ {0}
      BY <2>1, <2>4, <3>1, AllocationAssumption DEF AllocationInv, Rooms, Headroom
    <3>3. PICK q \in Nat : q = left \div Minor /\ Minor * q <= left
      BY <3>1, <3>2, DivFacts
    <3>4. Minor * given[s] <= Minor * q /\ Minor * given[s] \in Nat /\ Minor * q \in Nat
      BY <2>1, <3>2, <3>3
    <3>5. Discount(s) \in Nat
      BY <2>1, <2>2 DEF Discount
    <3> QED BY <2>1, <2>4, <3>1, <3>3, <3>4, <3>5
  <2> QED BY <2>3, <2>4
<1> QED BY <1>1, AllocationInvariance, PTL

\* No minor unit of a discount is lost: largest remainders, the caps and the
\* guard of the loop together always pour out all that there is room for.
THEOREM DiscountsPouredOut == AllocationSpec => []NothingLost
BY AllocationInvariance, PTL DEF AllocationInv

\* A pass needs no more rounds than there are shops.
THEOREM RoundsAreBounded == AllocationSpec => []RoundsBounded
BY AllocationInvariance, PTL DEF AllocationInv, RoundsLeft, RoundsBounded

\* A shop whose cap did not bind has at least its proportional part.
THEOREM SharesAreFair == AllocationSpec => []FairShare
BY AllocationInvariance, PTL DEF AllocationInv

=============================================================================
