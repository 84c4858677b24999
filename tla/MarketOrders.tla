---------------------------- MODULE MarketOrders ----------------------------
(***************************************************************************)
(* The orders of the marketplace (дз_2): create_order, update_order and    *)
(* cancel_order of main.py, statement by statement, on PostgreSQL at READ  *)
(* COMMITTED.  The product rows are locked (FOR UPDATE); the order, the    *)
(* promo code and the list of operations are read without a lock and       *)
(* written from what was read, when the session is flushed and committed.  *)
(*                                                                         *)
(* FastAPI runs the handlers on threads, each with a session of its own.   *)
(* A handler here serves one request; the order a creation makes has the   *)
(* name of its handler.  There is one promo code.  Amounts of money are    *)
(* left out: whether an order reaches the minimum of the promo code, and   *)
(* whether the code is active today, is a choice.                          *)
(***************************************************************************)
EXTENDS Integers, FiniteSets, FiniteSetsExt

CONSTANTS
  User, Admin, Product,
  Creator, Changer,  \* handlers of POST /orders; of PUT and cancel
  Baskets,           \* what a request may ask for: quantities of the products
  InitialStock, Listed,  \* the products that exist at first
  MaxUses,           \* max_uses of the promo code
  MaxSupply,         \* bounds what a seller puts on sale
  MaxChanges,        \* bounds the changes sellers make
  MaxRequests,       \* bounds the requests that are served
  Free               \* the holder of a lock nobody holds

Handler == Creator \union Changer

ASSUME MarketAssumption ==
  /\ Admin \subseteq User
  /\ IsFiniteSet(Handler) /\ Creator \intersect Changer = {}
  /\ Baskets \subseteq [Product -> Nat]
  /\ InitialStock \in [Product -> Nat]
  /\ MaxUses \in Nat \ {0} /\ MaxSupply \in Nat /\ MaxChanges \in Nat
  /\ MaxRequests \in Nat
  /\ Free \notin Handler

VARIABLES
  status, stock,   \* of the products
  productLock,     \* holder of the row lock on a product
  order, uses,     \* the orders; current_uses of the promo code
  recent,          \* operations younger than order_rate_limit_minutes
  pc, req, tx,     \* per handler: next statement, request, what the session holds
  changes,         \* number of changes sellers have made
  supplied,        \* history: the units sellers have put on sale
  disputed,        \* history: products of orders that changed under a handler
  promoDisputed,   \* history: a handler has written uses from an outdated row
  doneBefore       \* history: the requests done before a handler began

products == <<status, stock, supplied, changes>>
history == <<disputed, promoDisputed>>
committed == <<products, order, uses, recent, history>>
vars == <<committed, productLock, pc, req, tx, doneBefore>>

NoOrder == [status |-> "NONE"]
NoRequest == [op |-> "none"]
NoWrite == [written |-> FALSE]

\* A session that has read nothing.
Fresh == [promo |-> FALSE, items |-> {}, stock |-> <<>>, uses |-> NoWrite, drop |-> FALSE]

\* order_items of an order are the lists its requests wrote, each with its author.
List(h, items) == [by |-> h, items |-> items]
Quantity(lists, p) == MapThenSumSet(LAMBDA l : l.items[p], lists)

Op(h) == req[h].op
OrderOf(h) == IF Op(h) = "create" THEN h ELSE req[h].order
Wanted(h, p) == IF Op(h) = "cancel" THEN 0 ELSE req[h].items[p]
UsesPromo(h) == IF Op(h) = "create" THEN req[h].promo ELSE tx[h].promo

Running(h) == pc[h] \notin {"none", "done"}

Init ==
  /\ status = [p \in Product |-> IF p \in Listed THEN "ACTIVE" ELSE "NONE"]
  /\ stock = [p \in Product |-> IF p \in Listed THEN InitialStock[p] ELSE 0]
  /\ supplied = stock
  /\ productLock = [p \in Product |-> Free]
  /\ order = [o \in Creator |-> NoOrder]
  /\ uses = 0
  /\ recent = {}
  /\ pc = [h \in Handler |-> "none"]
  /\ req = [h \in Handler |-> NoRequest]
  /\ tx = [h \in Handler |-> Fresh]
  /\ changes = 0
  /\ disputed = {}
  /\ promoDisputed = FALSE
  /\ doneBefore = [h \in Handler |-> {}]

-----------------------------------------------------------------------------
(* Requests *)

Goto(h, step) == pc' = [pc EXCEPT ![h] = step]

Begin(h, r) ==
  /\ pc[h] = "none"
  /\ Cardinality({g \in Handler : pc[g] # "none"}) < MaxRequests
  /\ Goto(h, IF r.op = "create" THEN "rate" ELSE "load")
  /\ req' = [req EXCEPT ![h] = r]
  /\ doneBefore' = [doneBefore EXCEPT ![h] = {g \in Handler : pc[g] = "done"}]
  /\ UNCHANGED <<committed, productLock, tx>>

\* The session is closed: the row locks go, and what it held is forgotten.
Close(h) ==
  /\ Goto(h, "done")
  /\ productLock' = [p \in Product |-> IF productLock[p] = h THEN Free ELSE productLock[p]]
  /\ tx' = [tx EXCEPT ![h] = Fresh]
  /\ UNCHANGED <<req, doneBefore>>

\* An ApiError: everything is rolled back.
Refuse(h) == Close(h) /\ UNCHANGED committed

\* A statement fails (a deadlock PostgreSQL breaks included) or the process dies.
Abort(h) == Running(h) /\ Refuse(h)

\* The request goes on and has changed nothing but what its session holds.
Continue(h, step, session) ==
  /\ Goto(h, step)
  /\ tx' = [tx EXCEPT ![h] = session]
  /\ UNCHANGED <<committed, productLock, req, doneBefore>>

-----------------------------------------------------------------------------
(* The statements that read without a lock. *)

\* SELECT of the order, its owner and its status.
LoadOrder(h) ==
  LET o == order[OrderOf(h)] IN
  /\ pc[h] = "load"
  /\ \/ o = NoOrder /\ Refuse(h)
     \/ /\ o # NoOrder
        /\ req[h].user \notin Admin \union {o.user} \/ o.status # "CREATED"
        /\ Refuse(h)
     \/ /\ o # NoOrder
        /\ req[h].user \in Admin \union {o.user}
        /\ o.status = "CREATED"
        /\ Continue(h, IF Op(h) = "update" THEN "rate" ELSE "items",
                    [tx[h] EXCEPT !.promo = o.promo])

RateLimited(h) == \E x \in recent : x.user = req[h].user /\ x.op = Op(h)

CheckRateLimit(h) ==
  /\ pc[h] = "rate"
  /\ \/ RateLimited(h) /\ Refuse(h)
     \/ /\ ~RateLimited(h)
        /\ Continue(h, IF Op(h) = "create" THEN "active" ELSE "items", tx[h])

\* Mutant: only orders that wait for a payment count.
HasPending(u) == \E o \in Creator : order[o] # NoOrder /\ order[o].user = u /\ order[o].status = "PAYMENT_PENDING"
HasActive(u) == \E o \in Creator : order[o] # NoOrder /\ order[o].user = u /\ order[o].status = "CREATED"

CheckActive(h) ==
  /\ pc[h] = "active"
  /\ \/ HasActive(req[h].user) /\ Refuse(h)
     \/ ~HasActive(req[h].user) /\ Continue(h, "lock", tx[h])

\* order.items is loaded when it is first used.
LoadItems(h) ==
  /\ pc[h] = "items"
  /\ Continue(h, "lock", [tx[h] EXCEPT !.items = order[OrderOf(h)].items])

-----------------------------------------------------------------------------
(* The products are locked, then checked and changed in the session. *)

InStock(h, p) == stock[p] + Quantity(tx[h].items, p)

Available(h) ==
  \A p \in Product : Wanted(h, p) > 0 => status[p] = "ACTIVE" /\ InStock(h, p) >= Wanted(h, p)

\* The rows SELECT ... FOR UPDATE finds.
Rows(h) ==
  {p \in Product : status[p] # "NONE" /\ Wanted(h, p) + Quantity(tx[h].items, p) > 0}

TakeProducts(h) ==
  /\ Goto(h, IF UsesPromo(h) THEN "promo" ELSE "commit")
  /\ tx' = [tx EXCEPT ![h].stock = [p \in Rows(h) |-> InStock(h, p) - Wanted(h, p)]]
  /\ UNCHANGED <<committed, req, doneBefore>>

\* Mutant: without FOR UPDATE.
ReadProducts(h) ==
  /\ pc[h] = "lock"
  /\ \/ ~Available(h) /\ Refuse(h)
     \/ Available(h) /\ TakeProducts(h) /\ UNCHANGED productLock

\* The rows are locked one by one.  A locked row does not change, so it is the
\* same as locking them together, except for deadlocks, and they are Aborts.
LockProducts(h) ==
  /\ pc[h] = "lock"
  /\ \A p \in Rows(h) : productLock[p] = Free
  /\ \/ ~Available(h) /\ Refuse(h)
     \/ /\ Available(h)
        /\ productLock' = [p \in Product |-> IF p \in Rows(h) THEN h ELSE productLock[p]]
        /\ TakeProducts(h)

-----------------------------------------------------------------------------
(* The promo code is read without a lock. *)

WriteUses(h, n, drop) ==
  Continue(h, "commit",
    [tx[h] EXCEPT !.uses = [written |-> TRUE, from |-> uses, to |-> n], !.drop = drop])

GiveUseBack(h, drop) ==
  \/ uses > 0 /\ WriteUses(h, uses - 1, drop)
  \/ uses = 0 /\ Continue(h, "commit", [tx[h] EXCEPT !.drop = drop])

\* Inactive, out of its dates, below the minimum of a new order, or unknown.
PromoInvalid(h) == Op(h) \in {"create", "update"} /\ Refuse(h)
\* Mutant: one use too many.
PromoOvertaken(h) == Op(h) = "create" /\ uses <= MaxUses /\ WriteUses(h, uses + 1, FALSE)
PromoTaken(h) == Op(h) = "create" /\ uses < MaxUses /\ WriteUses(h, uses + 1, FALSE)
PromoKept(h) == Op(h) = "update" /\ Continue(h, "commit", tx[h])
PromoDropped(h) == Op(h) = "update" /\ GiveUseBack(h, TRUE)
PromoReturned(h) == Op(h) = "cancel" /\ GiveUseBack(h, FALSE)

\* Mutant: an order that falls below the minimum keeps its use of the code.
ReadPromoLeak(h) ==
  /\ pc[h] = "promo"
  /\ \/ PromoInvalid(h) \/ PromoTaken(h) \/ PromoKept(h) \/ PromoReturned(h)
     \/ Op(h) = "update" /\ Continue(h, "commit", [tx[h] EXCEPT !.drop = TRUE])
ReadPromo(h) ==
  /\ pc[h] = "promo"
  /\ \/ PromoInvalid(h) \/ PromoTaken(h) \/ PromoKept(h) \/ PromoDropped(h)
     \/ PromoReturned(h)

-----------------------------------------------------------------------------
(* Flush and commit.  The session writes the columns it has changed. *)

CreatedOrder(h) ==
  [status |-> "CREATED", user |-> req[h].user, promo |-> req[h].promo,
   items |-> {List(h, req[h].items)}]

\* Mutant: update_order writes the status it has read, too.
UpdatedAndReopened(h) ==
  [order[OrderOf(h)] EXCEPT
     !.items = (@ \ tx[h].items) \union {List(h, req[h].items)},
     !.promo = @ /\ ~tx[h].drop,
     !.status = "CREATED"]

\* The lists that were read are deleted, and a new one is inserted.
UpdatedOrder(h) ==
  [order[OrderOf(h)] EXCEPT
     !.items = (@ \ tx[h].items) \union {List(h, req[h].items)},
     !.promo = @ /\ ~tx[h].drop]

Written(h) ==
  CASE Op(h) = "create" -> CreatedOrder(h)
    [] Op(h) = "update" -> UpdatedOrder(h)
    [] Op(h) = "cancel" -> [order[OrderOf(h)] EXCEPT !.status = "CANCELED"]

Recorded(h) == IF Op(h) = "cancel" THEN {} ELSE {[user |-> req[h].user, op |-> Op(h), by |-> h]}

\* The order is no longer what the session has read.
ItemsOutdated(h) ==
  LET o == order[OrderOf(h)] IN
  Op(h) # "create" /\ (o.status # "CREATED" \/ o.items # tx[h].items)
PromoOutdated(h) ==
  \/ tx[h].uses.written /\ tx[h].uses.from # uses
  \/ Op(h) # "create" /\ tx[h].promo
       /\ (ItemsOutdated(h) \/ ~order[OrderOf(h)].promo)

Touched(h) ==
  {p \in Product : p \in DOMAIN tx[h].stock \/ Quantity(order[OrderOf(h)].items, p) > 0}

Commit(h) ==
  /\ pc[h] = "commit"
  /\ order' = [order EXCEPT ![OrderOf(h)] = Written(h)]
  /\ stock' = [p \in Product |-> IF p \in DOMAIN tx[h].stock THEN tx[h].stock[p] ELSE stock[p]]
  /\ uses' = IF tx[h].uses.written THEN tx[h].uses.to ELSE uses
  /\ recent' = recent \union Recorded(h)
  /\ disputed' = disputed \union IF ItemsOutdated(h) THEN Touched(h) ELSE {}
  /\ promoDisputed' = (promoDisputed \/ PromoOutdated(h))
  /\ Close(h)
  /\ UNCHANGED <<status, supplied, changes>>

-----------------------------------------------------------------------------
(* Time, and the sellers. *)

\* order_rate_limit_minutes have passed since an operation.
WindowPasses(x) ==
  /\ recent' = recent \ {x}
  /\ UNCHANGED <<products, order, uses, history, productLock, pc, req, tx, doneBefore>>

\* create_product, update_product and delete_product: one UPDATE or INSERT, which
\* waits for the lock of the row.
ChangeProduct(p, s, n) ==
  /\ changes < MaxChanges
  /\ productLock[p] = Free
  /\ changes' = changes + 1
  /\ status' = [status EXCEPT ![p] = s]
  /\ stock' = [stock EXCEPT ![p] = n]
  /\ supplied' = [supplied EXCEPT ![p] = @ + n - stock[p]]
  /\ UNCHANGED <<order, uses, recent, history, productLock, pc, req, tx, doneBefore>>

SellerStep(p) ==
  \E s \in {"ACTIVE", "INACTIVE", "ARCHIVED"}, n \in (0 .. MaxSupply) \union {stock[p]} :
    ChangeProduct(p, s, n)

-----------------------------------------------------------------------------
CreateRequests == [op : {"create"}, user : User, items : Baskets, promo : BOOLEAN]
ChangeRequests == [op : {"update"}, user : User, order : Creator, items : Baskets]
                    \union [op : {"cancel"}, user : User, order : Creator]

Statement(h) ==
  \/ LoadOrder(h) \/ CheckRateLimit(h) \/ CheckActive(h) \/ LoadItems(h)
  \/ LockProducts(h) \/ ReadPromo(h) \/ Commit(h)

Next ==
  \/ \E h \in Creator, r \in CreateRequests : Begin(h, r)
  \/ \E h \in Changer, r \in ChangeRequests : Begin(h, r)
  \/ \E h \in Handler : Statement(h) \/ Abort(h)
  \/ \E x \in recent : WindowPasses(x)
  \/ \E p \in Product : SellerStep(p)

Spec == Init /\ [][Next]_vars

-----------------------------------------------------------------------------
(* Properties *)

Lists == [by : Handler, items : Baskets]
Orders == [status : {"CREATED", "CANCELED"}, user : User, promo : BOOLEAN, items : SUBSET Lists]
Steps == {"none", "load", "rate", "active", "items", "lock", "promo", "commit", "done"}

\* Every variable has its type.  No product is sold below nothing and the promo
\* code is never counted beyond max_uses, whatever requests overlap.
TypeOK ==
  /\ status \in [Product -> {"NONE", "ACTIVE", "INACTIVE", "ARCHIVED"}]
  /\ stock \in [Product -> Nat]
  /\ productLock \in [Product -> Handler \union {Free}]
  /\ \A o \in Creator : order[o] \in Orders \union {NoOrder}
  /\ uses \in 0 .. MaxUses
  /\ recent \subseteq [user : User, op : {"create", "update"}, by : Handler]
  /\ pc \in [Handler -> Steps]
  /\ supplied \in [Product -> Int]
  /\ disputed \subseteq Product

Active(o) == order[o].status = "CREATED"
Reserved(o, p) == IF Active(o) THEN Quantity(order[o].items, p) ELSE 0

\* What sellers have put on sale is in stock or in a live order, for every product
\* whose orders nobody changed under a handler that had read them: the row locks
\* protect the stock, and nothing protects the order.
StockAccounting ==
  \A p \in Product \ disputed :
    stock[p] + MapThenSumSet(LAMBDA o : Reserved(o, p), Creator) = supplied[p]

\* current_uses counts the live orders with the promo code, as long as nobody
\* writes it from a row that has changed since.
PromoAccounting ==
  ~promoDisputed => uses = Cardinality({o \in Creator : Active(o) /\ order[o].promo})

\* Two live orders of a user were created by requests that overlapped.
OneActiveOrder ==
  \A o1, o2 \in Creator :
    o1 # o2 /\ Active(o1) /\ Active(o2) /\ order[o1].user = order[o2].user
      => o1 \notin doneBefore[o2]

\* Two operations of a user within one window were requests that overlapped.
RateLimitHolds ==
  \A x, y \in recent :
    x # y /\ x.user = y.user /\ x.op = y.op => x.by \notin doneBefore[y.by]

\* What create_order and update_order check without a lock holds between requests
\* that do not overlap, and overlapping ones are the only way around it.
UnlockedChecksHold == OneActiveOrder /\ RateLimitHolds

\* A cancelled order stays cancelled, although update_order writes an order whose
\* status it has read before a concurrent cancellation.
CanceledIsFinal ==
  [][\A o \in Creator : order[o].status = "CANCELED" => order'[o].status = "CANCELED"]_vars
=============================================================================
