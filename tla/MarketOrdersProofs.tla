------------------------- MODULE MarketOrdersProofs -------------------------
(***************************************************************************)
(* What is proved of MarketOrders for any number of users, products and    *)
(* handlers: the promo code is counted exactly as long as no handler writes *)
(* it from an outdated row, what sellers put on sale is in stock or in a   *)
(* live order as long as no handler writes an order that has changed, the  *)
(* checks made without a lock hold between requests that do not overlap, a *)
(* cancelled order stays cancelled, and a row lock keeps what a session    *)
(* has computed of the stock current.                                      *)
(***************************************************************************)
EXTENDS MarketOrders, FiniteSetTheorems, WellFoundedInduction, TLAPS

Writes == {NoWrite} \union [written : {TRUE}, from : 0 .. MaxUses, to : 0 .. MaxUses]
Sessions(S) == [promo : BOOLEAN, items : SUBSET Lists, stock : S, uses : Writes, drop : BOOLEAN]

Typed ==
  /\ order \in [Creator -> Orders \union {NoOrder}]
  /\ uses \in 0 .. MaxUses
  /\ pc \in [Handler -> Steps]
  /\ req \in [Handler -> CreateRequests \union ChangeRequests \union {NoRequest}]
  /\ \E S : tx \in [Handler -> Sessions(S)]
  /\ productLock \in [Product -> Handler \union {Free}]
  /\ recent \subseteq [user : User, op : {"create", "update"}, by : Handler]
  /\ promoDisputed \in BOOLEAN
  /\ doneBefore \in [Handler -> SUBSET Handler]
  /\ stock = [p \in Product |-> stock[p]]

\* A handler takes the steps of the request it serves.
RequestFits(h) ==
  /\ h \in Creator => /\ pc[h] \in {"none", "rate", "active", "lock", "promo", "commit", "done"}
                      /\ pc[h] # "none" => req[h] \in CreateRequests
  /\ h \in Changer => /\ pc[h] \in Steps \ {"active"}
                      /\ pc[h] # "none" => req[h] \in ChangeRequests
                      /\ pc[h] = "rate" => Op(h) = "update"

\* What the session writes of the promo code, when the request has read it.
Lost(h) == promoDisputed \/ ~(Active(OrderOf(h)) /\ order[OrderOf(h)].promo)
PromoDecided(h) ==
  LET w == tx[h].uses IN
  \/ ~UsesPromo(h) /\ w = NoWrite /\ ~tx[h].drop
  \/ UsesPromo(h) /\ Op(h) = "create" /\ w.written /\ w.to = w.from + 1
  \/ UsesPromo(h) /\ Op(h) = "update" /\ w = NoWrite /\ ~tx[h].drop
  \/ /\ UsesPromo(h) /\ Op(h) # "create" /\ tx[h].drop = (Op(h) = "update")
     /\ (w.written /\ w.to = w.from - 1) \/ (w = NoWrite /\ Lost(h))

SessionFits(h) ==
  /\ pc[h] \notin {"promo", "commit"} => tx[h].stock = <<>>
  /\ pc[h] # "commit" => tx[h].uses = NoWrite /\ ~tx[h].drop
  /\ pc[h] = "promo" => UsesPromo(h)
  /\ pc[h] = "commit" => PromoDecided(h)

\* A change has found its order, and an order never gets a promo code later.
OrderIsLoaded(h) ==
  h \in Changer /\ pc[h] \in {"rate", "items", "lock", "promo", "commit"} =>
    /\ order[req[h].order] # NoOrder
    /\ order[req[h].order].promo => tx[h].promo

DoneFirst(h) == \A d \in doneBefore[h] : pc[d] = "done"

\* The order of a handler is the one its request has made.
OrderIsOwn(h) ==
  h \in Creator /\ order[h] # NoOrder => pc[h] = "done" /\ order[h].user = req[h].user

\* A creation that has passed its check found no live order of the user, and the
\* requests that were done before it began make none later.
ActiveChecked(h) ==
  h \in Creator /\ (pc[h] \in {"lock", "promo", "commit"} \/ order[h] # NoOrder) =>
    \A d \in doneBefore[h] \intersect Creator :
      d # h /\ Active(d) => order[d].user # req[h].user

\* The same for the operations within the window of the rate limit.
RateChecked(h) ==
  pc[h] \in {"active", "items", "lock", "promo", "commit"} /\ Op(h) # "cancel" =>
    \A x \in recent : x.by \in doneBefore[h] => x.user # req[h].user \/ x.op # Op(h)

HandlerInv(h) ==
  /\ RequestFits(h) /\ SessionFits(h) /\ OrderIsLoaded(h) /\ DoneFirst(h)
  /\ OrderIsOwn(h) /\ ActiveChecked(h) /\ RateChecked(h)

RecentIsOwn == \A x \in recent : pc[x.by] = "done" /\ x.user = req[x.by].user /\ x.op = Op(x.by)

\* The stock a session will write is computed from the stock as it is, and its rows
\* are locked: no other handler and no seller can have changed them.
RowsAreCurrent(h) ==
  \A p \in DOMAIN tx[h].stock :
    /\ p \in Product /\ productLock[p] = h
    /\ tx[h].stock[p] = InStock(h, p) - Wanted(h, p)
StockIsCurrent == \A h \in Handler : RowsAreCurrent(h)

IInv ==
  /\ Typed /\ \A h \in Handler : HandlerInv(h)
  /\ RecentIsOwn /\ RateLimitHolds /\ PromoAccounting /\ StockIsCurrent

-----------------------------------------------------------------------------
(* What a step leaves to the other handlers *)

\* What becomes of the orders: they are made once, by a handler that is not done
\* yet, keep their user, are cancelled for ever and get no promo code later.
OrdersEvolve ==
  \A o \in Creator :
    /\ order[o] = NoOrder /\ order'[o] # NoOrder => pc[o] # "done"
    /\ order[o] # NoOrder =>
         /\ order'[o] # NoOrder /\ order'[o].user = order[o].user
         /\ order'[o].status = "CREATED" => order[o].status = "CREATED"
         /\ order'[o].promo => order[o].promo

\* g goes on, takes and writes nothing.
Undisturbed(g) ==
  pc'[g] = pc[g] /\ req'[g] = req[g] /\ tx'[g] = tx[g] /\ doneBefore'[g] = doneBefore[g]

\* What other handlers and the sellers may do while g is in the middle of its request.
Bystands(g) ==
  /\ Undisturbed(g) /\ OrdersEvolve
  /\ \A d \in Handler : pc[d] = "done" => pc'[d] = "done"
  /\ g \in Creator /\ order'[g] # NoOrder => order[g] # NoOrder
  /\ \A x \in recent' : x \in recent \/ pc[x.by] # "done"
  /\ promoDisputed => promoDisputed'

LEMMA OrderIsTyped ==
  ASSUME Typed, NEW o \in Creator
  PROVE  /\ order[o] \in Orders \union {NoOrder}
         /\ order[o] # NoOrder => order[o] \in Orders
         /\ order[o] = NoOrder => order[o].status = "NONE"
<1>1. order[o] \in Orders \union {NoOrder}
  BY DEF Typed
<1> QED BY <1>1 DEF NoOrder

LEMMA OrderNames ==
  ASSUME NEW h \in Handler, RequestFits(h), pc[h] # "none"
  PROVE  OrderOf(h) \in Creator
  BY MarketAssumption
  DEF RequestFits, Handler, OrderOf, Op, CreateRequests, ChangeRequests

LEMMA BystanderLost ==
  ASSUME NEW g \in Handler, RequestFits(g), pc[g] # "none", Bystands(g), Lost(g),
         order[OrderOf(g)] # NoOrder
  PROVE  Lost(g)'
<1>1. OrderOf(g) \in Creator /\ OrderOf(g)' = OrderOf(g)
  BY OrderNames DEF Bystands, Undisturbed, OrderOf, Op
<1>2. CASE promoDisputed
  BY <1>2 DEF Bystands, Lost
<1>3. CASE ~(Active(OrderOf(g)) /\ order[OrderOf(g)].promo)
  BY <1>1, <1>3 DEF Bystands, OrdersEvolve, Lost, Active
<1> QED BY <1>2, <1>3 DEF Lost

LEMMA BystanderDecided ==
  ASSUME NEW g \in Handler, RequestFits(g), OrderIsLoaded(g), pc[g] = "commit",
         Bystands(g), PromoDecided(g)
  PROVE  PromoDecided(g)'
<1>1. /\ Op(g)' = Op(g) /\ UsesPromo(g)' = UsesPromo(g) /\ tx'[g] = tx[g]
  BY DEF Bystands, Undisturbed, Op, UsesPromo
<1>2. Op(g) # "create" /\ Lost(g) => Lost(g)'
  <2> SUFFICES ASSUME Op(g) # "create", Lost(g)
               PROVE  Lost(g)'
    OBVIOUS
  <2>1. g \in Changer
    BY DEF RequestFits, Handler, Op, CreateRequests
  <2>2. order[OrderOf(g)] # NoOrder
    BY <2>1 DEF OrderIsLoaded, OrderOf
  <2> QED BY <2>2, BystanderLost
<1> QED BY <1>1, <1>2 DEF PromoDecided

LEMMA BystanderKeeps ==
  ASSUME Typed, NEW g \in Handler, HandlerInv(g), Bystands(g)
  PROVE  HandlerInv(g)'
<1> USE DEF Bystands, Undisturbed
<1>1. Op(g)' = Op(g) /\ UsesPromo(g)' = UsesPromo(g)
  BY DEF Op, UsesPromo
<1>2. RequestFits(g)'
  BY <1>1 DEF HandlerInv, RequestFits
<1>3. SessionFits(g)'
  BY <1>1, BystanderDecided DEF HandlerInv, SessionFits
<1>4. OrderIsLoaded(g)'
  <2> SUFFICES ASSUME g \in Changer, pc[g] \in {"rate", "items", "lock", "promo", "commit"}
               PROVE  /\ order'[req[g].order] # NoOrder
                      /\ order'[req[g].order].promo => tx[g].promo
    BY DEF OrderIsLoaded
  <2>1. req[g].order \in Creator
    BY DEF HandlerInv, RequestFits, ChangeRequests
  <2> QED BY <2>1 DEF HandlerInv, OrderIsLoaded, OrdersEvolve
<1>5. DoneFirst(g)'
  BY DEF HandlerInv, DoneFirst, Typed
<1>6. OrderIsOwn(g)'
  BY DEF HandlerInv, OrderIsOwn, OrdersEvolve
<1>7. ActiveChecked(g)'
  <2> SUFFICES ASSUME g \in Creator, pc[g] \in {"lock", "promo", "commit"} \/ order[g] # NoOrder,
                      NEW d \in doneBefore[g] \intersect Creator,
                      d # g, order'[d].status = "CREATED"
               PROVE  order'[d].user # req[g].user
    BY DEF ActiveChecked, Active
  <2>1. pc[d] = "done"
    BY DEF HandlerInv, DoneFirst
  <2>2. order[d] # NoOrder
    <3>1. order'[d] # NoOrder
      BY DEF NoOrder
    <3> QED BY <2>1, <3>1 DEF OrdersEvolve
  <2>3. order'[d].user = order[d].user /\ order[d].status = "CREATED"
    BY <2>2 DEF OrdersEvolve
  <2> QED BY <2>3 DEF HandlerInv, ActiveChecked, Active
<1>8. RateChecked(g)'
  BY <1>1 DEF HandlerInv, RateChecked, DoneFirst
<1> QED BY <1>2, <1>3, <1>4, <1>5, <1>6, <1>7, <1>8 DEF HandlerInv

\* The lock keeps the stock a session has computed current.
LEMMA BystanderRows ==
  ASSUME NEW g \in Handler, RowsAreCurrent(g), Undisturbed(g),
         \A p \in Product : productLock[p] = g =>
            productLock'[p] = productLock[p] /\ stock'[p] = stock[p]
  PROVE  RowsAreCurrent(g)'
  BY DEF RowsAreCurrent, Undisturbed, InStock, Wanted, Op

-----------------------------------------------------------------------------
(* What the steps that write nothing keep *)

LEMMA Stutters ==
  ASSUME IInv, UNCHANGED vars
  PROVE  IInv'
<1> USE DEF vars, committed, products, history
<1>1. Typed'
  BY DEF IInv, Typed
<1>2. ASSUME NEW g \in Handler
      PROVE  HandlerInv(g)'
  BY BystanderKeeps DEF IInv, Bystands, Undisturbed, OrdersEvolve
<1>3. RecentIsOwn' /\ RateLimitHolds' /\ PromoAccounting'
  BY DEF IInv, RecentIsOwn, RateLimitHolds, PromoAccounting, Active, Op
<1>4. StockIsCurrent'
  BY BystanderRows DEF IInv, StockIsCurrent, Undisturbed
<1> QED BY <1>1, <1>2, <1>3, <1>4 DEF IInv

LEMMA SessionMoves ==
  ASSUME Typed, NEW h \in Handler, NEW t, NEW T, t \in Sessions(T), tx' = [tx EXCEPT ![h] = t]
  PROVE  /\ \E S : tx' \in [Handler -> Sessions(S)]
         /\ tx'[h] = t
         /\ \A g \in Handler \ {h} : tx'[g] = tx[g]
<1>1. PICK S : tx \in [Handler -> Sessions(S)]
  BY DEF Typed
<1>2. Sessions(S) \subseteq Sessions(S \union T) /\ Sessions(T) \subseteq Sessions(S \union T)
  BY DEF Sessions
<1>3. tx' \in [Handler -> Sessions(S \union T)]
  BY <1>1, <1>2
<1> QED BY <1>1, <1>3

\* A handler goes on; it writes nothing, and leaves the rows others have locked.
LEMMA HandlerMoves ==
  ASSUME IInv, NEW h \in Handler, pc[h] # "done", NEW step \in Steps, NEW t, NEW T, t \in Sessions(T),
         pc' = [pc EXCEPT ![h] = step], tx' = [tx EXCEPT ![h] = t],
         UNCHANGED <<committed, req, doneBefore>>,
         productLock' \in [Product -> Handler \union {Free}],
         \A p \in Product : productLock[p] \in Handler \ {h} => productLock'[p] = productLock[p],
         HandlerInv(h)', RowsAreCurrent(h)'
  PROVE  IInv'
<1> USE DEF committed, products, history
<1>1. /\ pc' \in [Handler -> Steps] /\ pc'[h] = step
      /\ \A g \in Handler \ {h} : pc'[g] = pc[g]
  BY DEF IInv, Typed
<1>2. /\ \E S : tx' \in [Handler -> Sessions(S)]
      /\ \A g \in Handler \ {h} : tx'[g] = tx[g]
  BY SessionMoves DEF IInv
<1>3. Typed'
  BY <1>1, <1>2 DEF IInv, Typed
<1>4. ASSUME NEW g \in Handler
      PROVE  HandlerInv(g)' /\ RowsAreCurrent(g)'
  <2>1. CASE g = h
    BY <2>1
  <2>2. CASE g # h
    <3>1. Undisturbed(g)
      BY <1>1, <1>2, <2>2 DEF Undisturbed
    <3>2. Bystands(g)
      BY <1>1, <3>1 DEF Bystands, OrdersEvolve
    <3>3. HandlerInv(g)'
      BY <3>2, BystanderKeeps DEF IInv
    <3>4. \A p \in Product : productLock[p] = g =>
             productLock'[p] = productLock[p] /\ stock'[p] = stock[p]
      BY <2>2
    <3> QED BY <3>1, <3>3, <3>4, BystanderRows DEF IInv, StockIsCurrent
  <2> QED BY <2>1, <2>2
<1>5. RecentIsOwn'
  <2>1. \A x \in recent : x.by \in Handler
    BY DEF IInv, Typed
  <2> QED BY <1>1, <2>1 DEF IInv, RecentIsOwn, Op
<1>6. RateLimitHolds' /\ PromoAccounting'
  BY DEF IInv, RateLimitHolds, PromoAccounting, Active
<1> QED BY <1>3, <1>4, <1>5, <1>6 DEF IInv, StockIsCurrent

\* What a handler that is not done knows of itself.
LEMMA RunnerFacts ==
  ASSUME IInv, NEW h \in Handler, pc[h] # "done"
  PROVE  /\ h \notin doneBefore[h]
         /\ doneBefore[h] \subseteq Handler
         /\ h \in Creator => order[h] = NoOrder
         /\ \E S : tx[h] \in Sessions(S)
<1>1. HandlerInv(h)
  BY DEF IInv
<1>2. doneBefore[h] \subseteq Handler
  BY DEF IInv, Typed
<1>3. \E S : tx[h] \in Sessions(S)
  BY DEF IInv, Typed
<1> QED BY <1>1, <1>2, <1>3 DEF HandlerInv, DoneFirst, OrderIsOwn

LEMMA RefuseKeeps ==
  ASSUME IInv, NEW h \in Handler, Running(h), Refuse(h)
  PROVE  IInv'
<1> USE DEF committed, products, history
<1>1. /\ pc' = [pc EXCEPT ![h] = "done"] /\ tx' = [tx EXCEPT ![h] = Fresh]
      /\ productLock' = [p \in Product |-> IF productLock[p] = h THEN Free ELSE productLock[p]]
      /\ UNCHANGED <<committed, req, doneBefore>>
  BY DEF Refuse, Close, Goto
<1>2. pc[h] # "done" /\ pc[h] # "none" /\ "done" \in Steps
  BY DEF Running, Steps
<1>3. Fresh \in Sessions({<<>>})
  BY DEF Fresh, Sessions, Writes
<1>4. tx'[h] = Fresh /\ Fresh.stock = <<>> /\ Fresh.uses = NoWrite /\ ~Fresh.drop
  BY <1>1, <1>3, SessionMoves DEF IInv, Fresh
<1>5. pc'[h] = "done" /\ \A g \in Handler : pc[g] = "done" => pc'[g] = "done"
  BY <1>1 DEF IInv, Typed
<1>6. productLock' \in [Product -> Handler \union {Free}]
  BY <1>1 DEF IInv, Typed
<1>7. \A p \in Product : productLock[p] \in Handler \ {h} => productLock'[p] = productLock[p]
  BY <1>1
<1>8. RowsAreCurrent(h)'
  BY <1>4 DEF RowsAreCurrent
<1>9. HandlerInv(h)'
  <2>1. HandlerInv(h)
    BY DEF IInv
  <2>2. RequestFits(h)'
    BY <1>1, <1>2, <1>5, <2>1 DEF HandlerInv, RequestFits, Steps
  <2>3. SessionFits(h)' /\ OrderIsLoaded(h)' /\ RateChecked(h)'
    BY <1>4, <1>5 DEF SessionFits, OrderIsLoaded, RateChecked
  <2>4. DoneFirst(h)'
    BY <1>1, <1>5, <2>1, <1>2, RunnerFacts DEF HandlerInv, DoneFirst
  <2>5. OrderIsOwn(h)' /\ ActiveChecked(h)'
    BY <1>1, <1>2, <1>5, RunnerFacts DEF OrderIsOwn, ActiveChecked
  <2> QED BY <2>2, <2>3, <2>4, <2>5 DEF HandlerInv
<1> QED BY <1>1, <1>2, <1>3, <1>6, <1>7, <1>8, <1>9, HandlerMoves

\* A statement after which the handler goes on, at most with another session.
LEMMA ContinueKeeps ==
  ASSUME IInv, NEW h \in Handler, Running(h), NEW step \in Steps \ {"done"}, NEW t, NEW T, t \in Sessions(T),
         Continue(h, step, t), RowsAreCurrent(h)',
         RequestFits(h)', SessionFits(h)', OrderIsLoaded(h)', ActiveChecked(h)', RateChecked(h)'
  PROVE  IInv'
<1> USE DEF committed, products, history
<1>1. /\ pc' = [pc EXCEPT ![h] = step] /\ tx' = [tx EXCEPT ![h] = t]
      /\ UNCHANGED <<committed, productLock, req, doneBefore>>
  BY DEF Continue, Goto
<1>2. pc[h] # "done"
  BY DEF Running
<1>3. productLock' \in [Product -> Handler \union {Free}]
  BY <1>1 DEF IInv, Typed
<1>4. DoneFirst(h)'
  <2>1. \A g \in Handler \ {h} : pc'[g] = pc[g]
    BY <1>1 DEF IInv, Typed
  <2> QED BY <1>1, <1>2, <2>1, RunnerFacts DEF IInv, HandlerInv, DoneFirst
<1>5. OrderIsOwn(h)'
  BY <1>1, <1>2, RunnerFacts DEF OrderIsOwn
<1>6. HandlerInv(h)'
  BY <1>4, <1>5 DEF HandlerInv
<1> QED BY <1>1, <1>2, <1>3, <1>6, HandlerMoves

LEMMA Continues ==
  ASSUME IInv, NEW h \in Handler, NEW step \in Steps, NEW t, NEW T, t \in Sessions(T),
         Continue(h, step, t)
  PROVE  /\ pc'[h] = step /\ tx'[h] = t /\ UNCHANGED <<committed, productLock, req, doneBefore>>
         /\ OrderOf(h)' = OrderOf(h) /\ Op(h)' = Op(h)
         /\ t.stock = <<>> => RowsAreCurrent(h)'
<1>1. pc'[h] = step /\ tx'[h] = t /\ UNCHANGED <<committed, productLock, req, doneBefore>>
  BY SessionMoves DEF IInv, Typed, Continue, Goto
<1> QED BY <1>1 DEF OrderOf, Op, RowsAreCurrent

-----------------------------------------------------------------------------
(* The statements *)

\* Who is at a statement that only changes, or only creations, have.
LEMMA StepsOfHandlers ==
  ASSUME NEW h \in Handler, RequestFits(h)
  PROVE  /\ pc[h] \in {"load", "items"} => h \in Changer
         /\ pc[h] = "active" => h \in Creator
         /\ h \in Creator => h \notin Changer
         /\ h \in Creator /\ pc[h] # "none" => req[h] \in CreateRequests /\ Op(h) = "create"
         /\ h \in Changer /\ pc[h] # "none" =>
              req[h] \in ChangeRequests /\ Op(h) \in {"update", "cancel"}
         /\ Running(h) /\ Op(h) = "create" => h \in Creator
<1>1. h \in Creator => h \notin Changer
  BY MarketAssumption
<1>2. h \in Creator /\ pc[h] # "none" => req[h] \in CreateRequests /\ Op(h) = "create"
  BY DEF RequestFits, Op, CreateRequests
<1>3. h \in Changer /\ pc[h] # "none" => req[h] \in ChangeRequests /\ Op(h) \in {"update", "cancel"}
  BY DEF RequestFits, Op, ChangeRequests
<1> QED BY <1>1, <1>2, <1>3 DEF RequestFits, Handler, Running

LEMMA LoadOrderKeeps ==
  ASSUME IInv, NEW h \in Handler, LoadOrder(h)
  PROVE  IInv'
<1> DEFINE o == order[OrderOf(h)]
           step == IF Op(h) = "update" THEN "rate" ELSE "items"
           t == [tx[h] EXCEPT !.promo = o.promo]
<1>1. pc[h] = "load" /\ Running(h)
  BY DEF LoadOrder, Running
<1>2. HandlerInv(h) /\ RequestFits(h) /\ SessionFits(h)
  BY DEF IInv, HandlerInv
<1>3. h \in Changer /\ h \notin Creator /\ req[h] \in ChangeRequests /\ Op(h) \in {"update", "cancel"}
  BY <1>1, <1>2, StepsOfHandlers
<1>4. CASE Refuse(h)
  BY <1>1, <1>4, RefuseKeeps
<1>5. CASE o # NoOrder /\ Continue(h, step, t)
  <2>1. OrderOf(h) = req[h].order /\ OrderOf(h) \in Creator
    BY <1>3 DEF OrderOf, ChangeRequests
  <2>2. o.promo \in BOOLEAN
    BY <1>5, <2>1, OrderIsTyped DEF IInv, Orders
  <2>3. PICK S : tx[h] \in Sessions(S)
    BY <1>1, RunnerFacts DEF Running
  <2>4. t \in Sessions(S) /\ t.promo = o.promo /\ t.stock = tx[h].stock
        /\ t.uses = tx[h].uses /\ t.drop = tx[h].drop
    BY <2>2, <2>3 DEF Sessions
  <2>5. t.stock = <<>> /\ t.uses = NoWrite /\ ~t.drop
    BY <1>1, <1>2, <2>4 DEF SessionFits
  <2>6. step \in Steps \ {"done"} /\ step \in {"rate", "items"} /\ (step = "rate" => Op(h) = "update")
        /\ (step = "items" => Op(h) = "cancel")
    BY <1>3 DEF Steps
  <2> HIDE DEF step, t
  <2>7. /\ pc'[h] = step /\ tx'[h] = t /\ UNCHANGED <<committed, req>>
        /\ OrderOf(h)' = OrderOf(h) /\ Op(h)' = Op(h) /\ RowsAreCurrent(h)'
    BY <1>5, <2>4, <2>5, <2>6, Continues
  <2>8. RequestFits(h)'
    BY <1>3, <2>6, <2>7 DEF RequestFits
  <2>9. SessionFits(h)'
    BY <2>5, <2>6, <2>7 DEF SessionFits
  <2>10. OrderIsLoaded(h)'
    BY <1>5, <2>1, <2>4, <2>7 DEF OrderIsLoaded, committed
  <2>11. ActiveChecked(h)' /\ RateChecked(h)'
    BY <1>3, <2>6, <2>7 DEF ActiveChecked, RateChecked
  <2> QED BY <1>1, <1>5, <2>4, <2>6, <2>7, <2>8, <2>9, <2>10, <2>11, ContinueKeeps
<1> QED BY <1>4, <1>5 DEF LoadOrder

LEMMA CheckRateLimitKeeps ==
  ASSUME IInv, NEW h \in Handler, CheckRateLimit(h)
  PROVE  IInv'
<1> DEFINE step == IF Op(h) = "create" THEN "active" ELSE "items"
<1>1. pc[h] = "rate" /\ Running(h)
  BY DEF CheckRateLimit, Running
<1>2. HandlerInv(h) /\ RequestFits(h) /\ SessionFits(h) /\ OrderIsLoaded(h)
  BY DEF IInv, HandlerInv
<1>3. CASE Refuse(h)
  BY <1>1, <1>3, RefuseKeeps
<1>4. CASE ~RateLimited(h) /\ Continue(h, step, tx[h])
  <2>1. PICK S : tx[h] \in Sessions(S)
    BY <1>1, RunnerFacts DEF Running
  <2>2. tx[h].stock = <<>> /\ tx[h].uses = NoWrite /\ ~tx[h].drop
    BY <1>1, <1>2 DEF SessionFits
  <2>3. \/ h \in Creator /\ h \notin Changer /\ step = "active" /\ req[h] \in CreateRequests
        \/ h \in Changer /\ h \notin Creator /\ step = "items" /\ req[h] \in ChangeRequests
    BY <1>1, <1>2, StepsOfHandlers DEF Handler
  <2>4. step \in Steps \ {"done"}
    BY DEF Steps
  <2> HIDE DEF step
  <2>5. /\ pc'[h] = step /\ tx'[h] = tx[h] /\ UNCHANGED <<committed, req>>
        /\ OrderOf(h)' = OrderOf(h) /\ Op(h)' = Op(h) /\ RowsAreCurrent(h)'
    BY <1>4, <2>1, <2>2, <2>4, Continues
  <2>6. RequestFits(h)'
    BY <2>3, <2>5 DEF RequestFits, Steps
  <2>7. SessionFits(h)'
    BY <2>2, <2>3, <2>5 DEF SessionFits
  <2>8. OrderIsLoaded(h)'
    BY <1>1, <1>2, <2>5 DEF OrderIsLoaded, committed
  <2>9. ActiveChecked(h)'
    <3>1. h \in Creator => order[h] = NoOrder
      BY <1>1, RunnerFacts DEF Running
    <3> QED BY <2>3, <2>5, <3>1 DEF ActiveChecked, committed
  <2>10. RateChecked(h)'
    BY <1>4, <2>5 DEF RateChecked, RateLimited, committed
  <2> QED BY <1>1, <1>4, <2>1, <2>4, <2>5, <2>6, <2>7, <2>8, <2>9, <2>10, ContinueKeeps
<1> QED BY <1>3, <1>4 DEF CheckRateLimit

LEMMA CheckActiveKeeps ==
  ASSUME IInv, NEW h \in Handler, CheckActive(h)
  PROVE  IInv'
<1>1. pc[h] = "active" /\ Running(h)
  BY DEF CheckActive, Running
<1>2. HandlerInv(h) /\ RequestFits(h) /\ SessionFits(h) /\ RateChecked(h)
  BY DEF IInv, HandlerInv
<1>3. h \in Creator /\ h \notin Changer /\ req[h] \in CreateRequests
  BY <1>1, <1>2, StepsOfHandlers
<1>4. CASE Refuse(h)
  BY <1>1, <1>4, RefuseKeeps
<1>5. CASE ~HasActive(req[h].user) /\ Continue(h, "lock", tx[h])
  <2>1. PICK S : tx[h] \in Sessions(S)
    BY <1>1, RunnerFacts DEF Running
  <2>2. tx[h].stock = <<>> /\ tx[h].uses = NoWrite /\ ~tx[h].drop
    BY <1>1, <1>2 DEF SessionFits
  <2>3. "lock" \in Steps \ {"done"}
    BY DEF Steps
  <2>4. /\ pc'[h] = "lock" /\ tx'[h] = tx[h] /\ UNCHANGED <<committed, req, doneBefore>>
        /\ OrderOf(h)' = OrderOf(h) /\ Op(h)' = Op(h) /\ RowsAreCurrent(h)'
    BY <1>5, <2>1, <2>2, <2>3, Continues
  <2>5. RequestFits(h)' /\ SessionFits(h)' /\ OrderIsLoaded(h)'
    BY <1>3, <2>2, <2>4 DEF RequestFits, SessionFits, OrderIsLoaded
  <2>6. ActiveChecked(h)'
    <3>1. \A d \in Creator : Active(d) => order[d].user # req[h].user
      BY <1>5 DEF HasActive, Active, NoOrder
    <3> QED BY <2>4, <3>1 DEF ActiveChecked, Active, committed
  <2>7. RateChecked(h)'
    BY <1>1, <1>2, <2>4 DEF RateChecked, committed
  <2> QED BY <1>1, <1>5, <2>1, <2>3, <2>4, <2>5, <2>6, <2>7, ContinueKeeps
<1> QED BY <1>4, <1>5 DEF CheckActive

LEMMA LoadItemsKeeps ==
  ASSUME IInv, NEW h \in Handler, LoadItems(h)
  PROVE  IInv'
<1> DEFINE t == [tx[h] EXCEPT !.items = order[OrderOf(h)].items]
<1>1. pc[h] = "items" /\ Running(h) /\ Continue(h, "lock", t)
  BY DEF LoadItems, Running
<1>2. HandlerInv(h) /\ RequestFits(h) /\ SessionFits(h) /\ RateChecked(h) /\ OrderIsLoaded(h)
  BY DEF IInv, HandlerInv
<1>3. h \in Changer /\ h \notin Creator /\ req[h] \in ChangeRequests /\ Op(h) \in {"update", "cancel"}
  BY <1>1, <1>2, StepsOfHandlers
<1>4. OrderOf(h) = req[h].order /\ OrderOf(h) \in Creator
  BY <1>3 DEF OrderOf, ChangeRequests
<1>5. order[OrderOf(h)].items \in SUBSET Lists
  BY <1>1, <1>2, <1>3, <1>4, OrderIsTyped DEF IInv, Orders, OrderIsLoaded
<1>6. PICK S : tx[h] \in Sessions(S)
  BY <1>1, RunnerFacts DEF Running
<1>7. t \in Sessions(S) /\ t.promo = tx[h].promo /\ t.stock = tx[h].stock
      /\ t.uses = tx[h].uses /\ t.drop = tx[h].drop
  BY <1>5, <1>6 DEF Sessions
<1>8. t.stock = <<>> /\ t.uses = NoWrite /\ ~t.drop
  BY <1>1, <1>2, <1>7 DEF SessionFits
<1>9. "lock" \in Steps \ {"done"}
  BY DEF Steps
<1> HIDE DEF t
<1>10. /\ pc'[h] = "lock" /\ tx'[h] = t /\ UNCHANGED <<committed, req, doneBefore>>
       /\ OrderOf(h)' = OrderOf(h) /\ Op(h)' = Op(h) /\ RowsAreCurrent(h)'
  BY <1>1, <1>7, <1>8, <1>9, Continues
<1>11. RequestFits(h)'
  BY <1>3, <1>10 DEF RequestFits, Steps
<1>12. SessionFits(h)'
  BY <1>8, <1>10 DEF SessionFits
<1>13. OrderIsLoaded(h)'
  BY <1>1, <1>2, <1>7, <1>10 DEF OrderIsLoaded, committed
<1>14. ActiveChecked(h)'
  BY <1>3 DEF ActiveChecked
<1>15. RateChecked(h)'
  BY <1>1, <1>2, <1>10 DEF RateChecked, committed
<1> QED
  BY <1>1, <1>7, <1>9, <1>10, <1>11, <1>12, <1>13, <1>14, <1>15, ContinueKeeps

LEMMA LockProductsKeeps ==
  ASSUME IInv, NEW h \in Handler, LockProducts(h)
  PROVE  IInv'
<1> DEFINE step == IF UsesPromo(h) THEN "promo" ELSE "commit"
           computed == [p \in Rows(h) |-> InStock(h, p) - Wanted(h, p)]
           t == [tx[h] EXCEPT !.stock = computed]
<1>1. pc[h] = "lock" /\ Running(h)
  BY DEF LockProducts, Running
<1>2. HandlerInv(h) /\ RequestFits(h) /\ SessionFits(h) /\ OrderIsLoaded(h)
      /\ ActiveChecked(h) /\ RateChecked(h)
  BY DEF IInv, HandlerInv
<1>3. CASE Refuse(h)
  BY <1>1, <1>3, RefuseKeeps
<1>4. CASE /\ \A p \in Rows(h) : productLock[p] = Free
           /\ productLock' = [p \in Product |-> IF p \in Rows(h) THEN h ELSE productLock[p]]
           /\ TakeProducts(h)
  <2>1. PICK S : tx \in [Handler -> Sessions(S)]
    BY DEF IInv, Typed
  <2>2. t \in Sessions(S \union {computed}) /\ t.promo = tx[h].promo /\ t.items = tx[h].items
        /\ t.uses = tx[h].uses /\ t.drop = tx[h].drop /\ t.stock = computed
    BY <2>1 DEF Sessions
  <2>3. tx' = [tx EXCEPT ![h] = t]
    BY <1>4, <2>1 DEF TakeProducts, Sessions
  <2>4. pc' = [pc EXCEPT ![h] = step] /\ UNCHANGED <<committed, req, doneBefore>>
    BY <1>4 DEF TakeProducts, Goto
  <2>5. Rows(h) \subseteq Product
    BY DEF Rows
  <2>6. /\ productLock' \in [Product -> Handler \union {Free}]
        /\ \A p \in Product : productLock[p] \in Handler \ {h} => productLock'[p] = productLock[p]
    BY <1>4, MarketAssumption DEF IInv, Typed
  <2>7. step \in Steps /\ step \in {"promo", "commit"} /\ (step = "promo") = UsesPromo(h)
    <3>1. UsesPromo(h) \in BOOLEAN
      <4>1. CASE h \in Creator
        <5>1. Op(h) = "create" /\ req[h] \in CreateRequests
          BY <1>1, <1>2, <4>1, StepsOfHandlers
        <5> QED BY <5>1 DEF UsesPromo, CreateRequests
      <4>2. CASE h \in Changer
        <5>1. Op(h) # "create"
          BY <1>1, <1>2, <4>2, StepsOfHandlers
        <5> QED BY <2>1, <5>1 DEF UsesPromo, Sessions
      <4> QED BY <4>1, <4>2 DEF Handler
    <3> QED BY <3>1 DEF Steps
  <2>8. pc'[h] = step /\ tx'[h] = t
    BY <2>2, <2>3, <2>4, <2>7, SessionMoves DEF IInv, Typed
  <2>9. RowsAreCurrent(h)'
    <3> SUFFICES ASSUME NEW p \in Rows(h)
                 PROVE  /\ p \in Product /\ productLock'[p] = h
                        /\ computed[p] = InStock(h, p)' - Wanted(h, p)'
      BY <2>2, <2>8 DEF RowsAreCurrent
    <3>1. Wanted(h, p)' = Wanted(h, p)
      BY <2>4 DEF Wanted, Op
    <3>2. InStock(h, p)' = InStock(h, p)
      BY <2>2, <2>4, <2>8 DEF InStock, committed, products
    <3> QED BY <1>4, <2>5, <3>1, <3>2
  <2> HIDE DEF step, t
  <2>10. OrderOf(h)' = OrderOf(h) /\ Op(h)' = Op(h) /\ UsesPromo(h)' = UsesPromo(h)
    BY <2>2, <2>4, <2>8 DEF OrderOf, Op, UsesPromo
  <2>11. RequestFits(h)'
    BY <1>1, <1>2, <2>4, <2>7, <2>8 DEF RequestFits, Steps
  <2>12. SessionFits(h)'
    <3>1. t.uses = NoWrite /\ ~t.drop
      BY <1>1, <1>2, <2>2 DEF SessionFits
    <3> QED BY <2>7, <2>8, <2>10, <3>1 DEF SessionFits, PromoDecided
  <2>13. OrderIsLoaded(h)'
    BY <1>1, <1>2, <2>2, <2>4, <2>8 DEF OrderIsLoaded, committed
  <2>14. DoneFirst(h)'
    <3>1. \A g \in Handler \ {h} : pc'[g] = pc[g]
      BY <2>4 DEF IInv, Typed
    <3> QED BY <1>1, <1>2, <2>4, <3>1, RunnerFacts DEF Running, HandlerInv, DoneFirst
  <2>15. OrderIsOwn(h)'
    BY <1>1, <2>4, RunnerFacts DEF Running, OrderIsOwn, committed
  <2>16. ActiveChecked(h)'
    BY <1>1, <1>2, <2>4 DEF ActiveChecked, Active, committed
  <2>17. RateChecked(h)'
    BY <1>1, <1>2, <2>4, <2>10 DEF RateChecked, committed
  <2>18. HandlerInv(h)'
    BY <2>11, <2>12, <2>13, <2>14, <2>15, <2>16, <2>17 DEF HandlerInv
  <2>19. pc[h] # "done"
    BY <1>1
  <2> QED BY <2>2, <2>3, <2>4, <2>6, <2>7, <2>9, <2>18, <2>19, HandlerMoves
<1> QED BY <1>3, <1>4 DEF LockProducts

\* The request has read the promo code and goes on to its commit.
LEMMA PromoContinues ==
  ASSUME IInv, NEW h \in Handler, pc[h] = "promo", NEW t, NEW T, t \in Sessions(T),
         Continue(h, "commit", t),
         t.promo = tx[h].promo, t.items = tx[h].items, t.stock = tx[h].stock,
         PromoDecided(h)'
  PROVE  IInv'
<1>1. HandlerInv(h) /\ RequestFits(h) /\ OrderIsLoaded(h) /\ ActiveChecked(h) /\ RateChecked(h)
  BY DEF IInv, HandlerInv
<1>2. "commit" \in Steps \ {"done"}
  BY DEF Steps
<1>3. /\ pc'[h] = "commit" /\ tx'[h] = t /\ UNCHANGED <<committed, productLock, req, doneBefore>>
      /\ OrderOf(h)' = OrderOf(h) /\ Op(h)' = Op(h)
  BY <1>2, Continues
<1>4. RowsAreCurrent(h)'
  BY <1>3 DEF IInv, StockIsCurrent, RowsAreCurrent, InStock, Wanted, Op, committed, products
<1>5. RequestFits(h)'
  BY <1>1, <1>3 DEF RequestFits, Steps
<1>6. SessionFits(h)'
  BY <1>3 DEF SessionFits
<1>7. OrderIsLoaded(h)'
  BY <1>1, <1>3 DEF OrderIsLoaded, committed
<1>8. ActiveChecked(h)'
  BY <1>1, <1>3 DEF ActiveChecked, Active, committed
<1>9. RateChecked(h)'
  BY <1>1, <1>3 DEF RateChecked, committed
<1>10. Running(h)
  BY DEF Running
<1> QED BY <1>2, <1>4, <1>5, <1>6, <1>7, <1>8, <1>9, <1>10, ContinueKeeps

\* What has been read of the promo code is decided, whoever it was.
LEMMA ContinuedDecision ==
  ASSUME IInv, NEW h \in Handler, pc[h] = "promo", NEW t, NEW T, t \in Sessions(T),
         Continue(h, "commit", t), t.promo = tx[h].promo,
         \/ Op(h) = "create" /\ t.uses.written /\ t.uses.to = t.uses.from + 1
         \/ Op(h) = "update" /\ t.uses = NoWrite /\ ~t.drop
         \/ /\ Op(h) # "create" /\ t.drop = (Op(h) = "update")
            /\ (t.uses.written /\ t.uses.to = t.uses.from - 1) \/ (t.uses = NoWrite /\ Lost(h))
  PROVE  PromoDecided(h)'
<1>1. "commit" \in Steps
  BY DEF Steps
<1>2. /\ tx'[h] = t /\ UNCHANGED <<committed, req>>
      /\ OrderOf(h)' = OrderOf(h) /\ Op(h)' = Op(h)
  BY <1>1, Continues
<1>3. UsesPromo(h)
  BY DEF IInv, HandlerInv, SessionFits
<1>4. UsesPromo(h)' = UsesPromo(h) /\ Lost(h)' = Lost(h)
  BY <1>2 DEF UsesPromo, Lost, Active, committed, history
<1> QED BY <1>2, <1>3, <1>4 DEF PromoDecided

\* A live order with the promo code is counted, unless uses has been written from
\* an outdated row.
LEMMA CountedOrder ==
  ASSUME IInv, NEW o \in Creator, Active(o), order[o].promo, ~promoDisputed
  PROVE  uses # 0
<1> DEFINE P == {x \in Creator : Active(x) /\ order[x].promo}
<1>1. uses = Cardinality(P)
  BY DEF IInv, PromoAccounting
<1>2. IsFiniteSet(Handler) /\ P \subseteq Handler
  BY MarketAssumption DEF Handler
<1>3. IsFiniteSet(P)
  BY <1>2, FS_Subset
<1>4. o \in P
  OBVIOUS
<1> HIDE DEF P
<1> QED BY <1>1, <1>3, <1>4, FS_EmptySet

LEMMA ReadPromoKeeps ==
  ASSUME IInv, NEW h \in Handler, ReadPromo(h)
  PROVE  IInv'
<1>1. pc[h] = "promo" /\ Running(h)
  BY DEF ReadPromo, Running
<1>2. PICK S : tx[h] \in Sessions(S)
  BY <1>1, RunnerFacts DEF Running
<1>3. uses \in 0 .. MaxUses /\ MaxUses \in Nat
  BY MarketAssumption DEF IInv, Typed
<1>4. ASSUME NEW n \in 0 .. MaxUses, NEW drop \in BOOLEAN, WriteUses(h, n, drop),
             \/ Op(h) = "create" /\ n = uses + 1
             \/ Op(h) # "create" /\ n = uses - 1 /\ drop = (Op(h) = "update")
      PROVE  IInv'
  <2> DEFINE w == [written |-> TRUE, from |-> uses, to |-> n]
             t == [tx[h] EXCEPT !.uses = w, !.drop = drop]
  <2>1. w \in Writes /\ w.written /\ w.from = uses /\ w.to = n
    BY <1>3 DEF Writes
  <2> HIDE DEF w
  <2>2. t \in Sessions(S) /\ t.promo = tx[h].promo /\ t.items = tx[h].items
        /\ t.stock = tx[h].stock /\ t.uses = w /\ t.drop = drop
    BY <1>2, <2>1 DEF Sessions
  <2>3. Continue(h, "commit", t)
    BY <1>4 DEF WriteUses, w
  <2> HIDE DEF t
  <2>4. PromoDecided(h)'
    BY <1>1, <1>4, <2>1, <2>2, <2>3, ContinuedDecision
  <2> QED BY <1>1, <2>2, <2>3, <2>4, PromoContinues
<1>5. ASSUME NEW drop \in BOOLEAN, GiveUseBack(h, drop), Op(h) # "create", drop = (Op(h) = "update")
      PROVE  IInv'
  <2>1. CASE uses > 0 /\ WriteUses(h, uses - 1, drop)
    <3>1. uses - 1 \in 0 .. MaxUses
      BY <1>3, <2>1
    <3> QED BY <1>4, <1>5, <2>1, <3>1
  <2>2. CASE uses = 0 /\ Continue(h, "commit", [tx[h] EXCEPT !.drop = drop])
    <3> DEFINE t == [tx[h] EXCEPT !.drop = drop]
    <3>1. t \in Sessions(S) /\ t.promo = tx[h].promo /\ t.items = tx[h].items
          /\ t.stock = tx[h].stock /\ t.uses = tx[h].uses /\ t.drop = drop
      BY <1>2 DEF Sessions
    <3>2. t.uses = NoWrite
      BY <1>1, <3>1 DEF IInv, HandlerInv, SessionFits
    <3>3. Lost(h)
      <4>1. OrderOf(h) \in Creator
        BY <1>1, OrderNames DEF IInv, HandlerInv
      <4> QED BY <2>2, <4>1, CountedOrder DEF Lost
    <3> HIDE DEF t
    <3>4. Continue(h, "commit", t)
      BY <2>2 DEF t
    <3>5. PromoDecided(h)'
      BY <1>1, <1>5, <3>1, <3>2, <3>3, <3>4, ContinuedDecision
    <3> QED BY <1>1, <3>1, <3>4, <3>5, PromoContinues
  <2> QED BY <1>5, <2>1, <2>2 DEF GiveUseBack
<1>6. CASE PromoInvalid(h)
  BY <1>1, <1>6, RefuseKeeps DEF PromoInvalid
<1>7. CASE PromoTaken(h)
  <2>1. uses + 1 \in 0 .. MaxUses
    BY <1>3, <1>7 DEF PromoTaken
  <2> QED BY <1>4, <1>7, <2>1 DEF PromoTaken
<1>8. CASE PromoKept(h)
  <2>1. tx[h].uses = NoWrite /\ ~tx[h].drop
    BY <1>1 DEF IInv, HandlerInv, SessionFits
  <2>2. PromoDecided(h)'
    BY <1>1, <1>2, <1>8, <2>1, ContinuedDecision DEF PromoKept
  <2> QED BY <1>1, <1>2, <1>8, <2>2, PromoContinues DEF PromoKept
<1>9. CASE PromoDropped(h)
  BY <1>5, <1>9 DEF PromoDropped
<1>10. CASE PromoReturned(h)
  BY <1>5, <1>10 DEF PromoReturned
<1> QED BY <1>6, <1>7, <1>8, <1>9, <1>10 DEF ReadPromo

LEMMA BeginKeeps ==
  ASSUME IInv, NEW h \in Handler, NEW r, Begin(h, r),
         (h \in Creator /\ r \in CreateRequests) \/ (h \in Changer /\ r \in ChangeRequests)
  PROVE  IInv'
<1> USE DEF committed, products, history
<1> DEFINE step == IF r.op = "create" THEN "rate" ELSE "load"
<1>1. /\ pc[h] = "none" /\ pc' = [pc EXCEPT ![h] = step] /\ req' = [req EXCEPT ![h] = r]
      /\ doneBefore' = [doneBefore EXCEPT ![h] = {g \in Handler : pc[g] = "done"}]
      /\ UNCHANGED <<committed, productLock, tx>>
  BY DEF Begin, Goto
<1>2. \/ /\ h \in Creator /\ h \notin Changer /\ r \in CreateRequests /\ r.op = "create" /\ step = "rate"
      \/ /\ h \in Changer /\ h \notin Creator /\ r \in ChangeRequests /\ r.op # "create" /\ step = "load"
  BY MarketAssumption DEF CreateRequests, ChangeRequests
<1>3. step \in Steps
  BY DEF Steps
<1> HIDE DEF step
<1>4. /\ pc' \in [Handler -> Steps] /\ pc'[h] = step
      /\ req' \in [Handler -> CreateRequests \union ChangeRequests \union {NoRequest}] /\ req'[h] = r
      /\ doneBefore' \in [Handler -> SUBSET Handler]
      /\ doneBefore'[h] = {g \in Handler : pc[g] = "done"}
      /\ \A g \in Handler \ {h} : pc'[g] = pc[g] /\ req'[g] = req[g] /\ doneBefore'[g] = doneBefore[g]
  BY <1>1, <1>2, <1>3 DEF IInv, Typed
<1>5. Typed'
  BY <1>1, <1>4 DEF IInv, Typed
<1>6. HandlerInv(h) /\ SessionFits(h)
  BY DEF IInv, HandlerInv
<1>7. HandlerInv(h)'
  <2>1. RequestFits(h)' /\ SessionFits(h)' /\ OrderIsLoaded(h)' /\ RateChecked(h)'
    BY <1>1, <1>2, <1>4, <1>6 DEF RequestFits, SessionFits, OrderIsLoaded, RateChecked, Steps
  <2>2. DoneFirst(h)'
    BY <1>1, <1>4 DEF DoneFirst
  <2>3. OrderIsOwn(h)' /\ ActiveChecked(h)'
    BY <1>1, <1>2, <1>4, RunnerFacts DEF OrderIsOwn, ActiveChecked
  <2> QED BY <2>1, <2>2, <2>3 DEF HandlerInv
<1>8. ASSUME NEW g \in Handler \ {h}
      PROVE  HandlerInv(g)' /\ RowsAreCurrent(g)'
  <2>1. Undisturbed(g)
    BY <1>1, <1>4 DEF Undisturbed
  <2>2. Bystands(g)
    BY <1>1, <1>4, <2>1 DEF Bystands, OrdersEvolve
  <2> QED BY <1>1, <2>1, <2>2, BystanderKeeps, BystanderRows DEF IInv, StockIsCurrent
<1>9. RowsAreCurrent(h)'
  BY <1>1, <1>6 DEF SessionFits, RowsAreCurrent
<1>10. RecentIsOwn'
  <2>1. \A x \in recent : x.by \in Handler
    BY DEF IInv, Typed
  <2> QED BY <1>1, <1>4, <2>1 DEF IInv, RecentIsOwn, Op
<1>11. RateLimitHolds'
  <2>1. \A x, y \in recent : x.by \in Handler \ {h} /\ y.by \in Handler \ {h}
    BY <1>1 DEF IInv, Typed, RecentIsOwn
  <2> QED BY <1>1, <1>4, <2>1 DEF IInv, RateLimitHolds
<1>12. PromoAccounting'
  BY <1>1 DEF IInv, PromoAccounting, Active
<1> QED BY <1>5, <1>7, <1>8, <1>9, <1>10, <1>11, <1>12 DEF IInv, StockIsCurrent

-----------------------------------------------------------------------------
(* Commit *)

\* What a commit writes of its order.
LEMMA WrittenOrder ==
  ASSUME IInv, NEW h \in Handler, Commit(h)
  PROVE  /\ OrderOf(h) \in Creator /\ Written(h) \in Orders
         /\ \/ /\ Op(h) = "create" /\ OrderOf(h) = h /\ order[h] = NoOrder
               /\ Written(h).status = "CREATED" /\ Written(h).user = req[h].user
               /\ Written(h).promo = req[h].promo
            \/ /\ Op(h) \in {"update", "cancel"} /\ order[OrderOf(h)] \in Orders
               /\ order[OrderOf(h)] # NoOrder
               /\ Written(h).user = order[OrderOf(h)].user
               /\ Op(h) = "update" => /\ Written(h).status = order[OrderOf(h)].status
                                      /\ Written(h).promo = (order[OrderOf(h)].promo /\ ~tx[h].drop)
               /\ Op(h) = "cancel" => /\ Written(h).status = "CANCELED"
                                      /\ Written(h).promo = order[OrderOf(h)].promo
<1>1. pc[h] = "commit" /\ Running(h)
  BY DEF Commit, Running
<1>2. RequestFits(h) /\ OrderIsLoaded(h)
  BY DEF IInv, HandlerInv
<1>3. OrderOf(h) \in Creator
  BY <1>1, <1>2, OrderNames
<1>4. CASE h \in Creator
  <2>1. Op(h) = "create" /\ req[h] \in CreateRequests /\ OrderOf(h) = h /\ order[h] = NoOrder
    BY <1>1, <1>2, <1>4, StepsOfHandlers, RunnerFacts DEF OrderOf
  <2>2. Written(h) = CreatedOrder(h)
    BY <2>1 DEF Written
  <2>3. List(h, req[h].items) \in Lists
    BY <2>1 DEF List, Lists, CreateRequests
  <2>4. req[h].user \in User /\ req[h].promo \in BOOLEAN
    BY <2>1 DEF CreateRequests
  <2> QED BY <1>3, <2>1, <2>2, <2>3, <2>4 DEF CreatedOrder, Orders
<1>5. CASE h \in Changer
  <2>1. Op(h) \in {"update", "cancel"} /\ req[h] \in ChangeRequests /\ OrderOf(h) = req[h].order
    BY <1>1, <1>2, <1>5, StepsOfHandlers DEF OrderOf
  <2>2. order[OrderOf(h)] # NoOrder /\ order[OrderOf(h)] \in Orders
    BY <1>1, <1>2, <1>3, <1>5, <2>1, OrderIsTyped DEF OrderIsLoaded, IInv
  <2>3. PICK S : tx[h] \in Sessions(S)
    BY <1>1, RunnerFacts
  <2>4. CASE Op(h) = "update"
    <3>1. Written(h) = UpdatedOrder(h)
      BY <2>4 DEF Written
    <3>2. req[h].items \in Baskets
      BY <2>1, <2>4 DEF ChangeRequests, Op
    <3>3. List(h, req[h].items) \in Lists
      BY <3>2 DEF List, Lists
    <3> DEFINE o == order[OrderOf(h)]
               items == (o.items \ tx[h].items) \union {List(h, req[h].items)}
               promo == o.promo /\ ~tx[h].drop
    <3>4. items \in SUBSET Lists /\ promo \in BOOLEAN
      BY <2>2, <2>3, <3>3 DEF Orders
    <3>5. Written(h) = [o EXCEPT !.items = items, !.promo = promo]
      BY <3>1 DEF UpdatedOrder
    <3> HIDE DEF items, promo
    <3>6. /\ Written(h) \in Orders /\ Written(h).user = o.user
          /\ Written(h).status = o.status /\ Written(h).promo = promo
      BY <2>2, <3>4, <3>5 DEF Orders
    <3> QED BY <1>3, <2>1, <2>2, <2>4, <3>6 DEF promo
  <2>5. CASE Op(h) = "cancel"
    <3>1. Written(h) = [order[OrderOf(h)] EXCEPT !.status = "CANCELED"]
      BY <2>5 DEF Written
    <3>2. /\ Written(h) \in Orders /\ Written(h).user = order[OrderOf(h)].user
          /\ Written(h).status = "CANCELED" /\ Written(h).promo = order[OrderOf(h)].promo
      BY <2>2, <3>1 DEF Orders
    <3> QED BY <1>3, <2>1, <2>2, <2>5, <3>2
  <2> QED BY <2>1, <2>4, <2>5
<1> QED BY <1>4, <1>5 DEF Handler

LEMMA CommitWrites ==
  ASSUME IInv, NEW h \in Handler, Commit(h)
  PROVE  /\ order' \in [Creator -> Orders \union {NoOrder}]
         /\ order'[OrderOf(h)] = Written(h)
         /\ \A o \in Creator \ {OrderOf(h)} : order'[o] = order[o]
  BY WrittenOrder DEF IInv, Typed, Commit

LEMMA CommitEvolves ==
  ASSUME IInv, NEW h \in Handler, Commit(h)
  PROVE  /\ OrdersEvolve
         /\ \A o \in Creator : order[o].status = "CANCELED" => order'[o].status = "CANCELED"
<1> SUFFICES ASSUME NEW o \in Creator
             PROVE  /\ order[o] = NoOrder /\ order'[o] # NoOrder => pc[o] # "done"
                    /\ order[o] # NoOrder =>
                         /\ order'[o] # NoOrder /\ order'[o].user = order[o].user
                         /\ order'[o].status = "CREATED" => order[o].status = "CREATED"
                         /\ order'[o].promo => order[o].promo
                    /\ order[o].status = "CANCELED" => order'[o].status = "CANCELED"
  BY DEF OrdersEvolve
<1>1. CASE o # OrderOf(h)
  BY <1>1, CommitWrites
<1>2. CASE o = OrderOf(h)
  <2>1. order'[o] = Written(h) /\ Written(h) \in Orders
    BY <1>2, WrittenOrder, CommitWrites
  <2>2. Written(h) # NoOrder
    <3>1. Written(h).status \in {"CREATED", "CANCELED"}
      BY <2>1 DEF Orders
    <3> QED BY <3>1 DEF NoOrder
  <2>3. CASE Op(h) = "create"
    <3>1. o = h /\ order[o] = NoOrder
      BY <1>2, <2>3, WrittenOrder
    <3>2. NoOrder.status = "NONE"
      BY DEF NoOrder
    <3>3. pc[h] = "commit"
      BY DEF Commit
    <3> QED BY <3>1, <3>2, <3>3
  <2>4. CASE Op(h) \in {"update", "cancel"}
    BY <1>2, <2>1, <2>2, <2>4, WrittenOrder
  <2> QED BY <2>3, <2>4, WrittenOrder
<1> QED BY <1>1, <1>2

\* The orders that count as uses of the promo code.
Counted == {o \in Creator : Active(o) /\ order[o].promo}

LEMMA CountedIsFinite ==
  IsFiniteSet(Counted)
<1>1. IsFiniteSet(Handler) /\ Counted \subseteq Handler
  BY MarketAssumption DEF Handler, Counted
<1> QED BY <1>1, FS_Subset

LEMMA CommitCounts ==
  ASSUME IInv, NEW h \in Handler, Commit(h)
  PROVE  PromoAccounting'
<1> DEFINE o == OrderOf(h)
           w == tx[h].uses
<1> SUFFICES ASSUME ~promoDisputed'
             PROVE  uses' = Cardinality(Counted')
  BY DEF PromoAccounting, Counted
<1>1. /\ pc[h] = "commit" /\ uses' = (IF w.written THEN w.to ELSE uses)
      /\ promoDisputed' = (promoDisputed \/ PromoOutdated(h))
  BY DEF Commit
<1>2. ~promoDisputed /\ ~PromoOutdated(h)
  BY <1>1
<1>3. uses = Cardinality(Counted) /\ uses \in Nat
  BY <1>2, MarketAssumption DEF IInv, Typed, PromoAccounting, Counted
<1>4. PromoDecided(h) /\ RequestFits(h) /\ OrderIsLoaded(h)
  BY <1>1 DEF IInv, HandlerInv, SessionFits
<1>5. o \in Creator /\ order'[o] = Written(h) /\ \A x \in Creator \ {o} : order'[x] = order[x]
  BY WrittenOrder, CommitWrites
<1>6. PICK S : tx[h] \in Sessions(S)
  BY <1>1, RunnerFacts
<1>7. w \in Writes
  BY <1>6 DEF Sessions
<1>8. w = NoWrite => ~w.written
  BY DEF NoWrite
<1>9. w.written => w.from = uses
  BY <1>2 DEF PromoOutdated
<1>10. \A x \in Creator \ {o} : x \in Counted' <=> x \in Counted
  BY <1>5 DEF Counted, Active
<1>11. Counted \subseteq Creator /\ Counted' \subseteq Creator
  BY DEF Counted
<1>12. o \in Counted <=> Active(o) /\ order[o].promo
  BY <1>5 DEF Counted
<1>13. o \in Counted' <=> Written(h).status = "CREATED" /\ Written(h).promo
  BY <1>5 DEF Counted, Active
<1> HIDE DEF o, w
<1>14. ASSUME o \in Counted <=> o \in Counted', uses' = uses
       PROVE  uses' = Cardinality(Counted')
  <2>1. Counted' = Counted
    BY <1>10, <1>11, <1>14
  <2> QED BY <1>3, <1>14, <2>1
<1>15. CASE Op(h) = "create"
  <2>1. /\ order[o] = NoOrder /\ o = h
        /\ Written(h).status = "CREATED" /\ Written(h).promo = req[h].promo
        /\ UsesPromo(h) = req[h].promo
    BY <1>15, WrittenOrder DEF o, UsesPromo
  <2>2. o \notin Counted
    BY <1>12, <2>1 DEF Active, NoOrder
  <2>3. CASE ~UsesPromo(h)
    BY <1>1, <1>4, <1>8, <1>13, <1>14, <2>1, <2>2, <2>3 DEF PromoDecided, w
  <2>4. CASE UsesPromo(h)
    <3>1. w.written /\ w.to = w.from + 1
      BY <1>4, <1>15, <2>4 DEF PromoDecided, w
    <3>2. uses' = uses + 1
      BY <1>1, <1>9, <3>1
    <3>3. Counted' = Counted \union {o}
      BY <1>5, <1>10, <1>11, <1>13, <2>1, <2>4
    <3>4. Cardinality(Counted \union {o}) = Cardinality(Counted) + 1
      BY <2>2, CountedIsFinite, FS_AddElement
    <3> QED BY <1>3, <3>2, <3>3, <3>4
  <2> QED BY <2>3, <2>4
<1>16. CASE Op(h) \in {"update", "cancel"}
  <2>1. h \in Changer /\ o = req[h].order
    BY <1>1, <1>4, <1>16, StepsOfHandlers DEF Handler, o, OrderOf
  <2>2. UsesPromo(h) = tx[h].promo /\ Op(h) # "create"
    BY <1>16 DEF UsesPromo
  <2>3. order[o].promo => tx[h].promo
    BY <1>1, <1>4, <2>1 DEF OrderIsLoaded
  <2>4. Written(h).promo => order[o].promo
    BY <1>16, WrittenOrder DEF o
  <2>5. CASE ~tx[h].promo
    <3>1. ~w.written
      BY <1>4, <1>8, <2>2, <2>5 DEF PromoDecided, w
    <3> QED BY <1>1, <1>12, <1>13, <1>14, <2>3, <2>4, <2>5, <3>1
  <2>6. CASE tx[h].promo
    <3>1. ~ItemsOutdated(h) /\ order[o].promo
      BY <1>2, <2>2, <2>6 DEF PromoOutdated, o
    <3>2. Active(o)
      BY <2>2, <3>1 DEF ItemsOutdated, Active, o
    <3>3. o \in Counted /\ ~Lost(h)
      BY <1>2, <1>12, <3>1, <3>2 DEF Lost, o
    <3>4. CASE Op(h) = "update" /\ w = NoWrite /\ ~tx[h].drop
      <4>1. Written(h).status = "CREATED" /\ Written(h).promo
        BY <3>1, <3>2, <3>4, WrittenOrder DEF Active, o
      <4> QED BY <1>1, <1>8, <1>13, <1>14, <3>3, <3>4, <4>1
    <3>5. CASE tx[h].drop = (Op(h) = "update") /\ w.written /\ w.to = w.from - 1
      <4>1. uses' = uses - 1
        BY <1>1, <1>9, <3>5
      <4>2. o \notin Counted'
        BY <1>13, <1>16, <3>5, WrittenOrder DEF o
      <4>3. Counted' = Counted \ {o}
        BY <1>10, <1>11, <3>3, <4>2
      <4>4. Cardinality(Counted \ {o}) = Cardinality(Counted) - 1
        BY <3>3, CountedIsFinite, FS_RemoveElement
      <4> QED BY <1>3, <4>1, <4>3, <4>4
    <3> QED BY <1>4, <2>2, <2>6, <3>3, <3>4, <3>5 DEF PromoDecided, w
  <2> QED BY <1>6, <2>5, <2>6 DEF Sessions
<1> QED BY <1>15, <1>16, WrittenOrder

LEMMA CommitKeeps ==
  ASSUME IInv, NEW h \in Handler, Commit(h)
  PROVE  IInv'
<1>1. /\ pc[h] = "commit" /\ Running(h)
      /\ pc' = [pc EXCEPT ![h] = "done"] /\ tx' = [tx EXCEPT ![h] = Fresh]
      /\ stock' = [p \in Product |-> IF p \in DOMAIN tx[h].stock THEN tx[h].stock[p] ELSE stock[p]]
      /\ uses' = IF tx[h].uses.written THEN tx[h].uses.to ELSE uses
      /\ recent' = recent \union Recorded(h)
      /\ promoDisputed' = (promoDisputed \/ PromoOutdated(h))
      /\ productLock' = [p \in Product |-> IF productLock[p] = h THEN Free ELSE productLock[p]]
      /\ UNCHANGED <<req, doneBefore>>
  BY DEF Commit, Close, Goto, Running
<1>2. HandlerInv(h) /\ RequestFits(h) /\ RateChecked(h) /\ ActiveChecked(h) /\ RowsAreCurrent(h)
  BY DEF IInv, HandlerInv, StockIsCurrent
<1>3. /\ pc' \in [Handler -> Steps] /\ pc'[h] = "done"
      /\ \A g \in Handler \ {h} : pc'[g] = pc[g]
  BY <1>1 DEF IInv, Typed, Steps
<1>4. Fresh \in Sessions({<<>>}) /\ Fresh.stock = <<>> /\ Fresh.uses = NoWrite /\ ~Fresh.drop
  BY DEF Fresh, Sessions, Writes
<1>5. /\ \E S : tx' \in [Handler -> Sessions(S)]
      /\ tx'[h] = Fresh /\ \A g \in Handler \ {h} : tx'[g] = tx[g]
  BY <1>1, <1>4, SessionMoves DEF IInv
<1>6. Recorded(h) \subseteq [user : User, op : {"create", "update"}, by : Handler]
      /\ \A x \in Recorded(h) : x.by = h /\ x.user = req[h].user /\ x.op = Op(h) /\ Op(h) # "cancel"
  <2>1. req[h].user \in User /\ Op(h) \in {"create", "update", "cancel"}
    BY <1>1, <1>2 DEF RequestFits, Handler, Op, CreateRequests, ChangeRequests
  <2> QED BY <2>1 DEF Recorded
<1>7. Typed'
  <2>1. uses' \in 0 .. MaxUses
    <3>1. PICK S : tx[h] \in Sessions(S)
      BY <1>1, RunnerFacts
    <3>2. tx[h].uses \in Writes
      BY <3>1 DEF Sessions
    <3>3. tx[h].uses.written => tx[h].uses.to \in 0 .. MaxUses
      <4>1. ~NoWrite.written
        BY DEF NoWrite
      <4>2. CASE tx[h].uses = NoWrite
        BY <4>1, <4>2
      <4>3. CASE tx[h].uses \in [written : {TRUE}, from : 0 .. MaxUses, to : 0 .. MaxUses]
        BY <4>3
      <4> QED BY <3>2, <4>2, <4>3 DEF Writes
    <3> QED BY <1>1, <3>3 DEF IInv, Typed
  <2>2. order' \in [Creator -> Orders \union {NoOrder}]
    BY CommitWrites
  <2>3. promoDisputed' \in BOOLEAN
    BY <1>1
  <2>4. productLock' \in [Product -> Handler \union {Free}] /\ stock' = [p \in Product |-> stock'[p]]
    BY <1>1 DEF IInv, Typed
  <2> QED BY <1>1, <1>3, <1>5, <1>6, <2>1, <2>2, <2>3, <2>4 DEF IInv, Typed
<1>8. ASSUME NEW g \in Handler \ {h}
      PROVE  HandlerInv(g)' /\ RowsAreCurrent(g)'
  <2>1. Undisturbed(g)
    BY <1>1, <1>3, <1>5 DEF Undisturbed
  <2>2. g \in Creator /\ order'[g] # NoOrder => order[g] # NoOrder
    <3>1. CASE g # OrderOf(h)
      BY <3>1, CommitWrites
    <3>2. CASE g = OrderOf(h)
      BY <3>2, WrittenOrder
    <3> QED BY <3>1, <3>2
  <2>3. Bystands(g)
    BY <1>1, <1>3, <1>6, <2>1, <2>2, CommitEvolves DEF Bystands
  <2>4. HandlerInv(g)'
    BY <2>3, BystanderKeeps DEF IInv
  <2>5. \A p \in Product : productLock[p] = g =>
           productLock'[p] = productLock[p] /\ stock'[p] = stock[p]
    BY <1>1, <1>2 DEF RowsAreCurrent
  <2> QED BY <2>1, <2>4, <2>5, BystanderRows DEF IInv, StockIsCurrent
<1>9. RowsAreCurrent(h)'
  BY <1>4, <1>5 DEF RowsAreCurrent
<1>10. HandlerInv(h)'
  <2>1. RequestFits(h)'
    BY <1>1, <1>2, <1>3 DEF RequestFits, Steps
  <2>2. SessionFits(h)' /\ OrderIsLoaded(h)' /\ RateChecked(h)'
    BY <1>3, <1>4, <1>5 DEF SessionFits, OrderIsLoaded, RateChecked
  <2>3. DoneFirst(h)'
    BY <1>1, <1>2, <1>3, RunnerFacts DEF HandlerInv, DoneFirst
  <2>4. h \in Creator => OrderOf(h) = h /\ order'[h] = Written(h) /\ Written(h).user = req[h].user
    BY <1>1, <1>2, WrittenOrder, CommitWrites, StepsOfHandlers
  <2>5. OrderIsOwn(h)'
    BY <1>1, <1>3, <2>4 DEF OrderIsOwn
  <2>6. ActiveChecked(h)'
    <3> SUFFICES ASSUME h \in Creator, NEW d \in doneBefore[h] \intersect Creator,
                        d # h, Active(d)'
                 PROVE  order'[d].user # req[h].user
      BY <1>1 DEF ActiveChecked
    <3>1. order'[d] = order[d]
      BY <2>4, CommitWrites
    <3> QED BY <1>1, <1>2, <3>1 DEF ActiveChecked, Active
  <2> QED BY <2>1, <2>2, <2>3, <2>5, <2>6 DEF HandlerInv
<1>11. RecentIsOwn'
  <2>1. \A x \in recent : x.by \in Handler
    BY DEF IInv, Typed
  <2> QED BY <1>1, <1>3, <1>6, <2>1 DEF IInv, RecentIsOwn, Op
<1>12. RateLimitHolds'
  <2> SUFFICES ASSUME NEW x \in recent', NEW y \in recent',
                      x # y, x.user = y.user, x.op = y.op
               PROVE  x.by \notin doneBefore[y.by]
    BY <1>1 DEF RateLimitHolds
  <2>1. CASE x \in recent /\ y \in recent
    BY <2>1 DEF IInv, RateLimitHolds
  <2>2. CASE x \in Recorded(h)
    <3>1. x.by = h /\ y.by \in Handler
      BY <1>6, <2>2, <1>7 DEF Typed
    <3>2. DoneFirst(y.by)
      BY <3>1 DEF IInv, HandlerInv
    <3> QED BY <1>1, <3>1, <3>2 DEF DoneFirst
  <2>3. CASE x \in recent /\ y \in Recorded(h)
    <3>1. y.by = h /\ y.user = req[h].user /\ y.op = Op(h) /\ Op(h) # "cancel"
      BY <1>6, <2>3
    <3> QED BY <1>1, <1>2, <2>3, <3>1 DEF RateChecked
  <2> QED BY <1>1, <2>1, <2>2, <2>3
<1>13. PromoAccounting'
  BY CommitCounts
<1> QED BY <1>7, <1>8, <1>9, <1>10, <1>11, <1>12, <1>13 DEF IInv, StockIsCurrent

-----------------------------------------------------------------------------
(* Time, and the sellers *)

LEMMA OthersKeep ==
  ASSUME IInv, UNCHANGED <<order, uses, history, productLock, pc, req, tx, doneBefore>>,
         recent' \subseteq recent, stock' = [p \in Product |-> stock'[p]],
         \A p \in Product : productLock[p] # Free => stock'[p] = stock[p]
  PROVE  IInv'
<1> USE DEF history
<1>1. Typed'
  BY DEF IInv, Typed
<1>2. ASSUME NEW g \in Handler
      PROVE  HandlerInv(g)' /\ RowsAreCurrent(g)'
  <2>1. Undisturbed(g) /\ Bystands(g)
    BY DEF Undisturbed, Bystands, OrdersEvolve
  <2>2. \A p \in Product : productLock[p] = g =>
           productLock'[p] = productLock[p] /\ stock'[p] = stock[p]
    BY MarketAssumption
  <2> QED BY <2>1, <2>2, BystanderKeeps, BystanderRows DEF IInv, StockIsCurrent
<1>3. RecentIsOwn' /\ RateLimitHolds'
  BY DEF IInv, RecentIsOwn, RateLimitHolds, Op
<1>4. PromoAccounting'
  BY DEF IInv, PromoAccounting, Active
<1> QED BY <1>1, <1>2, <1>3, <1>4 DEF IInv, StockIsCurrent

LEMMA WindowPassesKeeps ==
  ASSUME IInv, NEW x, WindowPasses(x)
  PROVE  IInv'
  BY OthersKeep DEF WindowPasses, products, IInv, Typed

LEMMA SellerStepKeeps ==
  ASSUME IInv, NEW p \in Product, SellerStep(p)
  PROVE  IInv'
<1>1. PICK s, n : ChangeProduct(p, s, n)
  BY DEF SellerStep
<1>2. stock = [q \in Product |-> stock[q]]
  BY DEF IInv, Typed
<1>3. stock' = [stock EXCEPT ![p] = n] /\ productLock[p] = Free /\ UNCHANGED recent
      /\ UNCHANGED <<order, uses, history, productLock, pc, req, tx, doneBefore>>
  BY <1>1 DEF ChangeProduct
<1>4. stock' = [q \in Product |-> stock'[q]] /\ \A q \in Product \ {p} : stock'[q] = stock[q]
  BY <1>2, <1>3
<1> QED BY <1>3, <1>4, OthersKeep

-----------------------------------------------------------------------------
(* The theorems *)

LEMMA InitHolds ==
  ASSUME Init
  PROVE  IInv
<1>1. Fresh \in Sessions({<<>>}) /\ Fresh.stock = <<>> /\ Fresh.uses = NoWrite /\ ~Fresh.drop
  BY DEF Fresh, Sessions, Writes
<1>2. tx \in [Handler -> Sessions({<<>>})] /\ \A h \in Handler : tx[h] = Fresh
  BY <1>1 DEF Init
<1>3. /\ pc \in [Handler -> Steps] /\ \A h \in Handler : pc[h] = "none"
      /\ doneBefore \in [Handler -> SUBSET Handler] /\ \A h \in Handler : doneBefore[h] = {}
      /\ req \in [Handler -> CreateRequests \union ChangeRequests \union {NoRequest}]
  BY DEF Init, Steps
<1>4. order \in [Creator -> Orders \union {NoOrder}] /\ \A o \in Creator : order[o] = NoOrder
  BY DEF Init
<1>5. uses = 0 /\ recent = {} /\ promoDisputed = FALSE
      /\ productLock \in [Product -> Handler \union {Free}]
      /\ stock = [p \in Product |-> stock[p]]
  BY DEF Init
<1>6. Typed
  <2>1. uses \in 0 .. MaxUses
    BY <1>5, MarketAssumption
  <2>2. \E S : tx \in [Handler -> Sessions(S)]
    BY <1>2
  <2>3. recent \subseteq [user : User, op : {"create", "update"}, by : Handler] /\ promoDisputed \in BOOLEAN
    BY <1>5
  <2> QED BY <1>3, <1>4, <1>5, <2>1, <2>2, <2>3 DEF Typed
<1>7. ASSUME NEW h \in Handler
      PROVE  HandlerInv(h) /\ RowsAreCurrent(h)
  BY <1>1, <1>2, <1>3, <1>4, <1>5
  DEF HandlerInv, RequestFits, SessionFits, OrderIsLoaded, DoneFirst, OrderIsOwn, ActiveChecked,
      RateChecked, RowsAreCurrent, Steps
<1>8. RecentIsOwn /\ RateLimitHolds
  BY <1>5 DEF RecentIsOwn, RateLimitHolds
<1>9. PromoAccounting
  <2>1. NoOrder.status # "CREATED"
    BY DEF NoOrder
  <2>2. {o \in Creator : Active(o) /\ order[o].promo} = {}
    BY <1>4, <2>1 DEF Active
  <2> QED BY <1>5, <2>2, FS_EmptySet DEF PromoAccounting
<1> QED BY <1>6, <1>7, <1>8, <1>9 DEF IInv, StockIsCurrent

LEMMA StepKeeps ==
  ASSUME IInv, [Next]_vars
  PROVE  IInv'
<1>1. CASE \E h \in Creator, r \in CreateRequests : Begin(h, r)
  BY <1>1, BeginKeeps DEF Handler
<1>2. CASE \E h \in Changer, r \in ChangeRequests : Begin(h, r)
  BY <1>2, BeginKeeps DEF Handler
<1>3. ASSUME NEW h \in Handler, Statement(h)
      PROVE  IInv'
  BY <1>3, LoadOrderKeeps, CheckRateLimitKeeps, CheckActiveKeeps, LoadItemsKeeps,
     LockProductsKeeps, ReadPromoKeeps, CommitKeeps DEF Statement
<1>4. ASSUME NEW h \in Handler, Abort(h)
      PROVE  IInv'
  BY <1>4, RefuseKeeps DEF Abort
<1>5. CASE \E x \in recent : WindowPasses(x)
  BY <1>5, WindowPassesKeeps
<1>6. CASE \E p \in Product : SellerStep(p)
  BY <1>6, SellerStepKeeps
<1>7. CASE UNCHANGED vars
  BY <1>7, Stutters
<1> QED BY <1>1, <1>2, <1>3, <1>4, <1>5, <1>6, <1>7 DEF Next

\* The inductive invariant: what each handler of create_order, update_order and
\* cancel_order knows at the statement it is at, and the counts of the promo code.
THEOREM Inductive == Spec => []IInv
<1>1. Init => IInv
  BY InitHolds
<1>2. IInv /\ [Next]_vars => IInv'
  BY StepKeeps
<1> QED BY <1>1, <1>2, PTL DEF Spec

\* current_uses is the number of the live orders with the promo code, for any number
\* of requests, unless a handler has committed what it computed from an outdated row.
THEOREM PromoIsCounted == Spec => []PromoAccounting
<1>1. IInv => PromoAccounting
  BY DEF IInv
<1> QED BY <1>1, Inductive, PTL

\* The one live order per user and the rate limit, checked without a lock, hold
\* between any requests that do not overlap.
THEOREM ChecksHold == Spec => []UnlockedChecksHold
<1>1. IInv => UnlockedChecksHold
  <2> SUFFICES ASSUME IInv
               PROVE  OneActiveOrder
    BY DEF IInv, UnlockedChecksHold
  <2> SUFFICES ASSUME NEW o1 \in Creator, NEW o2 \in Creator, o1 # o2, Active(o1), Active(o2),
                      order[o1].user = order[o2].user, o1 \in doneBefore[o2]
               PROVE  FALSE
    BY DEF OneActiveOrder
  <2>1. order[o2] # NoOrder
    BY DEF Active, NoOrder
  <2>2. o2 \in Handler /\ HandlerInv(o2)
    BY DEF IInv, Handler
  <2>3. order[o2].user = req[o2].user
    BY <2>1, <2>2 DEF HandlerInv, OrderIsOwn
  <2> QED BY <2>1, <2>2, <2>3 DEF HandlerInv, ActiveChecked
<1> QED BY <1>1, Inductive, PTL

\* A row lock keeps the stock a session has computed current until it is written,
\* whatever other handlers and sellers do.
THEOREM StockStaysCurrent == Spec => []StockIsCurrent
<1>1. IInv => StockIsCurrent
  BY DEF IInv
<1> QED BY <1>1, Inductive, PTL

\* A cancelled order stays cancelled, whatever update_order has read before.
THEOREM CanceledStays == Spec => CanceledIsFinal
<1> DEFINE Final == \A o \in Creator : order[o].status = "CANCELED" => order'[o].status = "CANCELED"
<1>1. IInv /\ [Next]_vars => [Final]_vars
  <2> SUFFICES ASSUME IInv, Next
               PROVE  Final
    OBVIOUS
  <2>1. ASSUME NEW h \in Handler, Commit(h)
        PROVE  Final
    BY <2>1, CommitEvolves
  <2>2. ASSUME UNCHANGED order
        PROVE  Final
    BY <2>2
  <2>3. ASSUME NEW h \in Handler, Statement(h)
        PROVE  Final
    BY <2>1, <2>2, <2>3
    DEF Statement, LoadOrder, CheckRateLimit, CheckActive, LoadItems, LockProducts, TakeProducts,
        ReadPromo, PromoInvalid, PromoTaken, PromoKept, PromoDropped, PromoReturned, GiveUseBack,
        WriteUses, Continue, Refuse, committed
  <2> HIDE DEF Final
  <2> QED BY <2>2, <2>3
    DEF Next, Begin, Abort, Refuse, WindowPasses, SellerStep, ChangeProduct, committed
<1> QED BY <1>1, Inductive, PTL DEF Spec, CanceledIsFinal

-----------------------------------------------------------------------------
(* Sums.  MapThenSumSet takes the elements of a set one by one; the sum is the *)
(* number of the pairs of an element and a unit, in whatever order.            *)

Units(f, S) == UNION {{x} \X (1 .. f[x]) : x \in S}
Total(f, S) == Cardinality(Units(f, S))

LEMMA UnitsAreFinite ==
  ASSUME NEW S, IsFiniteSet(S), NEW f \in [S -> Nat], NEW T \in SUBSET S
  PROVE  IsFiniteSet(Units(f, T)) /\ Total(f, T) \in Nat
<1> DEFINE V == {{x} \X (1 .. f[x]) : x \in T}
<1>1. IsFiniteSet(T)
  BY FS_Subset
<1>2. IsFiniteSet(V)
  <2> DEFINE g == [x \in T |-> {x} \X (1 .. f[x])]
  <2>1. g \in Surjection(T, V)
    BY DEF Surjection
  <2> HIDE DEF g, V
  <2> QED BY <1>1, <2>1, FS_Surjection
<1>3. ASSUME NEW x \in T PROVE IsFiniteSet({x} \X (1 .. f[x]))
  <2>1. f[x] \in Nat
    OBVIOUS
  <2>2. IsFiniteSet({x}) /\ IsFiniteSet(1 .. f[x])
    <3>1. IsFiniteSet({x})
      BY FS_Singleton
    <3>2. 1 \in Int /\ f[x] \in Int
      BY <2>1
    <3> QED BY <3>1, <3>2, FS_Interval
  <2> QED BY <2>2, FS_Product
<1>4. IsFiniteSet(UNION V)
  <2>1. \A v \in V : IsFiniteSet(v)
    BY <1>3
  <2> HIDE DEF V
  <2> QED BY <1>2, <2>1, FS_UNION
<1> QED BY <1>4, FS_CardinalityType DEF Units, Total

LEMMA TotalOfOneMore ==
  ASSUME NEW S, IsFiniteSet(S), NEW f \in [S -> Nat], NEW T \in SUBSET S, NEW x \in T
  PROVE  Total(f, T) = f[x] + Total(f, T \ {x})
<1> DEFINE A == {x} \X (1 .. f[x])
           B == Units(f, T \ {x})
<1>1. f[x] \in Nat
  OBVIOUS
<1>2. IsFiniteSet(A) /\ Cardinality(A) = f[x]
  <2>1. IsFiniteSet({x}) /\ Cardinality({x}) = 1
    BY FS_Singleton
  <2>2. IsFiniteSet(1 .. f[x]) /\ Cardinality(1 .. f[x]) = f[x]
    BY <1>1, FS_Interval
  <2> QED BY <1>1, <2>1, <2>2, FS_Product
<1>3. IsFiniteSet(B) /\ Cardinality(B) \in Nat
  BY UnitsAreFinite DEF Total
<1>4. Units(f, T) = A \union B
  BY DEF Units
<1>5. A \intersect B = {}
  BY DEF Units
<1> HIDE DEF A, B
<1>6. Cardinality(A \union B) = Cardinality(A) + Cardinality(B)
  <2>1. Cardinality(A \intersect B) = 0
    BY <1>5, FS_EmptySet
  <2>2. Cardinality(A \union B) = Cardinality(A) + Cardinality(B) - Cardinality(A \intersect B)
    BY <1>2, <1>3, FS_Union
  <2> QED BY <1>1, <1>2, <1>3, <2>1, <2>2
<1> QED BY <1>2, <1>4, <1>6 DEF Total, B

LEMMA TotalOfNone == \A f : Total(f, {}) = 0
BY FS_EmptySet DEF Total, Units

LEMMA SumIsTotal ==
  ASSUME NEW S, IsFiniteSet(S), NEW f \in [S -> Nat],
         NEW g, g = [s \in SUBSET S |-> IF s = {} THEN 0
                       ELSE f[CHOOSE x \in s : TRUE] + g[s \ {CHOOSE x \in s : TRUE}]]
  PROVE  g[S] = Total(f, S)
<1> DEFINE Wrong == {n \in Nat : \E s \in SUBSET S : Cardinality(s) = n /\ g[s] # Total(f, s)}
           R == {ss \in Nat \X Nat : ss[1] < ss[2]}
<1>1. SUFFICES ASSUME Wrong # {} PROVE FALSE
  <2>1. S \in SUBSET S /\ Cardinality(S) \in Nat
    BY FS_CardinalityType
  <2> QED BY <1>1, <2>1
<1>2. IsWellFoundedOn(R, Nat)
  BY NatLessThanWellFounded DEF OpToRel
<1>3. PICK n \in Wrong : \A m \in Wrong : <<m, n>> \notin R
  <2> HIDE DEF R
  <2>1. Wrong \subseteq Nat
    OBVIOUS
  <2> HIDE DEF Wrong
  <2> QED BY <1>1, <1>2, <2>1, WFMin
<1>4. PICK s \in SUBSET S : Cardinality(s) = n /\ g[s] # Total(f, s)
  BY <1>3
<1>5. IsFiniteSet(s) /\ n \in Nat
  BY <1>4, FS_Subset
<1>6. s # {}
  BY <1>4, TotalOfNone
<1> DEFINE x == CHOOSE y \in s : TRUE
<1>7. x \in s
  BY <1>6
<1> HIDE DEF x
<1>8. g[s] = f[x] + g[s \ {x}]
  BY <1>6 DEF x
<1>9. Cardinality(s \ {x}) = n - 1 /\ n - 1 \in Nat /\ n - 1 < n
  <2>1. Cardinality(s \ {x}) = n - 1 /\ Cardinality(s \ {x}) \in Nat
    BY <1>4, <1>5, <1>7, FS_RemoveElement, FS_CardinalityType
  <2> QED BY <1>5, <2>1
<1>10. g[s \ {x}] = Total(f, s \ {x})
  <2>1. <<n - 1, n>> \in R
    BY <1>5, <1>9
  <2>2. n - 1 \notin Wrong
    BY <1>3, <2>1
  <2> QED BY <1>9, <2>2
<1>11. Total(f, s) = f[x] + Total(f, s \ {x})
  BY <1>7, TotalOfOneMore
<1> QED BY <1>4, <1>8, <1>10, <1>11

\* An amount changes, and the sum by as much.
LEMMA AmountsChange ==
  ASSUME NEW S, IsFiniteSet(S), NEW f \in [S -> Nat], NEW g \in [S -> Nat], NEW x \in S,
         \A y \in S \ {x} : g[y] = f[y]
  PROVE  Total(g, S) = Total(f, S) + g[x] - f[x]
<1>1. Units(g, S \ {x}) = Units(f, S \ {x})
  <2>1. \A y \in S \ {x} : {y} \X (1 .. g[y]) = {y} \X (1 .. f[y])
    OBVIOUS
  <2> QED BY <2>1 DEF Units
<1>2. Total(f, S \ {x}) \in Nat /\ Total(f, S) \in Nat
  BY UnitsAreFinite
<1>3. Total(f, S) = f[x] + Total(f, S \ {x}) /\ Total(g, S) = g[x] + Total(g, S \ {x})
  BY TotalOfOneMore
<1> QED BY <1>1, <1>2, <1>3 DEF Total

LEMMA TotalIsNone ==
  ASSUME NEW S, NEW f, \A x \in S : f[x] = 0
  PROVE  Total(f, S) = 0
<1>1. \A x \in S : {x} \X (1 .. f[x]) = {}
  OBVIOUS
<1>2. Units(f, S) = {}
  BY <1>1 DEF Units
<1> QED BY <1>2, FS_EmptySet DEF Total

\* The units of a product that the lists of an order ask for.
LEMMA QuantityIsTotal ==
  ASSUME NEW lists \in SUBSET Lists, IsFiniteSet(lists), NEW p \in Product
  PROVE  /\ [l \in lists |-> l.items[p]] \in [lists -> Nat]
         /\ Quantity(lists, p) = Total([l \in lists |-> l.items[p]], lists)
<1> DEFINE f == [l \in lists |-> l.items[p]]
           It(g) == g = [s \in SUBSET lists |-> IF s = {} THEN 0
                       ELSE (CHOOSE x \in s : TRUE).items[p] + g[s \ {CHOOSE x \in s : TRUE}]]
           total == [s \in SUBSET lists |-> Total(f, s)]
           iter == CHOOSE g : It(g)
<1>1. f \in [lists -> Nat]
  BY MarketAssumption DEF Lists
<1>2. \A s \in SUBSET lists : s # {} =>
        /\ f[CHOOSE x \in s : TRUE] = (CHOOSE x \in s : TRUE).items[p]
        /\ Total(f, s) = f[CHOOSE x \in s : TRUE] + Total(f, s \ {CHOOSE x \in s : TRUE})
  <2> SUFFICES ASSUME NEW s \in SUBSET lists, s # {}
               PROVE  /\ f[CHOOSE x \in s : TRUE] = (CHOOSE x \in s : TRUE).items[p]
                      /\ Total(f, s) = f[CHOOSE x \in s : TRUE]
                                         + Total(f, s \ {CHOOSE x \in s : TRUE})
    OBVIOUS
  <2>1. PICK x \in s : x = CHOOSE y \in s : TRUE
    OBVIOUS
  <2>2. f[x] = x.items[p]
    OBVIOUS
  <2> HIDE DEF f
  <2>3. Total(f, s) = f[x] + Total(f, s \ {x})
    BY <1>1, TotalOfOneMore
  <2> QED BY <2>1, <2>2, <2>3
<1> HIDE DEF f
<1>3. It(total)
  <2>1. \A s \in SUBSET lists : Total(f, s) =
          IF s = {} THEN 0
          ELSE (CHOOSE x \in s : TRUE).items[p] + Total(f, s \ {CHOOSE x \in s : TRUE})
    BY <1>2, TotalOfNone
  <2>2. \A s \in SUBSET lists : total[s \ {CHOOSE x \in s : TRUE}] = Total(f, s \ {CHOOSE x \in s : TRUE})
    OBVIOUS
  <2>3. \A s \in SUBSET lists : Total(f, s) =
          IF s = {} THEN 0
          ELSE (CHOOSE x \in s : TRUE).items[p] + total[s \ {CHOOSE x \in s : TRUE}]
    BY <2>1, <2>2
  <2> QED BY <2>3
<1>4. It(iter)
  BY <1>3, Zenon
<1>5. Quantity(lists, p) = iter[lists]
  BY Zenon DEF Quantity, MapThenSumSet, MapThenFoldSet
<1> HIDE DEF iter
<1>6. iter = [s \in SUBSET lists |-> IF s = {} THEN 0
                ELSE f[CHOOSE x \in s : TRUE] + iter[s \ {CHOOSE x \in s : TRUE}]]
  <2>1. \A s \in SUBSET lists :
          (IF s = {} THEN 0 ELSE (CHOOSE x \in s : TRUE).items[p] + iter[s \ {CHOOSE x \in s : TRUE}])
          = (IF s = {} THEN 0 ELSE f[CHOOSE x \in s : TRUE] + iter[s \ {CHOOSE x \in s : TRUE}])
    BY <1>2
  <2> QED BY <1>4, <2>1, Zenon
<1>7. iter[lists] = Total(f, lists)
  BY <1>1, <1>6, SumIsTotal
<1> QED BY <1>1, <1>5, <1>7 DEF f

LEMMA QuantityFacts ==
  ASSUME NEW lists \in SUBSET Lists, IsFiniteSet(lists), NEW p \in Product
  PROVE  /\ Quantity(lists, p) \in Nat
         /\ Quantity(lists, p) > 0 => \E l \in lists : l.items[p] > 0
         /\ \A l \in lists : l.items[p] \in Nat /\ l.items[p] <= Quantity(lists, p)
<1> DEFINE f == [l \in lists |-> l.items[p]]
<1>1. f \in [lists -> Nat] /\ Quantity(lists, p) = Total(f, lists)
  BY QuantityIsTotal
<1>2. \A l \in lists : f[l] = l.items[p]
  OBVIOUS
<1> HIDE DEF f
<1>3. Total(f, lists) \in Nat
  BY <1>1, UnitsAreFinite
<1>4. (\A l \in lists : f[l] = 0) => Total(f, lists) = 0
  BY TotalIsNone
<1>5. \A l \in lists : f[l] \in Nat /\ f[l] <= Total(f, lists)
  <2> SUFFICES ASSUME NEW l \in lists
               PROVE  f[l] \in Nat /\ f[l] <= Total(f, lists)
    OBVIOUS
  <2>1. Total(f, lists) = f[l] + Total(f, lists \ {l}) /\ Total(f, lists \ {l}) \in Nat
    BY <1>1, TotalOfOneMore, UnitsAreFinite
  <2> QED BY <1>1, <2>1
<1> QED BY <1>1, <1>2, <1>3, <1>4, <1>5

LEMMA QuantityOfFew ==
  ASSUME NEW p \in Product
  PROVE  /\ Quantity({}, p) = 0
         /\ \A l \in Lists : Quantity({l}, p) = l.items[p]
<1>1. Quantity({}, p) = 0
  <2>1. {} \in SUBSET Lists /\ IsFiniteSet({})
    BY FS_EmptySet
  <2> QED BY <2>1, QuantityFacts
<1>2. ASSUME NEW l \in Lists
      PROVE  Quantity({l}, p) = l.items[p]
  <2> DEFINE f == [k \in {l} |-> k.items[p]]
  <2>1. {l} \in SUBSET Lists /\ IsFiniteSet({l})
    BY FS_Singleton
  <2>2. f \in [{l} -> Nat] /\ Quantity({l}, p) = Total(f, {l}) /\ f[l] = l.items[p]
    BY <2>1, QuantityIsTotal
  <2> HIDE DEF f
  <2>3. Total(f, {l}) = f[l] + Total(f, {l} \ {l})
    BY <2>1, <2>2, TotalOfOneMore
  <2>4. {l} \ {l} = {} /\ f[l] \in Nat
    BY <2>2
  <2> QED BY <2>2, <2>3, <2>4, TotalOfNone
<1> QED BY <1>1, <1>2

-----------------------------------------------------------------------------
(* The stock *)

\* What an order, or a session, lists has been on sale.
Offered(lists) ==
  IsFiniteSet(lists) /\ \A l \in lists, p \in Product : l.items[p] > 0 => status[p] # "NONE"

SessionOffered(h) == Offered(tx[h].items) /\ (h \in Creator => tx[h].items = {})

\* A session that has locked its products holds every row it needs, and enough of it.
RowsTaken(h) ==
  pc[h] \in {"promo", "commit"} =>
    /\ \A p \in Product : p \in DOMAIN tx[h].stock <=> Wanted(h, p) + Quantity(tx[h].items, p) > 0
    /\ \A p \in Product : Wanted(h, p) > 0 => status[p] # "NONE"
    /\ \A p \in DOMAIN tx[h].stock : tx[h].stock[p] \in Nat

Amounts(p) == [o \in Creator |-> Reserved(o, p)]
UnitsAccounted == \A p \in Product \ disputed : stock[p] + Total(Amounts(p), Creator) = supplied[p]

StockTyped ==
  /\ status \in [Product -> {"NONE", "ACTIVE", "INACTIVE", "ARCHIVED"}]
  /\ stock \in [Product -> Nat]
  /\ supplied \in [Product -> Int]
  /\ disputed \subseteq Product

StockInv ==
  /\ StockTyped
  /\ \A o \in Creator : order[o] # NoOrder => Offered(order[o].items)
  /\ \A h \in Handler : SessionOffered(h) /\ RowsTaken(h)
  /\ UnitsAccounted

LEMMA SessionIsReplaced ==
  ASSUME Typed, NEW h \in Handler, NEW t, tx' = [tx EXCEPT ![h] = t]
  PROVE  tx'[h] = t /\ \A g \in Handler \ {h} : tx'[g] = tx[g]
<1>1. PICK S : tx \in [Handler -> Sessions(S)]
  BY DEF Typed
<1> QED BY <1>1

LEMMA WantedIsTyped ==
  ASSUME NEW h \in Handler, RequestFits(h), pc[h] # "none", NEW p \in Product
  PROVE  /\ Wanted(h, p) \in Nat
         /\ Op(h) = "cancel" => Wanted(h, p) = 0
         /\ Op(h) # "cancel" => Wanted(h, p) = req[h].items[p] /\ List(h, req[h].items) \in Lists
<1>1. Op(h) = "cancel" \/ req[h].items \in Baskets
  BY DEF RequestFits, Handler, Op, CreateRequests, ChangeRequests
<1>2. \A b \in Baskets : b[p] \in Nat
  BY MarketAssumption
<1> QED BY <1>1, <1>2 DEF Wanted, List, Lists

LEMMA SessionLists ==
  ASSUME Typed, NEW h \in Handler, SessionOffered(h)
  PROVE  /\ tx[h].items \in SUBSET Lists
         /\ IsFiniteSet(tx[h].items)
         /\ \A p \in Product : Quantity(tx[h].items, p) \in Nat
<1>1. tx[h].items \in SUBSET Lists
  BY DEF Typed, Sessions
<1> QED BY <1>1, QuantityFacts DEF SessionOffered, Offered

\* What is reserved of a product, order by order.
LEMMA AmountsAreTyped ==
  ASSUME Typed, \A o \in Creator : order[o] # NoOrder => Offered(order[o].items), NEW p \in Product
  PROVE  /\ \A o \in Creator : Reserved(o, p) \in Nat
         /\ Amounts(p) \in [Creator -> Nat]
         /\ IsFiniteSet(Creator)
<1>1. ASSUME NEW o \in Creator
      PROVE  Reserved(o, p) \in Nat
  <2>1. CASE Active(o)
    <3>1. order[o] # NoOrder /\ order[o] \in Orders
      BY <2>1, OrderIsTyped DEF Active
    <3>2. order[o].items \in SUBSET Lists /\ IsFiniteSet(order[o].items)
      BY <3>1 DEF Orders, Offered
    <3> QED BY <2>1, <3>2, QuantityFacts DEF Reserved
  <2> QED BY <2>1 DEF Reserved
<1>2. IsFiniteSet(Creator)
  BY MarketAssumption, FS_Subset DEF Handler
<1> QED BY <1>1, <1>2 DEF Amounts

\* Handlers that do nothing, while nothing is taken off the catalogue.
LEMMA BystanderStock ==
  ASSUME NEW g \in Handler, SessionOffered(g), RowsTaken(g),
         pc'[g] = pc[g], req'[g] = req[g], tx'[g] = tx[g],
         \A p \in Product : status[p] # "NONE" => status'[p] # "NONE"
  PROVE  SessionOffered(g)' /\ RowsTaken(g)'
<1>1. SessionOffered(g)'
  BY DEF SessionOffered, Offered
<1>2. \A p \in Product : Wanted(g, p)' = Wanted(g, p)
  BY DEF Wanted, Op
<1> QED BY <1>1, <1>2 DEF RowsTaken

\* A handler goes on and writes nothing.
LEMMA MovesKeepStock ==
  ASSUME Typed, StockInv, NEW h \in Handler, NEW step, NEW t,
         pc' = [pc EXCEPT ![h] = step], tx' = [tx EXCEPT ![h] = t],
         UNCHANGED <<committed, req>>, SessionOffered(h)', RowsTaken(h)'
  PROVE  StockInv'
<1> USE DEF committed, products, history
<1>1. \A g \in Handler \ {h} : pc'[g] = pc[g] /\ tx'[g] = tx[g]
  BY SessionIsReplaced DEF Typed
<1>2. ASSUME NEW g \in Handler
      PROVE  SessionOffered(g)' /\ RowsTaken(g)'
  <2>1. CASE g = h
    BY <2>1
  <2>2. CASE g # h
    BY <1>1, <2>2, BystanderStock DEF StockInv
  <2> QED BY <2>1, <2>2
<1>3. StockTyped' /\ (\A o \in Creator : order[o] # NoOrder => Offered(order[o].items))'
  BY DEF StockInv, StockTyped, Offered
<1>4. UnitsAccounted'
  <2>1. \A p \in Product : Amounts(p)' = Amounts(p)
    BY DEF Amounts, Reserved, Active
  <2> QED BY <2>1 DEF StockInv, UnitsAccounted
<1> QED BY <1>2, <1>3, <1>4 DEF StockInv

LEMMA RefuseKeepsStock ==
  ASSUME Typed, StockInv, NEW h \in Handler, Refuse(h)
  PROVE  StockInv'
<1>1. /\ pc' = [pc EXCEPT ![h] = "done"] /\ tx' = [tx EXCEPT ![h] = Fresh]
      /\ UNCHANGED <<committed, req>>
  BY DEF Refuse, Close, Goto
<1>2. tx'[h].items = {} /\ pc'[h] = "done"
  BY <1>1, SessionIsReplaced DEF Typed, Fresh
<1>3. SessionOffered(h)' /\ RowsTaken(h)'
  BY <1>2, FS_EmptySet DEF SessionOffered, Offered, RowsTaken
<1> QED BY <1>1, <1>3, MovesKeepStock

\* A statement before the products are locked; but for LoadItems it reads no lists.
LEMMA ReadKeepsStock ==
  ASSUME Typed, StockInv, NEW h \in Handler, NEW step, NEW t, Continue(h, step, t),
         step \notin {"promo", "commit"}, t.items = tx[h].items
  PROVE  StockInv'
<1>1. /\ pc' = [pc EXCEPT ![h] = step] /\ tx' = [tx EXCEPT ![h] = t]
      /\ UNCHANGED <<committed, req>>
  BY DEF Continue, Goto
<1>2. tx'[h] = t /\ pc'[h] = step
  BY <1>1, SessionIsReplaced DEF Typed
<1>3. SessionOffered(h)' /\ RowsTaken(h)'
  BY <1>1, <1>2 DEF SessionOffered, Offered, RowsTaken, StockInv, committed, products
<1> QED BY <1>1, <1>3, MovesKeepStock

\* order.items is what the order lists, and was on sale when it was written.
LEMMA LoadItemsKeepsStock ==
  ASSUME IInv, StockInv, NEW h \in Handler, LoadItems(h)
  PROVE  StockInv'
<1> DEFINE t == [tx[h] EXCEPT !.items = order[OrderOf(h)].items]
<1>1. pc[h] = "items" /\ Typed /\ RequestFits(h) /\ OrderIsLoaded(h)
  BY DEF LoadItems, IInv, HandlerInv
<1>2. /\ pc' = [pc EXCEPT ![h] = "lock"] /\ tx' = [tx EXCEPT ![h] = t]
      /\ UNCHANGED <<committed, req>>
  BY DEF LoadItems, Continue, Goto
<1>3. h \in Changer /\ h \notin Creator /\ req[h] \in ChangeRequests /\ Op(h) \in {"update", "cancel"}
  BY <1>1, StepsOfHandlers
<1>4. OrderOf(h) = req[h].order /\ OrderOf(h) \in Creator
  BY <1>3 DEF OrderOf, ChangeRequests
<1>5. order[OrderOf(h)] # NoOrder
  BY <1>1, <1>3, <1>4 DEF OrderIsLoaded
<1>6. t.items = order[OrderOf(h)].items
  <2>1. PICK S : tx[h] \in Sessions(S)
    BY <1>1 DEF Typed
  <2> QED BY <2>1 DEF Sessions
<1> HIDE DEF t
<1>7. tx'[h] = t /\ pc'[h] = "lock"
  BY <1>1, <1>2, SessionIsReplaced DEF Typed
<1>8. Offered(t.items) /\ status' = status
  BY <1>2, <1>4, <1>5, <1>6 DEF StockInv, committed, products
<1>9. SessionOffered(h)' /\ RowsTaken(h)'
  BY <1>3, <1>7, <1>8 DEF SessionOffered, Offered, RowsTaken
<1> QED BY <1>1, <1>2, <1>9, MovesKeepStock

\* SELECT ... FOR UPDATE finds every product the request is about: what it asks for is
\* on sale, and what the order lists has been.
LEMMA LockProductsKeepsStock ==
  ASSUME IInv, StockInv, NEW h \in Handler, LockProducts(h)
  PROVE  StockInv'
<1> DEFINE step == IF UsesPromo(h) THEN "promo" ELSE "commit"
           computed == [p \in Rows(h) |-> InStock(h, p) - Wanted(h, p)]
           t == [tx[h] EXCEPT !.stock = computed]
<1>1. pc[h] = "lock" /\ Typed /\ RequestFits(h) /\ SessionOffered(h) /\ StockTyped
  BY DEF LockProducts, IInv, HandlerInv, StockInv
<1>2. CASE Refuse(h)
  BY <1>1, <1>2, RefuseKeepsStock
<1>3. CASE Available(h) /\ TakeProducts(h)
  <2>1. PICK S : tx \in [Handler -> Sessions(S)]
    BY <1>1 DEF Typed
  <2>2. /\ pc' = [pc EXCEPT ![h] = step] /\ tx' = [tx EXCEPT ![h] = t]
        /\ UNCHANGED <<committed, req>>
    BY <1>3, <2>1 DEF TakeProducts, Goto, Sessions
  <2>3. t.items = tx[h].items /\ t.stock = computed
    BY <2>1 DEF Sessions
  <2>4. \A p \in Product : Wanted(h, p) \in Nat /\ Quantity(tx[h].items, p) \in Nat
    BY <1>1, WantedIsTyped, SessionLists
  <2>5. \A p \in Product : Wanted(h, p) > 0 => status[p] # "NONE" /\ InStock(h, p) >= Wanted(h, p)
    BY <1>3 DEF Available
  <2>6. \A p \in Product : Quantity(tx[h].items, p) > 0 => status[p] # "NONE"
    BY <1>1, SessionLists, QuantityFacts DEF SessionOffered, Offered
  <2>7. Rows(h) = {p \in Product : Wanted(h, p) + Quantity(tx[h].items, p) > 0}
    <3>1. \A p \in Product : Wanted(h, p) + Quantity(tx[h].items, p) > 0 => status[p] # "NONE"
      BY <2>4, <2>5, <2>6
    <3> QED BY <3>1 DEF Rows
  <2>8. \A p \in Rows(h) : computed[p] \in Nat
    <3> SUFFICES ASSUME NEW p \in Rows(h)
                 PROVE  InStock(h, p) - Wanted(h, p) \in Nat
      OBVIOUS
    <3>1. p \in Product /\ stock[p] \in Nat
      BY <1>1 DEF Rows, StockTyped
    <3>2. InStock(h, p) \in Nat /\ Wanted(h, p) \in Nat
      BY <2>4, <3>1 DEF InStock
    <3>3. InStock(h, p) >= Wanted(h, p)
      BY <2>5, <3>1, <3>2
    <3> QED BY <3>2, <3>3
  <2>9. DOMAIN computed = Rows(h)
    OBVIOUS
  <2> HIDE DEF t, step, computed
  <2>10. tx'[h] = t /\ pc'[h] = step
    BY <1>1, <2>2, SessionIsReplaced DEF Typed
  <2>11. \A p \in Product : Wanted(h, p)' = Wanted(h, p)
    BY <2>2 DEF Wanted, Op
  <2>12. status' = status
    BY <2>2 DEF committed, products
  <2>13. SessionOffered(h)'
    BY <1>1, <2>3, <2>10, <2>12 DEF SessionOffered, Offered
  <2>14. RowsTaken(h)'
    BY <2>3, <2>5, <2>7, <2>8, <2>9, <2>10, <2>11, <2>12 DEF RowsTaken
  <2> QED BY <1>1, <2>2, <2>13, <2>14, MovesKeepStock
<1> QED BY <1>2, <1>3 DEF LockProducts

LEMMA ReadPromoKeepsStock ==
  ASSUME IInv, StockInv, NEW h \in Handler, ReadPromo(h)
  PROVE  StockInv'
<1>1. pc[h] = "promo" /\ Typed
  BY DEF ReadPromo, IInv
<1>2. PICK S : tx \in [Handler -> Sessions(S)]
  BY <1>1 DEF Typed
<1>3. ASSUME NEW t, Continue(h, "commit", t), t.items = tx[h].items, t.stock = tx[h].stock
      PROVE  StockInv'
  <2>1. /\ pc' = [pc EXCEPT ![h] = "commit"] /\ tx' = [tx EXCEPT ![h] = t]
        /\ UNCHANGED <<committed, req>>
    BY <1>3 DEF Continue, Goto
  <2>2. tx'[h] = t /\ pc'[h] = "commit" /\ status' = status
    BY <1>1, <2>1, SessionIsReplaced DEF Typed, committed, products
  <2>3. \A p \in Product : Wanted(h, p)' = Wanted(h, p)
    BY <2>1 DEF Wanted, Op
  <2>4. SessionOffered(h)'
    BY <1>3, <2>2 DEF StockInv, SessionOffered, Offered
  <2>5. RowsTaken(h)'
    BY <1>1, <1>3, <2>2, <2>3 DEF StockInv, RowsTaken
  <2> QED BY <1>1, <2>1, <2>4, <2>5, MovesKeepStock
<1>4. ASSUME NEW n, NEW drop, WriteUses(h, n, drop)
      PROVE  StockInv'
  <2> DEFINE w == [written |-> TRUE, from |-> uses, to |-> n]
             t == [tx[h] EXCEPT !.uses = w, !.drop = drop]
  <2>1. t.items = tx[h].items /\ t.stock = tx[h].stock
    BY <1>2 DEF Sessions
  <2>2. Continue(h, "commit", t)
    BY <1>4 DEF WriteUses
  <2> HIDE DEF t
  <2> QED BY <1>3, <2>1, <2>2
<1>5. ASSUME NEW drop, GiveUseBack(h, drop)
      PROVE  StockInv'
  <2>1. CASE Continue(h, "commit", [tx[h] EXCEPT !.drop = drop])
    <3> DEFINE t == [tx[h] EXCEPT !.drop = drop]
    <3>1. t.items = tx[h].items /\ t.stock = tx[h].stock
      BY <1>2 DEF Sessions
    <3>2. Continue(h, "commit", t)
      BY <2>1
    <3> HIDE DEF t
    <3> QED BY <1>3, <3>1, <3>2
  <2> QED BY <1>4, <1>5, <2>1 DEF GiveUseBack
<1>6. CASE PromoInvalid(h)
  BY <1>1, <1>6, RefuseKeepsStock DEF PromoInvalid
<1>7. CASE PromoTaken(h)
  BY <1>4, <1>7 DEF PromoTaken
<1>8. CASE PromoKept(h)
  BY <1>3, <1>8 DEF PromoKept
<1>9. CASE PromoDropped(h) \/ PromoReturned(h)
  BY <1>5, <1>9 DEF PromoDropped, PromoReturned
<1> QED BY <1>6, <1>7, <1>8, <1>9 DEF ReadPromo

\* The lists a commit leaves in its order: they are on sale, and a product its request
\* is not about is in them only if it was before.
LEMMA WrittenItems ==
  ASSUME IInv, StockInv, NEW h \in Handler, Commit(h)
  PROVE  /\ Written(h).items \in SUBSET Lists /\ Offered(Written(h).items)
         /\ Op(h) = "create" => Written(h).items = {List(h, req[h].items)}
         /\ Op(h) = "update" =>
              Written(h).items = (order[OrderOf(h)].items \ tx[h].items) \union {List(h, req[h].items)}
         /\ Op(h) = "cancel" => Written(h).items = order[OrderOf(h)].items
<1>1. pc[h] = "commit" /\ RequestFits(h) /\ RowsTaken(h)
  BY DEF Commit, IInv, HandlerInv, StockInv
<1>2. /\ OrderOf(h) \in Creator /\ Written(h) \in Orders
      /\ Op(h) \in {"create", "update", "cancel"}
      /\ Op(h) # "create" => order[OrderOf(h)] \in Orders /\ order[OrderOf(h)] # NoOrder
  BY WrittenOrder
<1>3. Written(h).items \in SUBSET Lists
  BY <1>2 DEF Orders
<1> DEFINE l == List(h, req[h].items)
<1>4. Op(h) # "cancel" => \A p \in Product : l.items[p] > 0 => status[p] # "NONE"
  BY <1>1, WantedIsTyped DEF RowsTaken, List
<1>5. Op(h) # "cancel" => Offered({l})
  BY <1>4, FS_Singleton DEF Offered
<1>6. Op(h) # "create" => Offered(order[OrderOf(h)].items)
  BY <1>2 DEF StockInv
<1> HIDE DEF l
<1>7. CASE Op(h) = "create"
  <2>1. Written(h).items = {l}
    BY <1>7 DEF Written, CreatedOrder, l
  <2> QED BY <1>3, <1>5, <1>7, <2>1 DEF l
<1>8. CASE Op(h) = "update"
  <2>1. Written(h) = UpdatedOrder(h)
    BY <1>8 DEF Written
  <2>2. Written(h).items = (order[OrderOf(h)].items \ tx[h].items) \union {l}
    BY <1>2, <1>8, <2>1 DEF UpdatedOrder, Orders, l
  <2>3. IsFiniteSet(Written(h).items)
    <3>1. IsFiniteSet(order[OrderOf(h)].items \ tx[h].items)
      BY <1>6, <1>8, FS_Subset DEF Offered
    <3> QED BY <2>2, <3>1, FS_AddElement
  <2>4. Offered(Written(h).items)
    BY <1>5, <1>6, <1>8, <2>2, <2>3 DEF Offered
  <2> QED BY <1>3, <1>8, <2>2, <2>4 DEF l
<1>9. CASE Op(h) = "cancel"
  <2>1. Written(h).items = order[OrderOf(h)].items
    BY <1>2, <1>9 DEF Written, Orders
  <2> QED BY <1>3, <1>6, <1>9, <2>1
<1> QED BY <1>2, <1>7, <1>8, <1>9

\* A commit reserves what its request wants, and gives back what it had read of the
\* order, in every product it does not put in dispute.
LEMMA CommitReserves ==
  ASSUME IInv, StockInv, NEW h \in Handler, Commit(h), NEW p \in Product,
         ItemsOutdated(h) => p \notin Touched(h)
  PROVE  Reserved(OrderOf(h), p)' =
           Reserved(OrderOf(h), p) + Wanted(h, p) - Quantity(tx[h].items, p)
<1> DEFINE o == OrderOf(h)
           wanted == Wanted(h, p)
           read == Quantity(tx[h].items, p)
           listed == Quantity(order[o].items, p)
           written == Quantity(Written(h).items, p)
<1>1. pc[h] = "commit" /\ Typed /\ RequestFits(h) /\ RowsTaken(h) /\ SessionOffered(h)
  BY DEF Commit, IInv, HandlerInv, StockInv
<1>2. /\ o \in Creator /\ order'[o] = Written(h)
      /\ Op(h) \in {"create", "update", "cancel"}
      /\ Op(h) # "create" => order[o] \in Orders /\ order[o] # NoOrder
  BY WrittenOrder, CommitWrites
<1>3. wanted \in Nat /\ read \in Nat
  BY <1>1, WantedIsTyped, SessionLists
<1>4. Op(h) # "create" => /\ order[o].items \in SUBSET Lists /\ IsFiniteSet(order[o].items)
                          /\ listed \in Nat
  BY <1>2, QuantityFacts DEF StockInv, Offered, Orders
<1>5. Written(h).items \in SUBSET Lists /\ IsFiniteSet(Written(h).items) /\ written \in Nat
  BY WrittenItems, QuantityFacts DEF Offered
<1>6. OrderOf(h)' = o
  BY DEF Commit, Close, OrderOf, Op
<1>7. Reserved(o, p)' = IF Written(h).status = "CREATED" THEN written ELSE 0
  <2>1. o' = o
    BY <1>6
  <2>2. Active(o)' = (Written(h).status = "CREATED")
    BY <1>2, <2>1 DEF Active
  <2>3. Quantity(order[o].items, p)' = written
    BY <1>2, <2>1
  <2> HIDE DEF o, written
  <2> QED BY <2>1, <2>2, <2>3 DEF Reserved
<1>8. Reserved(o, p) = IF order[o].status = "CREATED" THEN listed ELSE 0
  BY DEF Reserved, Active
<1>9. p \notin DOMAIN tx[h].stock => wanted = 0 /\ read = 0
  BY <1>1, <1>3 DEF RowsTaken
<1>10. ItemsOutdated(h) => wanted = 0 /\ read = 0 /\ listed = 0
  <2> SUFFICES ASSUME ItemsOutdated(h)
               PROVE  wanted = 0 /\ read = 0 /\ listed = 0
    OBVIOUS
  <2>1. Op(h) # "create" /\ p \notin DOMAIN tx[h].stock /\ ~(listed > 0)
    BY DEF ItemsOutdated, Touched
  <2> QED BY <1>4, <1>9, <2>1
<1>11. CASE Op(h) = "create"
  <2>1. h \in Creator
    BY <1>1, <1>11, StepsOfHandlers DEF Running
  <2>2. read = 0
    BY <1>1, <2>1, QuantityOfFew DEF SessionOffered
  <2>3. order[o].status # "CREATED" /\ Written(h).status = "CREATED"
    BY <1>11, WrittenOrder DEF NoOrder
  <2>4. written = wanted
    <3>1. Written(h).items = {List(h, req[h].items)} /\ List(h, req[h].items) \in Lists
          /\ wanted = req[h].items[p]
      BY <1>1, <1>11, WrittenItems, WantedIsTyped
    <3> QED BY <3>1, QuantityOfFew DEF List
  <2> HIDE DEF o, written, read, wanted, listed
  <2> QED BY <1>3, <1>7, <1>8, <1>6, <2>2, <2>3, <2>4 DEF o, read, wanted
<1>12. CASE Op(h) = "update"
  <2>1. /\ List(h, req[h].items) \in Lists /\ List(h, req[h].items).items[p] = wanted
        /\ Written(h).items = (order[o].items \ tx[h].items) \union {List(h, req[h].items)}
    BY <1>1, <1>12, WantedIsTyped, WrittenItems DEF List
  <2>2. Written(h).status = order[o].status
    BY <1>12, WrittenOrder
  <2>3. CASE ItemsOutdated(h)
    <3>1. \A l \in order[o].items : l.items[p] = 0
      BY <1>2, <1>4, <1>10, <1>12, <2>3, QuantityFacts
    <3>2. \A l \in Written(h).items : l.items[p] = 0
      BY <1>10, <2>1, <2>3, <3>1
    <3>3. written = 0
      BY <1>5, <3>2, QuantityFacts
    <3> HIDE DEF o, written, read, wanted, listed
    <3> QED BY <1>7, <1>8, <1>6, <1>10, <2>3, <3>3 DEF o, read, wanted
  <2>4. CASE ~ItemsOutdated(h)
    <3>1. order[o].status = "CREATED" /\ order[o].items = tx[h].items
      BY <1>12, <2>4 DEF ItemsOutdated
    <3>2. Written(h).items = {List(h, req[h].items)}
      BY <2>1, <3>1
    <3>3. written = wanted
      BY <2>1, <3>2, QuantityOfFew
    <3>4. listed = read
      BY <3>1
    <3> HIDE DEF o, written, read, wanted, listed
    <3> QED BY <1>3, <1>7, <1>8, <1>6, <2>2, <3>1, <3>3, <3>4 DEF o, read, wanted
  <2> QED BY <2>3, <2>4
<1>13. CASE Op(h) = "cancel"
  <2>1. Written(h).status = "CANCELED" /\ wanted = 0
    BY <1>1, <1>13, WrittenOrder, WantedIsTyped
  <2>2. CASE ItemsOutdated(h)
    <3> HIDE DEF o, written, read, wanted, listed
    <3> QED BY <1>7, <1>8, <1>6, <1>10, <2>1, <2>2 DEF o, read, wanted
  <2>3. CASE ~ItemsOutdated(h)
    <3>1. order[o].status = "CREATED" /\ listed = read
      BY <1>13, <2>3 DEF ItemsOutdated
    <3> HIDE DEF o, written, read, wanted, listed
    <3> QED BY <1>3, <1>7, <1>8, <1>6, <2>1, <3>1 DEF o, read, wanted
  <2> QED BY <2>2, <2>3
<1> QED BY <1>2, <1>11, <1>12, <1>13

LEMMA CommitKeepsStock ==
  ASSUME IInv, StockInv, NEW h \in Handler, Commit(h)
  PROVE  StockInv'
<1> DEFINE o == OrderOf(h)
<1>1. /\ pc[h] = "commit" /\ Typed /\ RequestFits(h) /\ SessionOffered(h) /\ RowsTaken(h)
      /\ RowsAreCurrent(h) /\ StockTyped
  BY DEF Commit, IInv, HandlerInv, StockInv, StockIsCurrent
<1>2. /\ pc' = [pc EXCEPT ![h] = "done"] /\ tx' = [tx EXCEPT ![h] = Fresh]
      /\ stock' = [p \in Product |-> IF p \in DOMAIN tx[h].stock THEN tx[h].stock[p] ELSE stock[p]]
      /\ disputed' = disputed \union IF ItemsOutdated(h) THEN Touched(h) ELSE {}
      /\ UNCHANGED <<req, status, supplied>>
  BY DEF Commit, Close, Goto
<1>3. o \in Creator /\ order'[o] = Written(h) /\ \A x \in Creator \ {o} : order'[x] = order[x]
  BY WrittenOrder, CommitWrites
<1>4. Typed'
  BY CommitKeeps DEF IInv
<1>5. /\ tx'[h].items = {} /\ pc'[h] = "done"
      /\ \A g \in Handler \ {h} : pc'[g] = pc[g] /\ tx'[g] = tx[g]
  BY <1>1, <1>2, SessionIsReplaced DEF Typed, Fresh
<1>6. ASSUME NEW g \in Handler
      PROVE  SessionOffered(g)' /\ RowsTaken(g)'
  <2>1. CASE g = h
    BY <1>5, <2>1, FS_EmptySet DEF SessionOffered, Offered, RowsTaken
  <2>2. CASE g # h
    BY <1>2, <1>5, <2>2, BystanderStock DEF StockInv
  <2> QED BY <2>1, <2>2
<1>7. (\A x \in Creator : order[x] # NoOrder => Offered(order[x].items))'
  <2> SUFFICES ASSUME NEW x \in Creator, order'[x] # NoOrder
               PROVE  Offered(order[x].items)'
    OBVIOUS
  <2>1. Offered(order'[x].items)
    <3>1. CASE x = o
      BY <1>3, <3>1, WrittenItems
    <3>2. CASE x # o
      BY <1>3, <3>2 DEF StockInv
    <3> QED BY <3>1, <3>2
  <2> QED BY <1>2, <2>1 DEF Offered
<1>8. StockTyped'
  <2>1. stock' \in [Product -> Nat]
    BY <1>1, <1>2 DEF RowsTaken, StockTyped
  <2>2. Touched(h) \subseteq Product
    BY DEF Touched
  <2> QED BY <1>1, <1>2, <2>1, <2>2 DEF StockTyped
<1>9. UnitsAccounted'
  <2> SUFFICES ASSUME NEW p \in Product \ disputed'
               PROVE  stock'[p] + Total(Amounts(p)', Creator) = supplied'[p]
    BY DEF UnitsAccounted, Total, Units
  <2>1. p \notin disputed /\ (ItemsOutdated(h) => p \notin Touched(h))
    BY <1>2
  <2>2. stock[p] + Total(Amounts(p), Creator) = supplied[p]
    BY <2>1 DEF StockInv, UnitsAccounted
  <2>3. Wanted(h, p) \in Nat /\ Quantity(tx[h].items, p) \in Nat
    BY <1>1, WantedIsTyped, SessionLists
  <2>4. stock'[p] = stock[p] + Quantity(tx[h].items, p) - Wanted(h, p)
    <3>1. stock[p] \in Nat
      BY <1>1 DEF StockTyped
    <3>2. CASE p \in DOMAIN tx[h].stock
      <4>1. stock'[p] = tx[h].stock[p]
        BY <1>2, <3>2
      <4>2. tx[h].stock[p] = InStock(h, p) - Wanted(h, p)
        BY <1>1, <3>2 DEF RowsAreCurrent
      <4> QED BY <2>3, <3>1, <4>1, <4>2 DEF InStock
    <3>3. CASE p \notin DOMAIN tx[h].stock
      <4>1. Wanted(h, p) = 0 /\ Quantity(tx[h].items, p) = 0
        BY <1>1, <2>3, <3>3 DEF RowsTaken
      <4>2. stock'[p] = stock[p]
        BY <1>2, <3>3
      <4> QED BY <3>1, <4>1, <4>2
    <3> QED BY <3>2, <3>3
  <2>5. Amounts(p) \in [Creator -> Nat] /\ IsFiniteSet(Creator)
    BY <1>1, AmountsAreTyped DEF StockInv
  <2>6. \A x \in Creator : Reserved(x, p)' \in Nat
    <3> SUFFICES ASSUME NEW x \in Creator
                 PROVE  Reserved(x, p)' \in Nat
      OBVIOUS
    <3>1. CASE order'[x].status # "CREATED"
      BY <3>1 DEF Reserved, Active
    <3>2. CASE order'[x].status = "CREATED"
      <4>1. order'[x] # NoOrder
        BY <3>2 DEF NoOrder
      <4>2. order'[x] \in Orders
        BY <1>4, <4>1 DEF Typed
      <4>3. order'[x].items \in SUBSET Lists /\ IsFiniteSet(order'[x].items)
        BY <1>7, <4>1, <4>2 DEF Orders, Offered
      <4>4. Quantity(order'[x].items, p) \in Nat
        BY <4>3, QuantityFacts
      <4> QED BY <3>2, <4>4 DEF Reserved, Active
    <3> QED BY <3>1, <3>2
  <2>7. Amounts(p)' \in [Creator -> Nat]
    BY <2>6 DEF Amounts
  <2>8. \A x \in Creator \ {o} : Amounts(p)'[x] = Amounts(p)[x]
    BY <1>3 DEF Amounts, Reserved, Active
  <2>9. Amounts(p)'[o] = Amounts(p)[o] + Wanted(h, p) - Quantity(tx[h].items, p)
    <3>1. Reserved(o, p)' = Reserved(o, p) + Wanted(h, p) - Quantity(tx[h].items, p)
      BY <2>1, CommitReserves
    <3>2. Amounts(p)'[o] = Reserved(o, p)' /\ Amounts(p)[o] = Reserved(o, p)
      <4>1. o' = o
        BY DEF Commit, Close, OrderOf, Op
      <4> HIDE DEF o
      <4> QED BY <1>3, <4>1 DEF Amounts
    <3> QED BY <3>1, <3>2
  <2> HIDE DEF o
  <2>10. Total(Amounts(p)', Creator) =
           Total(Amounts(p), Creator) + Amounts(p)'[o] - Amounts(p)[o]
    BY <1>3, <2>5, <2>7, <2>8, AmountsChange
  <2>11. /\ Total(Amounts(p), Creator) \in Nat /\ Amounts(p)[o] \in Nat
         /\ stock[p] \in Nat /\ supplied'[p] = supplied[p]
    BY <1>1, <1>2, <1>3, <2>5, UnitsAreFinite DEF StockTyped
  <2> QED BY <2>2, <2>3, <2>4, <2>9, <2>10, <2>11
<1> QED BY <1>6, <1>7, <1>8, <1>9 DEF StockInv

LEMMA SellerStepKeepsStock ==
  ASSUME IInv, StockInv, NEW p \in Product, SellerStep(p)
  PROVE  StockInv'
<1>1. PICK s \in {"ACTIVE", "INACTIVE", "ARCHIVED"}, n \in (0 .. MaxSupply) \union {stock[p]} :
        ChangeProduct(p, s, n)
  BY DEF SellerStep
<1>2. StockTyped
  BY DEF StockInv
<1>3. /\ status' = [status EXCEPT ![p] = s] /\ stock' = [stock EXCEPT ![p] = n]
      /\ supplied' = [supplied EXCEPT ![p] = @ + n - stock[p]]
      /\ UNCHANGED <<order, history, pc, req, tx>>
  BY <1>1 DEF ChangeProduct
<1>4. n \in Nat /\ stock[p] \in Nat /\ supplied[p] \in Int
  BY <1>2, MarketAssumption DEF StockTyped
<1>5. StockTyped'
  BY <1>2, <1>3, <1>4 DEF StockTyped, history
<1>6. \A q \in Product : status[q] # "NONE" => status'[q] # "NONE"
  BY <1>2, <1>3 DEF StockTyped
<1>7. ASSUME NEW g \in Handler
      PROVE  SessionOffered(g)' /\ RowsTaken(g)'
  BY <1>3, <1>6, BystanderStock DEF StockInv
<1>8. (\A x \in Creator : order[x] # NoOrder => Offered(order[x].items))'
  <2> SUFFICES ASSUME NEW x \in Creator, order[x] # NoOrder
               PROVE  Offered(order[x].items)'
    BY <1>3
  <2> QED BY <1>3, <1>6 DEF StockInv, Offered
<1>9. UnitsAccounted'
  <2> SUFFICES ASSUME NEW q \in Product \ disputed'
               PROVE  stock'[q] + Total(Amounts(q)', Creator) = supplied'[q]
    BY DEF UnitsAccounted, Total, Units
  <2>1. Amounts(q)' = Amounts(q)
    BY <1>3 DEF Amounts, Reserved, Active
  <2>2. stock[q] + Total(Amounts(q), Creator) = supplied[q]
    BY <1>3 DEF StockInv, UnitsAccounted, history
  <2>3. Total(Amounts(q), Creator) \in Nat
    BY AmountsAreTyped, UnitsAreFinite DEF IInv, StockInv
  <2>4. stock[q] \in Nat /\ supplied[q] \in Int
    BY <1>2 DEF StockTyped
  <2>5. CASE q = p
    BY <1>2, <1>3, <1>4, <2>1, <2>2, <2>3, <2>4, <2>5 DEF StockTyped
  <2>6. CASE q # p
    BY <1>2, <1>3, <2>1, <2>2, <2>6 DEF StockTyped
  <2> QED BY <2>5, <2>6
<1> QED BY <1>5, <1>7, <1>8, <1>9 DEF StockInv

LEMMA IdleKeepsStock ==
  ASSUME StockInv, UNCHANGED <<products, order, history>>,
         \A g \in Handler : \/ pc'[g] = pc[g] /\ tx'[g] = tx[g] /\ req'[g] = req[g]
                            \/ pc'[g] \notin {"promo", "commit"} /\ tx'[g] = tx[g]
  PROVE  StockInv'
<1> USE DEF products, history
<1>1. ASSUME NEW g \in Handler
      PROVE  SessionOffered(g)' /\ RowsTaken(g)'
  <2>1. CASE pc'[g] = pc[g] /\ tx'[g] = tx[g] /\ req'[g] = req[g]
    BY <2>1, BystanderStock DEF StockInv
  <2>2. CASE pc'[g] \notin {"promo", "commit"} /\ tx'[g] = tx[g]
    BY <2>2 DEF StockInv, SessionOffered, Offered, RowsTaken
  <2> QED BY <2>1, <2>2
<1>2. StockTyped' /\ (\A o \in Creator : order[o] # NoOrder => Offered(order[o].items))'
  BY DEF StockInv, StockTyped, Offered
<1>3. UnitsAccounted'
  <2>1. \A p \in Product : Amounts(p)' = Amounts(p)
    BY DEF Amounts, Reserved, Active
  <2> QED BY <2>1 DEF StockInv, UnitsAccounted
<1> QED BY <1>1, <1>2, <1>3 DEF StockInv

LEMMA InitStock ==
  ASSUME Init
  PROVE  StockInv
<1>1. \A h \in Handler : tx[h].items = {} /\ pc[h] = "none"
  BY DEF Init, Fresh
<1>2. \A h \in Handler : SessionOffered(h) /\ RowsTaken(h)
  BY <1>1, FS_EmptySet DEF SessionOffered, Offered, RowsTaken
<1>3. stock \in [Product -> Nat] /\ supplied = stock
  BY MarketAssumption DEF Init
<1>4. StockTyped
  BY <1>3 DEF Init, StockTyped
<1>5. UnitsAccounted
  <2> SUFFICES ASSUME NEW p \in Product
               PROVE  stock[p] + Total(Amounts(p), Creator) = supplied[p]
    BY DEF UnitsAccounted
  <2>1. \A o \in Creator : Amounts(p)[o] = 0
    BY DEF Init, NoOrder, Amounts, Reserved, Active
  <2>2. Total(Amounts(p), Creator) = 0
    BY <2>1, TotalIsNone
  <2> QED BY <1>3, <2>2
<1> QED BY <1>2, <1>4, <1>5 DEF StockInv, Init

LEMMA StepKeepsStock ==
  ASSUME IInv, StockInv, [Next]_vars
  PROVE  StockInv'
<1> USE DEF committed
<1>1. Typed
  BY DEF IInv
<1>2. ASSUME NEW h \in Handler, NEW r, Begin(h, r)
      PROVE  StockInv'
  <2>1. /\ UNCHANGED <<products, order, history, tx>>
        /\ \E step \in {"rate", "load"} : pc' = [pc EXCEPT ![h] = step]
        /\ req' = [req EXCEPT ![h] = r]
    BY <1>2 DEF Begin, Goto
  <2>2. /\ pc'[h] \notin {"promo", "commit"}
        /\ \A g \in Handler \ {h} : pc'[g] = pc[g] /\ req'[g] = req[g]
    BY <1>1, <2>1 DEF Typed
  <2> QED BY <2>1, <2>2, IdleKeepsStock
<1>3. ASSUME NEW h \in Handler, LoadOrder(h)
      PROVE  StockInv'
  <2> DEFINE t == [tx[h] EXCEPT !.promo = order[OrderOf(h)].promo]
  <2>1. CASE \E step \in {"rate", "items"} : Continue(h, step, t)
    <3>1. t.items = tx[h].items
      BY <1>1 DEF Typed, Sessions
    <3> HIDE DEF t
    <3> QED BY <1>1, <2>1, <3>1, ReadKeepsStock
  <2> QED BY <1>1, <1>3, <2>1, RefuseKeepsStock DEF LoadOrder
<1>4. ASSUME NEW h \in Handler, CheckRateLimit(h) \/ CheckActive(h)
      PROVE  StockInv'
  BY <1>1, <1>4, RefuseKeepsStock, ReadKeepsStock DEF CheckRateLimit, CheckActive
<1>5. ASSUME NEW h \in Handler, Statement(h)
      PROVE  StockInv'
  BY <1>3, <1>4, <1>5, LoadItemsKeepsStock, LockProductsKeepsStock, ReadPromoKeepsStock,
     CommitKeepsStock DEF Statement
<1>6. ASSUME NEW h \in Handler, Abort(h)
      PROVE  StockInv'
  BY <1>1, <1>6, RefuseKeepsStock DEF Abort
<1>7. CASE \E x \in recent : WindowPasses(x)
  BY <1>7, IdleKeepsStock DEF WindowPasses
<1>8. CASE \E p \in Product : SellerStep(p)
  BY <1>8, SellerStepKeepsStock
<1>9. CASE UNCHANGED vars
  BY <1>9, IdleKeepsStock DEF vars
<1> QED BY <1>2, <1>5, <1>6, <1>7, <1>8, <1>9 DEF Next, Handler

\* What the property adds up is the number of the units that are reserved.
LEMMA SumOfReserved ==
  ASSUME Typed, StockInv, NEW p \in Product
  PROVE  MapThenSumSet(LAMBDA o : Reserved(o, p), Creator) = Total(Amounts(p), Creator)
<1> DEFINE f == Amounts(p)
           It(g) == g = [s \in SUBSET Creator |-> IF s = {} THEN 0
                       ELSE Reserved(CHOOSE x \in s : TRUE, p) + g[s \ {CHOOSE x \in s : TRUE}]]
           total == [s \in SUBSET Creator |-> Total(f, s)]
           iter == CHOOSE g : It(g)
<1>1. f \in [Creator -> Nat] /\ IsFiniteSet(Creator) /\ \A o \in Creator : f[o] = Reserved(o, p)
  BY AmountsAreTyped DEF StockInv, Amounts
<1> HIDE DEF f
<1>2. \A s \in SUBSET Creator : s # {} =>
        /\ f[CHOOSE x \in s : TRUE] = Reserved(CHOOSE x \in s : TRUE, p)
        /\ Total(f, s) = f[CHOOSE x \in s : TRUE] + Total(f, s \ {CHOOSE x \in s : TRUE})
  <2> SUFFICES ASSUME NEW s \in SUBSET Creator, s # {}
               PROVE  /\ f[CHOOSE x \in s : TRUE] = Reserved(CHOOSE x \in s : TRUE, p)
                      /\ Total(f, s) = f[CHOOSE x \in s : TRUE]
                                         + Total(f, s \ {CHOOSE x \in s : TRUE})
    OBVIOUS
  <2>1. PICK x \in s : x = CHOOSE y \in s : TRUE
    OBVIOUS
  <2>2. f[x] = Reserved(x, p)
    BY <1>1
  <2>3. Total(f, s) = f[x] + Total(f, s \ {x})
    BY <1>1, TotalOfOneMore
  <2> QED BY <2>1, <2>2, <2>3
<1>3. It(total)
  <2>1. \A s \in SUBSET Creator : Total(f, s) =
          IF s = {} THEN 0
          ELSE Reserved(CHOOSE x \in s : TRUE, p) + Total(f, s \ {CHOOSE x \in s : TRUE})
    BY <1>2, TotalOfNone
  <2>2. \A s \in SUBSET Creator : s \ {CHOOSE x \in s : TRUE} \in SUBSET Creator
    OBVIOUS
  <2> QED BY <2>1, <2>2
<1>4. It(iter)
  BY <1>3, Zenon
<1>5. MapThenSumSet(LAMBDA o : Reserved(o, p), Creator) = iter[Creator]
  BY Zenon DEF MapThenSumSet, MapThenFoldSet
<1> HIDE DEF iter
<1>6. iter = [s \in SUBSET Creator |-> IF s = {} THEN 0
                ELSE f[CHOOSE x \in s : TRUE] + iter[s \ {CHOOSE x \in s : TRUE}]]
  <2>1. \A s \in SUBSET Creator :
          (IF s = {} THEN 0 ELSE Reserved(CHOOSE x \in s : TRUE, p) + iter[s \ {CHOOSE x \in s : TRUE}])
          = (IF s = {} THEN 0 ELSE f[CHOOSE x \in s : TRUE] + iter[s \ {CHOOSE x \in s : TRUE}])
    BY <1>2
  <2> QED BY <1>4, <2>1, Zenon
<1>7. iter[Creator] = Total(f, Creator)
  BY <1>1, <1>6, SumIsTotal
<1> QED BY <1>5, <1>7, Zenon DEF f

\* The inductive invariant of the stock: what orders and sessions list has been on
\* sale, a session that has locked its products has locked all of them, and every
\* unit is in stock or reserved.
THEOREM StockInductive == Spec => []StockInv
<1>1. Init => StockInv
  BY InitStock
<1>2. IInv /\ StockInv /\ [Next]_vars => StockInv'
  BY StepKeepsStock
<1> QED BY <1>1, <1>2, Inductive, PTL DEF Spec

\* For any numbers of products, orders and requests that overlap, what sellers have put
\* on sale is in stock or in a live order, for every product whose orders nobody changed
\* under a handler that had read them.
THEOREM StockIsAccounted == Spec => []StockAccounting
<1>1. IInv /\ StockInv => StockAccounting
  <2> SUFFICES ASSUME IInv, StockInv, NEW p \in Product \ disputed
               PROVE  stock[p] + MapThenSumSet(LAMBDA o : Reserved(o, p), Creator) = supplied[p]
    BY Zenon DEF StockAccounting
  <2>1. MapThenSumSet(LAMBDA o : Reserved(o, p), Creator) = Total(Amounts(p), Creator)
    BY SumOfReserved DEF IInv
  <2>2. stock[p] + Total(Amounts(p), Creator) = supplied[p]
    BY DEF StockInv, UnitsAccounted
  <2> QED BY <2>1, <2>2, Zenon
<1> QED BY <1>1, Inductive, StockInductive, PTL

\* Types: no product is sold below nothing and the promo code is never counted beyond
\* max_uses, for any number of requests that overlap.
THEOREM TypeCorrect == Spec => []TypeOK
<1>1. IInv /\ StockInv => TypeOK
  BY DEF IInv, Typed, StockInv, StockTyped, TypeOK
<1> QED BY <1>1, Inductive, StockInductive, PTL

=============================================================================
