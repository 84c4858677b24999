------------------------- MODULE BookingSagaProofs -------------------------
(***************************************************************************)
(* Proofs about BookingSaga, for any number of requests, flights, seats and*)
(* attempts: every step of the handlers is one that SeatInventory allows   *)
(* (HandlersUseInventory), and three inductive invariants on top of that:  *)
(*                                                                         *)
(*   Typed     the types, and which request a handler is serving at a place*)
(*   IInv      what calls know of reservations, and what the bookings table*)
(*             and the reservations table owe each other, whatever fails   *)
(*   AloneInv  what more is known when nothing but an insert fails         *)
(*                                                                         *)
(* A step of one handler is proved in two parts: OthersKeep... say that it *)
(* disturbs no other handler, ...Moves what it does to its own.            *)
(***************************************************************************)
EXTENDS BookingSaga, FiniteSetTheorems, TLAPS

Seats == INSTANCE SeatInventoryProofs WITH Booking <- Creator, Caller <- Attempt

-----------------------------------------------------------------------------
(* Which requests handlers serve, and what they ask of flight_service *)

\* A handler is where the handlers of its kind can be, with a request of its kind;
\* no seats are reserved, and no row inserted, for a booking of no seats.
CreatorServes(h) ==
  /\ pc[h] \in {"none", "lookup", "reserve", "insert", "compensate", "done", "dead"}
  /\ pc[h] = "none" => request[h] = NoRequest
  /\ pc[h] # "none" => request[h] \in CreateRequest
  /\ pc[h] \in {"reserve", "insert", "compensate"} => request[h].seats \in PartySize
  /\ pc[h] \in {"none", "lookup", "reserve", "insert"} => booking[h] = NoBooking
CancellerServes(h) ==
  /\ pc[h] \in {"none", "load", "release", "mark", "done", "dead"}
  /\ pc[h] = "none" => request[h] = NoRequest
  /\ pc[h] # "none" => request[h] \in CancelRequest
  /\ pc[h] \in {"release", "mark"} => booking[request[h].booking] # NoBooking

Serving ==
  /\ \A h \in Creator : CreatorServes(h)
  /\ \A h \in Canceller : CancellerServes(h)

Typed == TypeOK /\ Serving

LEMMA Disjoint == \A h \in Handler : (h \in Creator) # (h \in Canceller)
  BY SagaAssumption DEF Handler

\* The message of an RPC is a request flight_service knows, callWithRetry's Send.
LEMMA MessageIsRequest ==
  ASSUME Typed, NEW h \in Handler, Calling(h)
  PROVE  Message(h) \in Inventory!Request
<1> USE DEF Typed, Serving, Calling, Message, Inventory!Request
<1>1. CASE pc[h] = "reserve"
  <2>1. h \in Creator /\ request[h] \in CreateRequest /\ request[h].seats \in PartySize
    BY <1>1, Disjoint DEF CreatorServes, CancellerServes
  <2>2. request[h].flight \in Flight
    BY <2>1 DEF CreateRequest
  <2> QED BY <1>1, <2>1, <2>2 DEF Inventory!ReserveRequest
<1>2. CASE pc[h] # "reserve"
  <2>1. BookingOf(h) \in Creator
    <3>1. CASE h \in Creator
      BY <3>1 DEF BookingOf
    <3>2. CASE h \notin Creator
      <4>1. h \in Canceller /\ request[h] \in CancelRequest
        BY <3>2 DEF Handler, CancellerServes
      <4> QED BY <3>2, <4>1 DEF BookingOf, CancelRequest
    <3> QED BY <3>1, <3>2
  <2> QED BY <1>2, <2>1 DEF Inventory!ReleaseRequest
<1> QED BY <1>1, <1>2

LEMMA SendIsInvoke ==
  ASSUME Typed, NEW h \in Handler, FirstAttempt(h) \/ NextAttempt(h)
  PROVE  \E k \in 1 .. MaxAttempts :
           /\ Calling(h) /\ Send(h, k)
           /\ <<h, Op(h), k>> \in Attempt
           /\ Message(h) \in Inventory!Request
<1>1. Calling(h) /\ MaxAttempts \in Nat \ {0} /\ attempt[h] \in 0 .. MaxAttempts
  BY SagaAssumption DEF FirstAttempt, NextAttempt, Typed, TypeOK
<1>2. PICK k \in 1 .. MaxAttempts : Send(h, k)
  <2>1. CASE FirstAttempt(h)
    BY <2>1, <1>1 DEF FirstAttempt
  <2>2. CASE NextAttempt(h)
    <3>1. attempt[h] + 1 \in 1 .. MaxAttempts
      BY <2>2, <1>1 DEF NextAttempt
    <3> QED BY <2>2, <3>1 DEF NextAttempt
  <2> QED BY <2>1, <2>2
<1>3. <<h, Op(h), k>> \in Attempt
  BY DEF Attempt, Op
<1> QED BY <1>1, <1>2, <1>3, MessageIsRequest

-----------------------------------------------------------------------------
(* Every step is one of flight_service, or none of its business *)

LEMMA SameInit == Inventory!Init => Seats!Init
  BY DEF Inventory!Init, Seats!Init, Inventory!NoRow, Seats!NoRow, Inventory!Idle, Seats!Idle

LEMMA SameRequest == Inventory!Request = Seats!Request
  BY DEF Inventory!Request, Seats!Request, Inventory!ReserveRequest, Seats!ReserveRequest,
         Inventory!ReleaseRequest, Seats!ReleaseRequest

LEMMA SameTypes == Inventory!TypeOK <=> Seats!TypeOK
  BY SameRequest DEF Inventory!TypeOK, Seats!TypeOK, Inventory!Rows, Seats!Rows, Inventory!NoRow,
         Seats!NoRow, Inventory!Calls, Seats!Calls, Inventory!Idle, Seats!Idle,
         Inventory!Answers, Seats!Answers

LEMMA SameTypesNext == Inventory!TypeOK' <=> Seats!TypeOK'
  BY SameRequest DEF Inventory!TypeOK, Seats!TypeOK, Inventory!Rows, Seats!Rows, Inventory!NoRow,
         Seats!NoRow, Inventory!Calls, Seats!Calls, Inventory!Idle, Seats!Idle,
         Inventory!Answers, Seats!Answers

LEMMA SameFinite ==
  \A S : (Seats!IsFiniteSet(S) <=> IsFiniteSet(S)) /\ Seats!Cardinality(S) = Cardinality(S)
  BY DEF IsFiniteSet, Seats!IsFiniteSet, Cardinality, Seats!Cardinality

LEMMA SameInvoke ==
  ASSUME NEW c, NEW r, Inventory!Invoke(c, r)
  PROVE  Seats!Invoke(c, r)
  BY DEF Inventory!Invoke, Seats!Invoke, Inventory!Idle, Seats!Idle

LEMMA SameDecide ==
  ASSUME NEW c, Inventory!Decide(c)
  PROVE  Seats!Decide(c)
<1> USE DEF Inventory!Answer, Seats!Answer, Inventory!Pending, Seats!Pending
<1>1. CASE Inventory!Reserve(c)
  BY <1>1 DEF Seats!Decide, Inventory!Reserve, Seats!Reserve, Inventory!Take, Seats!Take,
              Inventory!Row, Seats!Row, Inventory!NoRow, Seats!NoRow
<1>2. CASE Inventory!RefuseReserve(c)
  BY <1>2 DEF Seats!Decide, Inventory!RefuseReserve, Seats!RefuseReserve,
              Inventory!NoRow, Seats!NoRow
<1>3. CASE Inventory!Release(c)
  BY <1>3 DEF Seats!Decide, Inventory!Release, Seats!Release, Inventory!GiveBack, Seats!GiveBack
<1>4. CASE Inventory!RefuseRelease(c)
  BY <1>4 DEF Seats!Decide, Inventory!RefuseRelease, Seats!RefuseRelease
<1>5. CASE Inventory!Fail(c)
  BY <1>5 DEF Seats!Decide, Inventory!Fail, Seats!Fail
<1> QED BY <1>1, <1>2, <1>3, <1>4, <1>5 DEF Inventory!Decide

\* A handler asks with Invoke, flight_service acts with Decide; nothing else
\* touches flight_db.
LEMMA StepOfInventory ==
  ASSUME Typed, [Next]_vars
  PROVE  [Inventory!Next]_(Inventory!vars)
<1> USE DEF Inventory!vars
<1>1. ASSUME NEW h \in Handler, FirstAttempt(h) \/ NextAttempt(h)
      PROVE  Inventory!Next
  BY <1>1, SendIsInvoke DEF Send, Inventory!Next
<1>2. ASSUME NEW a \in Attempt, Execute(a)
      PROVE  Inventory!Next
  BY <1>2 DEF Execute, Inventory!Next
<1>3. ASSUME NEW h \in Handler, Step(h), ~(FirstAttempt(h) \/ NextAttempt(h))
      PROVE  UNCHANGED flightService
  BY <1>3 DEF Step, LookUpFlight, Reserved, InsertBooking, Compensated, LoadBooking, Released,
              MarkCancelled
<1>4. ASSUME NEW h \in Handler, Start(h) \/ Disconnect(h)
      PROVE  UNCHANGED flightService
  BY <1>4 DEF Start, StartCreate, StartCancel, Disconnect
<1>5. ASSUME Crash
      PROVE  UNCHANGED flightService
  BY <1>5 DEF Crash
<1>6. UNCHANGED flightService => UNCHANGED Inventory!vars
  BY DEF flightService
<1>7. scenario.handlers \subseteq Handler
  BY SagaAssumption DEF Typed, TypeOK, Handler
<1>8. CASE Next
  BY <1>1, <1>2, <1>3, <1>4, <1>5, <1>6, <1>7, <1>8 DEF Next
<1>9. CASE UNCHANGED vars
  BY <1>9, <1>6 DEF vars, flightService
<1> QED BY <1>8, <1>9

LEMMA StepOfSeats ==
  ASSUME [Inventory!Next]_(Inventory!vars)
  PROVE  [Seats!Next]_(Seats!vars)
<1>1. CASE Inventory!Next
  <2>1. ASSUME NEW c \in Attempt, NEW r \in Inventory!Request, Inventory!Invoke(c, r)
        PROVE  Seats!Next
    BY <2>1, SameInvoke, SameRequest DEF Seats!Next
  <2>2. ASSUME NEW c \in Attempt, Inventory!Decide(c)
        PROVE  Seats!Next
    BY <2>2, SameDecide DEF Seats!Next
  <2>3. ASSUME NEW c \in Attempt, Inventory!Return(c)
        PROVE  Seats!Next
    <3>1. Seats!Return(c)
      BY <2>3 DEF Inventory!Return, Seats!Return, Inventory!Answers, Seats!Answers, Inventory!Idle,
                  Seats!Idle
    <3> QED BY <3>1 DEF Seats!Next
  <2> QED BY <1>1, <2>1, <2>2, <2>3 DEF Inventory!Next
<1>2. CASE UNCHANGED Inventory!vars
  BY <1>2 DEF Inventory!vars, Seats!vars
<1> QED BY <1>1, <1>2

LEMMA InventoryTypePreserved ==
  ASSUME Typed, [Next]_vars
  PROVE  Inventory!TypeOK'
<1>1. Seats!InventoryAssumption
  BY SagaAssumption DEF Seats!InventoryAssumption
<1>2. Seats!TypeOK /\ [Seats!Next]_(Seats!vars)
  BY SameTypes, StepOfInventory, StepOfSeats DEF Typed, TypeOK
<1>3. Seats!TypeOK'
  BY <1>1, <1>2, Seats!TypePreserved
<1> QED BY <1>3, SameTypesNext
-----------------------------------------------------------------------------
(* Every variable has its type *)

Places == {"none", "lookup", "reserve", "insert", "compensate",
           "load", "release", "mark", "done", "dead"}
Codes == {0, 200, 201, 400, 404, 409, 500, 503}
HandlerTypes ==
  /\ pc \in [Handler -> Places]
  /\ request \in [Handler -> CreateRequest \union CancelRequest \union {NoRequest}]
  /\ attempt \in [Handler -> 0 .. MaxAttempts]
  /\ gone \in [Handler -> BOOLEAN]
  /\ http \in [Handler -> Codes]
BookingTypes == booking \in [Creator -> Bookings \union {NoBooking}]

\* What a step of one handler leaves alone.
OthersStay(h) ==
  \A g \in Handler \ {h} :
    /\ pc'[g] = pc[g] /\ request'[g] = request[g] /\ http'[g] = http[g]
    /\ gone'[g] = gone[g] /\ attempt'[g] = attempt[g]

\* The move from one place of the code to another.
Moves(h, place, code) ==
  /\ HandlerTypes'
  /\ OthersStay(h)
  /\ pc'[h] = place /\ request' = request /\ gone' = gone /\ attempt'[h] = 0
  /\ http'[h] = code

LEMMA GotoMoves ==
  ASSUME HandlerTypes, NEW h \in Handler, NEW place \in Places, Goto(h, place)
  PROVE  Moves(h, place, http[h])
<1>1. 0 \in 0 .. MaxAttempts
  BY SagaAssumption
<1> QED BY <1>1 DEF HandlerTypes, Goto, Moves, OthersStay

LEMMA RespondMoves ==
  ASSUME HandlerTypes, NEW h \in Handler, NEW code \in Codes, Respond(h, code)
  PROVE  Moves(h, "done", code)
<1>1. 0 \in 0 .. MaxAttempts /\ "done" \in Places
  BY SagaAssumption DEF Places
<1> QED BY <1>1 DEF HandlerTypes, Respond, Moves, OthersStay

\* writeGrpcError answers a failure with an error status.
LEMMA StatusOfFailure ==
  ASSUME NEW h \in Handler, NEW o \in Outcomes(h), o # "ok"
  PROVE  HttpStatus(o) \in {404, 409, 500, 503} /\ (HttpStatus(o) = 404 => o = "not_found")
<1>1. o \in {"not_found", "no_seats", "already_exists", "error", "unavailable", "canceled"}
  BY DEF Outcomes, Inventory!Answers
<1> QED BY <1>1 DEF HttpStatus

\* Where each step takes its handler.
LEMMA LookUpFlightMoves ==
  ASSUME HandlerTypes, NEW h \in Handler, LookUpFlight(h)
  PROVE  /\ pc[h] = "lookup"
         /\ \/ Moves(h, "reserve", http[h]) /\ request[h].seats > 0
            \/ \E code \in {400, 404, 500, 503} : Moves(h, "done", code)
<1> USE DEF LookUpFlight
<1>1. CASE Goto(h, "reserve") /\ request[h].seats > 0
  BY <1>1, GotoMoves DEF Places
<1>2. ASSUME NEW code \in {400, 404, 500, 503}, Respond(h, code)
      PROVE  Moves(h, "done", code)
  BY <1>2, RespondMoves DEF Codes
<1> QED BY <1>1, <1>2

LEMMA ReservedMoves ==
  ASSUME HandlerTypes, NEW h \in Handler, Reserved(h)
  PROVE  \E o \in Outcomes(h) :
           \/ o \in {"ok", "already_exists"} /\ Moves(h, "insert", http[h])
           \/ /\ o \notin {"ok", "already_exists"}
              /\ HttpStatus(o) \in {404, 409, 500, 503}
              /\ Moves(h, "done", HttpStatus(o))
<1>1. PICK o \in Outcomes(h) :
        IF o \in {"ok", "already_exists"} THEN Goto(h, "insert") ELSE Respond(h, HttpStatus(o))
  BY DEF Reserved
<1>2. CASE o \in {"ok", "already_exists"}
  BY <1>1, <1>2, GotoMoves DEF Places
<1>3. CASE o \notin {"ok", "already_exists"}
  <2>1. HttpStatus(o) \in {404, 409, 500, 503}
    BY <1>3, StatusOfFailure
  <2> QED BY <1>1, <1>3, <2>1, RespondMoves DEF Codes
<1> QED BY <1>2, <1>3

LEMMA InsertBookingMoves ==
  ASSUME HandlerTypes, NEW h \in Handler, InsertBooking(h)
  PROVE  \/ Insert(h) /\ Moves(h, "done", 201)
         \/ Insert(h) /\ MayFail(h) /\ Moves(h, "compensate", http[h])
         \/ UNCHANGED booking /\ Moves(h, "compensate", http[h])
<1>1. Respond(h, 201) => Moves(h, "done", 201)
  BY RespondMoves DEF Codes
<1>2. Goto(h, "compensate") => Moves(h, "compensate", http[h])
  BY GotoMoves DEF Places
<1> QED BY <1>1, <1>2 DEF InsertBooking

LEMMA CompensatedMoves ==
  ASSUME HandlerTypes, NEW h \in Handler, Compensated(h)
  PROVE  Moves(h, "done", 500)
  BY RespondMoves DEF Compensated, Codes

LEMMA LoadBookingMoves ==
  ASSUME HandlerTypes, NEW h \in Handler, LoadBooking(h)
  PROVE  \/ booking[request[h].booking] = NoBooking /\ Moves(h, "done", 404)
         \/ booking[request[h].booking].status = "CANCELLED" /\ Moves(h, "done", 400)
         \/ booking[request[h].booking].status = "CONFIRMED" /\ Moves(h, "release", http[h])
         \/ MayFail(h) /\ Moves(h, "done", 500)
<1>1. \A code \in {400, 404, 500} : Respond(h, code) => Moves(h, "done", code)
  BY RespondMoves DEF Codes
<1>2. Goto(h, "release") => Moves(h, "release", http[h])
  BY GotoMoves DEF Places
<1> QED BY <1>1, <1>2 DEF LoadBooking

LEMMA ReleasedMoves ==
  ASSUME HandlerTypes, NEW h \in Handler, Released(h)
  PROVE  \E o \in Outcomes(h) :
           \/ o = "ok" /\ Moves(h, "mark", http[h])
           \/ /\ o # "ok"
              /\ HttpStatus(o) \in {404, 409, 500, 503} /\ (HttpStatus(o) = 404 => o = "not_found")
              /\ Moves(h, "done", HttpStatus(o))
<1>1. PICK o \in Outcomes(h) : IF o = "ok" THEN Goto(h, "mark") ELSE Respond(h, HttpStatus(o))
  BY DEF Released
<1>2. CASE o = "ok"
  BY <1>1, <1>2, GotoMoves DEF Places
<1>3. CASE o # "ok"
  <2>1. HttpStatus(o) \in {404, 409, 500, 503} /\ (HttpStatus(o) = 404 => o = "not_found")
    BY <1>3, StatusOfFailure
  <2> QED BY <1>1, <1>3, <2>1, RespondMoves DEF Codes
<1> QED BY <1>2, <1>3

MarksCancelled(b) == booking' = [booking EXCEPT ![b].status = "CANCELLED"]
LEMMA MarkCancelledMoves ==
  ASSUME HandlerTypes, NEW h \in Handler, MarkCancelled(h)
  PROVE  \/ MarksCancelled(request[h].booking) /\ Moves(h, "done", 200)
         \/ /\ MayFail(h) /\ (MarksCancelled(request[h].booking) \/ UNCHANGED booking)
            /\ Moves(h, "done", 500)
<1>1. \A code \in {200, 500} : Respond(h, code) => Moves(h, "done", code)
  BY RespondMoves DEF Codes
<1> QED BY <1>1 DEF MarkCancelled, MarksCancelled

\* The two changes of the bookings table.
LEMMA InsertEffect ==
  ASSUME Typed, NEW h \in Handler, pc[h] = "insert", Insert(h)
  PROVE  /\ h \in Creator /\ BookingTypes'
         /\ booking'[h] \in Bookings /\ booking'[h].status = "CONFIRMED"
         /\ booking'[h].flight = request[h].flight /\ booking'[h].seats = request[h].seats
         /\ \A b \in Creator \ {h} : booking'[b] = booking[b]
<1>1. h \in Creator /\ request[h] \in CreateRequest /\ request[h].seats \in PartySize
  BY DEF Typed, Serving, CreatorServes, CancellerServes, Handler
<1>2. request[h].flight \in Flight
  BY <1>1 DEF CreateRequest
<1>3. NewBooking(h) \in Bookings
  BY <1>1, <1>2 DEF NewBooking, Bookings
<1> QED BY <1>1, <1>3 DEF Typed, TypeOK, BookingTypes, Insert, NewBooking

LEMMA MarkEffect ==
  ASSUME Typed, NEW h \in Handler, pc[h] = "mark", MarksCancelled(request[h].booking)
  PROVE  LET c == request[h].booking IN
         /\ h \in Canceller /\ c \in Creator /\ BookingTypes'
         /\ booking[c] \in Bookings /\ booking'[c] \in Bookings /\ booking'[c].status = "CANCELLED"
         /\ booking'[c].flight = booking[c].flight /\ booking'[c].seats = booking[c].seats
         /\ \A b \in Creator \ {c} : booking'[b] = booking[b]
<1> DEFINE c == request[h].booking
<1>1. h \in Canceller /\ request[h] \in CancelRequest /\ booking[c] # NoBooking
  BY DEF Typed, Serving, CreatorServes, CancellerServes, Handler
<1>2. c \in Creator /\ booking \in [Creator -> Bookings \union {NoBooking}]
  BY <1>1 DEF CancelRequest, Typed, TypeOK
<1>3. booking[c] \in Bookings
  BY <1>1, <1>2
<1>4. PICK f \in Flight, n \in PartySize, s \in {"CONFIRMED", "CANCELLED"} :
        booking[c] = [flight |-> f, seats |-> n, status |-> s]
  BY <1>3 DEF Bookings
<1>5. booking'[c] = [flight |-> f, seats |-> n, status |-> "CANCELLED"]
  <2>1. booking'[c] = [booking[c] EXCEPT !.status = "CANCELLED"]
    BY <1>2 DEF MarksCancelled
  <2> QED BY <1>4, <2>1
<1>6. booking'[c] \in Bookings
  BY <1>5 DEF Bookings
<1>7. \A b \in Creator \ {c} : booking'[b] = booking[b]
  BY <1>2 DEF MarksCancelled
<1>8. BookingTypes'
  <2>1. booking' = [booking EXCEPT ![c] = booking'[c]]
    BY <1>2 DEF MarksCancelled
  <2> QED BY <1>2, <1>6, <2>1 DEF BookingTypes
<1> QED BY <1>1, <1>2, <1>3, <1>4, <1>5, <1>6, <1>7, <1>8

\* A booking is never deleted, nor is a cancellation undone.
BookingsStay ==
  \A b \in Creator :
    /\ booking[b] # NoBooking => /\ booking'[b] # NoBooking
                                 /\ booking'[b].flight = booking[b].flight
                                 /\ booking'[b].seats = booking[b].seats
    /\ booking[b].status = "CANCELLED" => booking'[b].status = "CANCELLED"

\* Only handler h can have made one.
NoneButOf(h) == \A b \in Creator \ {h} : booking[b] = NoBooking => booking'[b] = NoBooking

LEMMA InsertKeeps ==
  ASSUME Typed, NEW h \in Handler, pc[h] = "insert", Insert(h)
  PROVE  BookingsStay /\ NoneButOf(h)
<1>1. booking[h] = NoBooking
  BY InsertEffect DEF Typed, Serving, CreatorServes
<1> QED BY <1>1, InsertEffect DEF BookingsStay, NoneButOf, NoBooking

LEMMA MarkKeeps ==
  ASSUME Typed, NEW h \in Handler, pc[h] = "mark", MarksCancelled(request[h].booking)
  PROVE  BookingsStay /\ NoneButOf(h)
<1> DEFINE c == request[h].booking
<1>1. ASSUME NEW b \in Creator, b # c
      PROVE  booking'[b] = booking[b]
  BY <1>1, MarkEffect
<1>2. /\ booking[c] \in Bookings
      /\ booking'[c] \in Bookings /\ booking'[c].status = "CANCELLED"
      /\ booking'[c].flight = booking[c].flight /\ booking'[c].seats = booking[c].seats
  BY MarkEffect
<1>3. booking'[c] # NoBooking /\ booking[c] # NoBooking
  BY <1>2 DEF NoBooking, Bookings
<1> QED BY <1>1, <1>2, <1>3 DEF BookingsStay, NoneButOf

\* The others' steps leave a handler in the place and with the request it has.
LEMMA ServingOthers ==
  ASSUME Typed, NEW h \in Handler, OthersStay(h), BookingsStay, NoneButOf(h)
  PROVE  /\ \A g \in Creator \ {h} : CreatorServes(g)'
         /\ \A g \in Canceller \ {h} : CancellerServes(g)'
<1>1. ASSUME NEW g \in Creator \ {h}
      PROVE  CreatorServes(g)'
  <2>1. CreatorServes(g)
    BY DEF Typed, Serving
  <2>2. pc'[g] = pc[g] /\ request'[g] = request[g]
    BY DEF OthersStay, Handler
  <2> QED BY <2>1, <2>2 DEF CreatorServes, NoneButOf
<1>2. ASSUME NEW g \in Canceller \ {h}
      PROVE  CancellerServes(g)'
  <2>1. CancellerServes(g)
    BY DEF Typed, Serving
  <2>2. pc'[g] = pc[g] /\ request'[g] = request[g]
    BY DEF OthersStay, Handler
  <2>3. pc[g] \in {"release", "mark"} => request[g].booking \in Creator
    BY <2>1 DEF CancellerServes, CancelRequest
  <2> QED BY <2>1, <2>2, <2>3 DEF CancellerServes, BookingsStay
<1> QED BY <1>1, <1>2

\* A step that is typed for its own handler is typed.
LEMMA ServingAll ==
  ASSUME Typed, NEW h \in Handler, OthersStay(h), BookingsStay, NoneButOf(h),
         HandlerTypes', BookingTypes', UNCHANGED scenario, Inventory!TypeOK',
         h \in Creator => CreatorServes(h)', h \in Canceller => CancellerServes(h)'
  PROVE  Typed'
<1>1. Serving'
  BY ServingOthers DEF Serving
<1>2. TypeOK'
  BY DEF Typed, TypeOK, HandlerTypes, BookingTypes, Places, Codes
<1> QED BY <1>1, <1>2 DEF Typed

LEMMA NoBookingChange ==
  ASSUME UNCHANGED booking, Typed, NEW h
  PROVE  BookingsStay /\ NoneButOf(h) /\ BookingTypes'
  BY DEF BookingsStay, NoneButOf, BookingTypes, Typed, TypeOK

LEMMA TypedIs ==
  ASSUME Typed
  PROVE  HandlerTypes /\ BookingTypes
  BY DEF Typed, TypeOK, HandlerTypes, BookingTypes, Places, Codes

LEMMA StartTyped ==
  ASSUME Typed, NEW h \in scenario.handlers, Start(h), UNCHANGED scenario, Inventory!TypeOK'
  PROVE  Typed'
<1>1. h \in Handler /\ scenario.bodies \subseteq CreateRequest
  BY SagaAssumption DEF Handler, Typed, TypeOK
<1>2. UNCHANGED booking /\ UNCHANGED <<attempt, gone, http>>
  BY DEF Start, StartCreate, StartCancel
<1>3. CASE h \in Creator
  <2>1. PICK r \in CreateRequest : StartCreate(h, r)
    BY <1>1, <1>3, SagaAssumption DEF Start
  <2>2. OthersStay(h) /\ HandlerTypes' /\ pc'[h] = "lookup" /\ request'[h] = r
    BY <1>1, <1>2, <2>1, TypedIs DEF StartCreate, OthersStay, HandlerTypes, Places
  <2>3. booking[h] = NoBooking
    BY <1>3, <2>1 DEF StartCreate, Typed, Serving, CreatorServes
  <2>4. CreatorServes(h)'
    BY <1>2, <2>2, <2>3 DEF CreatorServes
  <2> QED BY <1>1, <1>2, <1>3, <2>2, <2>4, NoBookingChange, ServingAll, Disjoint
<1>4. CASE h \in Canceller
  <2>1. PICK b \in Creator : StartCancel(h, b)
    BY <1>4, SagaAssumption DEF Start
  <2> DEFINE r == [kind |-> "cancel", booking |-> b]
  <2>2. r \in CancelRequest
    BY DEF CancelRequest
  <2> HIDE DEF r
  <2>3. OthersStay(h) /\ HandlerTypes' /\ pc'[h] = "load" /\ request'[h] = r
    BY <1>1, <1>2, <2>1, <2>2, TypedIs DEF StartCancel, OthersStay, HandlerTypes, Places, r
  <2>4. CancellerServes(h)'
    BY <2>2, <2>3 DEF CancellerServes
  <2> QED BY <1>1, <1>2, <1>4, <2>3, <2>4, NoBookingChange, ServingAll, Disjoint
<1> QED BY <1>1, <1>3, <1>4 DEF Handler

LEMMA MovesTyped ==
  ASSUME Typed, NEW h \in Handler, NEW place, NEW code, Moves(h, place, code),
         pc[h] # "none", place # "none", UNCHANGED scenario, Inventory!TypeOK',
         BookingsStay, NoneButOf(h), BookingTypes',
         h \in Creator =>
           /\ place \in {"reserve", "insert", "compensate", "done"}
           /\ place # "done" => request[h].seats \in PartySize
           /\ place \in {"reserve", "insert"} => booking'[h] = NoBooking,
         h \in Canceller =>
           /\ place \in {"release", "mark", "done"}
           /\ place # "done" => booking[request[h].booking] # NoBooking
  PROVE  Typed'
<1>1. /\ OthersStay(h) /\ HandlerTypes'
      /\ pc'[h] = place /\ request'[h] = request[h]
  BY DEF Moves
<1>2. ASSUME h \in Creator
      PROVE  CreatorServes(h)'
  BY <1>1, <1>2 DEF CreatorServes, Typed, Serving
<1>3. ASSUME h \in Canceller
      PROVE  CancellerServes(h)'
  <2>1. CancellerServes(h)
    BY <1>3 DEF Typed, Serving
  <2>2. request[h].booking \in Creator
    BY <2>1 DEF CancellerServes, CancelRequest
  <2> QED BY <1>1, <1>3, <2>1, <2>2 DEF CancellerServes, BookingsStay
<1> QED BY <1>1, <1>2, <1>3, ServingAll

\* Which kind of handler is at a place.
LEMMA WhoIs ==
  ASSUME Typed, NEW h \in Handler
  PROVE  /\ pc[h] \in {"lookup", "reserve", "insert", "compensate"} =>
              h \in Creator /\ h \notin Canceller /\ CreatorServes(h)
         /\ pc[h] \in {"load", "release", "mark"} =>
              h \in Canceller /\ h \notin Creator /\ CancellerServes(h)
  BY Disjoint DEF Typed, Serving, CreatorServes, CancellerServes, Handler

LEMMA StepTyped ==
  ASSUME Typed, NEW h \in Handler, Step(h), UNCHANGED scenario, Inventory!TypeOK'
  PROVE  Typed'
<1> USE TypedIs, WhoIs
<1>1. CASE FirstAttempt(h) \/ NextAttempt(h)
  <2>1. PICK k \in 1 .. MaxAttempts : Send(h, k)
    BY <1>1, SendIsInvoke
  <2>2. UNCHANGED <<booking, pc, request, gone, http>> /\ attempt' = [attempt EXCEPT ![h] = k]
    BY <2>1 DEF Send
  <2>3. k \in 0 .. MaxAttempts
    BY SagaAssumption
  <2>4. HandlerTypes' /\ BookingTypes'
    BY <2>2, <2>3 DEF HandlerTypes, BookingTypes
  <2>5. Serving'
    BY <2>2 DEF Typed, Serving, CreatorServes, CancellerServes
  <2> QED BY <2>4, <2>5 DEF Typed, TypeOK, HandlerTypes, BookingTypes, Places, Codes
<1>2. CASE LookUpFlight(h)
  <2>1. UNCHANGED booking
    BY <1>2 DEF LookUpFlight
  <2>2. h \in Creator /\ h \notin Canceller /\ booking[h] = NoBooking /\ request[h].seats \in SeatCount
    BY <1>2 DEF LookUpFlight, CreatorServes, CreateRequest
  <2>3. request[h].seats > 0 => request[h].seats \in PartySize
    BY <2>2, SagaAssumption
  <2> QED BY <1>2, <2>1, <2>2, <2>3, LookUpFlightMoves, MovesTyped, NoBookingChange
<1>3. CASE Reserved(h)
  <2>1. UNCHANGED booking
    BY <1>3 DEF Reserved
  <2>2. pc[h] = "reserve" /\ h \in Creator /\ h \notin Canceller /\ booking[h] = NoBooking /\ request[h].seats \in PartySize
    BY <1>3 DEF Reserved, CreatorServes
  <2> QED BY <1>3, <2>1, <2>2, ReservedMoves, MovesTyped, NoBookingChange
<1>4. CASE InsertBooking(h)
  <2>1. pc[h] = "insert" /\ h \in Creator /\ h \notin Canceller /\ request[h].seats \in PartySize
    BY <1>4 DEF InsertBooking, CreatorServes
  <2>2. (Insert(h) \/ UNCHANGED booking) => BookingsStay /\ NoneButOf(h) /\ BookingTypes'
    BY <2>1, InsertEffect, InsertKeeps, NoBookingChange
  <2> QED BY <1>4, <2>1, <2>2, InsertBookingMoves, MovesTyped
<1>5. CASE Compensated(h)
  <2>1. UNCHANGED booking /\ pc[h] = "compensate" /\ h \in Creator /\ h \notin Canceller
    BY <1>5 DEF Compensated
  <2> QED BY <1>5, <2>1, CompensatedMoves, MovesTyped, NoBookingChange
<1>6. CASE LoadBooking(h)
  <2>1. UNCHANGED booking /\ pc[h] = "load" /\ h \in Canceller /\ h \notin Creator
    BY <1>6 DEF LoadBooking
  <2>2. booking[request[h].booking].status = "CONFIRMED" => booking[request[h].booking] # NoBooking
    BY DEF NoBooking
  <2> QED BY <1>6, <2>1, <2>2, LoadBookingMoves, MovesTyped, NoBookingChange
<1>7. CASE Released(h)
  <2>1. /\ UNCHANGED booking /\ pc[h] = "release" /\ h \in Canceller /\ h \notin Creator
        /\ booking[request[h].booking] # NoBooking
    BY <1>7 DEF Released, CancellerServes
  <2> QED BY <1>7, <2>1, ReleasedMoves, MovesTyped, NoBookingChange
<1>8. CASE MarkCancelled(h)
  <2>1. pc[h] = "mark" /\ h \in Canceller /\ h \notin Creator
    BY <1>8 DEF MarkCancelled
  <2>2. (MarksCancelled(request[h].booking) \/ UNCHANGED booking)
           => BookingsStay /\ NoneButOf(h) /\ BookingTypes'
    BY <2>1, MarkEffect, MarkKeeps, NoBookingChange
  <2> QED BY <1>8, <2>1, <2>2, MarkCancelledMoves, MovesTyped
<1> QED BY <1>1, <1>2, <1>3, <1>4, <1>5, <1>6, <1>7, <1>8 DEF Step

LEMMA TypedPreserved ==
  ASSUME Typed, [Next]_vars
  PROVE  Typed'
<1>1. Inventory!TypeOK'
  BY InventoryTypePreserved
<1>2. scenario.handlers \subseteq Handler
  BY SagaAssumption DEF Typed, TypeOK, Handler
<1>3. ASSUME NEW h \in Handler, Disconnect(h), UNCHANGED scenario
      PROVE  Typed'
  <2>1. UNCHANGED <<booking, pc, request, attempt, http>> /\ gone' = [gone EXCEPT ![h] = TRUE]
    BY <1>3 DEF Disconnect
  <2>2. HandlerTypes' /\ BookingTypes'
    BY <2>1, TypedIs DEF HandlerTypes, BookingTypes
  <2>3. Serving'
    BY <2>1 DEF Typed, Serving, CreatorServes, CancellerServes
  <2> QED BY <1>1, <1>3, <2>2, <2>3 DEF Typed, TypeOK, HandlerTypes, BookingTypes, Places, Codes
<1>4. ASSUME Crash, UNCHANGED scenario
      PROVE  Typed'
  <2>1. UNCHANGED <<booking, request, attempt, gone, http>>
    BY <1>4 DEF Crash
  <2>2. pc' = [h \in Handler |-> IF Active(h) THEN "dead" ELSE pc[h]]
    BY <1>4 DEF Crash
  <2>3. \A h \in Handler : pc'[h] = pc[h] \/ (pc[h] # "none" /\ pc'[h] = "dead")
    <3> SUFFICES ASSUME NEW h \in Handler
                 PROVE  pc'[h] = pc[h] \/ (pc[h] # "none" /\ pc'[h] = "dead")
      OBVIOUS
    <3>1. pc'[h] = IF Active(h) THEN "dead" ELSE pc[h]
      BY <2>2
    <3> QED BY <3>1 DEF Active
  <2>4. HandlerTypes' /\ BookingTypes'
    BY <2>1, <2>2, TypedIs DEF HandlerTypes, BookingTypes, Places
  <2>5. Serving'
    BY <2>1, <2>3 DEF Typed, Serving, CreatorServes, CancellerServes, Handler
  <2> QED BY <1>1, <1>4, <2>4, <2>5 DEF Typed, TypeOK, HandlerTypes, BookingTypes, Places, Codes
<1>5. ASSUME UNCHANGED <<booking, handlers>>, UNCHANGED scenario
      PROVE  Typed'
  BY <1>1, <1>5 DEF Typed, TypeOK, Serving, CreatorServes, CancellerServes, handlers
<1>6. CASE Next
  BY <1>1, <1>2, <1>3, <1>4, <1>5, <1>6, StepTyped, StartTyped DEF Next, Execute
<1>7. CASE UNCHANGED vars
  BY <1>5, <1>7 DEF vars, handlers
<1> QED BY <1>6, <1>7

LEMMA InitTyped ==
  ASSUME Init
  PROVE  Typed
<1>1. Inventory!TypeOK
  BY SagaAssumption DEF Init, Inventory!Init, Inventory!TypeOK, Inventory!Calls
<1>2. TypeOK
  BY <1>1, SagaAssumption DEF Init, TypeOK
<1>3. Serving
  BY DEF Init, Serving, CreatorServes, CancellerServes, Handler
<1> QED BY <1>2, <1>3 DEF Typed

LEMMA AlwaysTyped == Spec => []Typed
  BY InitTyped, TypedPreserved, PTL DEF Spec

\* Whatever handlers do and whatever fails, flight_service sees nothing but what
\* its own specification allows: requests with known ids and at least one seat,
\* each made once, and no change of its tables but its own.
THEOREM HandlersUseInventory == Spec => Inventory!Spec
<1>1. Init => Inventory!Init
  BY DEF Init
<1> QED BY <1>1, AlwaysTyped, StepOfInventory, PTL DEF Spec, Inventory!Spec

\* Hence the seats of a flight are accounted for, however attempts are retried,
\* given up, executed late or cut short by a crash of booking_service.
LEMMA SeatsAccountedFor == Spec => [](Seats!FiniteSeats /\ Seats!SeatAccounting)
<1>1. Seats!InventoryAssumption
  BY SagaAssumption DEF Seats!InventoryAssumption
<1>2. Spec => Seats!Spec
  <2>1. Init => Seats!Init
    BY SameInit DEF Init
  <2>2. Typed /\ [Next]_vars => [Seats!Next]_(Seats!vars)
    BY StepOfInventory, StepOfSeats
  <2> QED BY <2>1, <2>2, AlwaysTyped, PTL DEF Spec, Seats!Spec
<1>3. Seats!Spec => []Seats!IInv
  BY <1>1, Seats!Inductive, PTL
<1>4. Seats!IInv => Seats!FiniteSeats /\ Seats!SeatAccounting
  BY DEF Seats!IInv
<1> QED BY <1>2, <1>3, <1>4, PTL

-----------------------------------------------------------------------------
(* What calls know, and what the two databases owe each other *)

ReserveCall(h, k) == call[<<h, "reserve", k>>]
ReleaseCall(h, k) == call[<<h, "release", k>>]
Asked(c) == c # Inventory!Idle

\* What has been asked, and what the answers say.
CreatorCalls(h) ==
  \A k \in 1 .. MaxAttempts :
    /\ Asked(ReserveCall(h, k)) =>
         /\ pc[h] \notin {"none", "lookup"} /\ http[h] # 400
         /\ ReserveCall(h, k).req.op = "reserve" /\ ReserveCall(h, k).req.booking = h
         /\ ReserveCall(h, k).req.flight = request[h].flight
         /\ ReserveCall(h, k).req.seats = request[h].seats
         /\ ReserveCall(h, k).answer \in {"ok", "already_exists"} => reservation[h] # Inventory!NoRow
    /\ Asked(ReleaseCall(h, k)) =>
         /\ pc[h] \in {"compensate", "dead"} \/ http[h] = 500
         /\ ReleaseCall(h, k).req.op = "release" /\ ReleaseCall(h, k).req.booking = h
         /\ ReleaseCall(h, k).answer \in {"pending", "ok", "not_found", "error"}
         /\ reservation[h] # Inventory!NoRow
         /\ ReleaseCall(h, k).answer \in {"ok", "not_found"} => reservation[h].status = "RELEASED"
CancellerCalls(h) ==
  \A k \in 1 .. MaxAttempts :
    /\ ~Asked(ReserveCall(h, k))
    /\ Asked(ReleaseCall(h, k)) =>
         /\ pc[h] \in {"release", "mark", "dead"} \/ http[h] \in {200, 404, 409, 500, 503}
         /\ request[h] \in CancelRequest
         /\ ReleaseCall(h, k).req.op = "release" /\ ReleaseCall(h, k).req.booking = request[h].booking
         /\ booking[request[h].booking] # NoBooking
         /\ ReleaseCall(h, k).answer \in {"ok", "not_found"} =>
              reservation[request[h].booking].status = "RELEASED"

\* What a handler has done by the time it is at a place.
CreatorDone(h) ==
  /\ pc[h] \in {"none", "lookup"} => reservation[h] = Inventory!NoRow
  /\ http[h] = 400 => reservation[h] = Inventory!NoRow /\ booking[h] = NoBooking
  /\ pc[h] \in {"insert", "compensate"} => reservation[h] # Inventory!NoRow
  /\ reservation[h] # Inventory!NoRow =>
       reservation[h].flight = request[h].flight /\ reservation[h].seats = request[h].seats
  /\ booking[h] # NoBooking =>
       /\ reservation[h] # Inventory!NoRow
       /\ booking[h].flight = reservation[h].flight /\ booking[h].seats = reservation[h].seats
  /\ http[h] # 0 <=> pc[h] = "done"
  /\ http[h] \in {0, 201, 400, 404, 409, 500, 503}
  /\ http[h] = 201 => booking[h] # NoBooking
CancellerDone(h) ==
  /\ pc[h] = "mark" => reservation[request[h].booking].status = "RELEASED"
  /\ http[h] # 0 <=> pc[h] = "done"
  /\ http[h] = 200 => booking[request[h].booking].status = "CANCELLED"

\* A cancelled booking has no seats; a release is some handler's.
CancelledIsReleased ==
  \A b \in Creator : booking[b].status = "CANCELLED" => reservation[b].status = "RELEASED"
ReleasedByHandler ==
  \A b \in Creator : reservation[b].status = "RELEASED" =>
    \E h \in Handler, k \in 1 .. MaxAttempts : Asked(ReleaseCall(h, k)) /\ BookingOf(h) = b

IInv ==
  /\ Typed
  /\ \A h \in Creator : CreatorCalls(h) /\ CreatorDone(h)
  /\ \A h \in Canceller : CancellerCalls(h) /\ CancellerDone(h)
  /\ CancelledIsReleased
  /\ ReleasedByHandler

\* Reservations never disappear, nor are they revived.
ReservationsStay ==
  \A b \in Creator :
    /\ reservation[b] # Inventory!NoRow =>
         /\ reservation'[b] # Inventory!NoRow
         /\ reservation'[b].flight = reservation[b].flight
         /\ reservation'[b].seats = reservation[b].seats
    /\ reservation[b].status = "RELEASED" => reservation'[b].status = "RELEASED"
NoRowButOf(h) ==
  \A b \in Creator \ {h} : reservation[b] = Inventory!NoRow => reservation'[b] = Inventory!NoRow

\* The calls of the other handlers.
OthersWait(h) ==
  \A g \in Handler \ {h}, k \in 1 .. MaxAttempts :
    ReserveCall(g, k)' = ReserveCall(g, k) /\ ReleaseCall(g, k)' = ReleaseCall(g, k)

\* What holds of a handler holds after a step of another one.
LEMMA OthersKeepInv ==
  ASSUME IInv, NEW h \in Handler, OthersStay(h), OthersWait(h), BookingsStay, NoneButOf(h),
         ReservationsStay, NoRowButOf(h)
  PROVE  /\ \A g \in Creator \ {h} : CreatorCalls(g)' /\ CreatorDone(g)'
         /\ \A g \in Canceller \ {h} : CancellerCalls(g)' /\ CancellerDone(g)'
<1>1. ASSUME NEW g \in Creator \ {h}
      PROVE  CreatorCalls(g)' /\ CreatorDone(g)'
  <2>1. CreatorCalls(g) /\ CreatorDone(g)
    BY DEF IInv
  <2>2. pc'[g] = pc[g] /\ request'[g] = request[g] /\ http'[g] = http[g]
    BY DEF OthersStay, Handler
  <2>3. /\ reservation[g] = Inventory!NoRow <=> reservation'[g] = Inventory!NoRow
        /\ booking[g] = NoBooking <=> booking'[g] = NoBooking
        /\ reservation[g] # Inventory!NoRow =>
             reservation'[g].flight = reservation[g].flight /\ reservation'[g].seats = reservation[g].seats
        /\ booking[g] # NoBooking =>
             booking'[g].flight = booking[g].flight /\ booking'[g].seats = booking[g].seats
        /\ reservation[g].status = "RELEASED" => reservation'[g].status = "RELEASED"
    BY DEF BookingsStay, NoneButOf, ReservationsStay, NoRowButOf
  <2>4. CreatorCalls(g)'
    <3> SUFFICES ASSUME NEW k \in 1 .. MaxAttempts
                 PROVE  CreatorCalls(g)!(k)'
      BY DEF CreatorCalls
    <3>1. CreatorCalls(g)!(k)
      BY <2>1 DEF CreatorCalls
    <3>2. ReserveCall(g, k)' = ReserveCall(g, k) /\ ReleaseCall(g, k)' = ReleaseCall(g, k)
      BY DEF OthersWait, Handler
    <3> QED BY <2>2, <2>3, <3>1, <3>2 DEF Asked, Inventory!NoRow, Inventory!Idle
  <2>5. CreatorDone(g)'
    BY <2>1, <2>2, <2>3 DEF CreatorDone, NoBooking, Inventory!NoRow
  <2> QED BY <2>4, <2>5
<1>2. ASSUME NEW g \in Canceller \ {h}
      PROVE  CancellerCalls(g)' /\ CancellerDone(g)'
  <2>1. CancellerCalls(g) /\ CancellerDone(g) /\ CancellerServes(g)
    BY DEF IInv, Typed, Serving
  <2>2. pc'[g] = pc[g] /\ request'[g] = request[g] /\ http'[g] = http[g]
    BY DEF OthersStay, Handler
  <2>3. ASSUME request[g] \in CancelRequest
        PROVE  LET b == request[g].booking IN
               /\ booking[b] # NoBooking => booking'[b] # NoBooking
               /\ booking[b].status = "CANCELLED" => booking'[b].status = "CANCELLED"
               /\ reservation[b].status = "RELEASED" => reservation'[b].status = "RELEASED"
    <3>1. request[g].booking \in Creator
      BY <2>3 DEF CancelRequest
    <3> QED BY <3>1 DEF BookingsStay, ReservationsStay
  <2>4. CancellerCalls(g)'
    <3> SUFFICES ASSUME NEW k \in 1 .. MaxAttempts
                 PROVE  CancellerCalls(g)!(k)'
      BY DEF CancellerCalls
    <3>1. CancellerCalls(g)!(k)
      BY <2>1 DEF CancellerCalls
    <3>2. ReserveCall(g, k)' = ReserveCall(g, k) /\ ReleaseCall(g, k)' = ReleaseCall(g, k)
      BY DEF OthersWait, Handler
    <3> QED BY <2>2, <2>3, <3>1, <3>2 DEF Asked, Inventory!Idle, NoBooking
  <2>5. CancellerDone(g)'
    <3>1. http[g] = 200 => request[g] \in CancelRequest
      BY <2>1 DEF CancellerDone, CancellerServes
    <3>2. pc[g] = "mark" => request[g] \in CancelRequest
      BY <2>1 DEF CancellerServes
    <3> QED BY <2>1, <2>2, <2>3, <3>1, <3>2 DEF CancellerDone
  <2> QED BY <2>4, <2>5
<1> QED BY <1>1, <1>2

\* A release stays the doing of its handler: no call is forgotten, and a request
\* that has been made does not change.
CallsStay ==
  \A h \in Handler, k \in 1 .. MaxAttempts :
    /\ Asked(ReserveCall(h, k)) => Asked(ReserveCall(h, k))'
    /\ Asked(ReleaseCall(h, k)) => Asked(ReleaseCall(h, k))' /\ BookingOf(h)' = BookingOf(h)

LEMMA ReleasedByStays ==
  ASSUME IInv, CallsStay, NEW b \in Creator, reservation[b].status = "RELEASED"
  PROVE  (\E h \in Handler, k \in 1 .. MaxAttempts : Asked(ReleaseCall(h, k)) /\ BookingOf(h) = b)'
<1>1. PICK h \in Handler, k \in 1 .. MaxAttempts : Asked(ReleaseCall(h, k)) /\ BookingOf(h) = b
  BY DEF IInv, ReleasedByHandler
<1>2. Asked(ReleaseCall(h, k))' /\ BookingOf(h)' = b
  BY <1>1 DEF CallsStay
<1> QED BY <1>2

\* A handler that has been asking has its request.
LEMMA NoCallsAtFirst ==
  ASSUME IInv, NEW h \in Handler, NEW k \in 1 .. MaxAttempts, pc[h] = "none"
  PROVE  ~Asked(ReserveCall(h, k)) /\ ~Asked(ReleaseCall(h, k))
<1>1. http[h] = 0
  BY DEF IInv, CreatorDone, CancellerDone, Handler
<1>2. CASE h \in Creator
  BY <1>1, <1>2 DEF IInv, CreatorCalls
<1>3. CASE h \in Canceller
  BY <1>1, <1>3 DEF IInv, CancellerCalls
<1> QED BY <1>2, <1>3 DEF Handler

\* A step of a handler that neither asks nor touches flight_db.
LEMMA LocalInv ==
  ASSUME IInv, Typed', NEW h \in Handler, OthersStay(h), UNCHANGED flightService,
         BookingsStay, NoneButOf(h), pc[h] # "none" => request'[h] = request[h],
         h \in Creator => CreatorCalls(h)' /\ CreatorDone(h)',
         h \in Canceller => CancellerCalls(h)' /\ CancellerDone(h)',
         CancelledIsReleased'
  PROVE  IInv'
<1>1. ReservationsStay /\ NoRowButOf(h) /\ OthersWait(h)
  BY DEF flightService, ReservationsStay, NoRowButOf, OthersWait, ReserveCall, ReleaseCall
<1>2. /\ \A g \in Creator \ {h} : CreatorCalls(g)' /\ CreatorDone(g)'
      /\ \A g \in Canceller \ {h} : CancellerCalls(g)' /\ CancellerDone(g)'
  BY <1>1, OthersKeepInv
<1>3. CallsStay
  <2> SUFFICES ASSUME NEW g \in Handler, NEW k \in 1 .. MaxAttempts
               PROVE  CallsStay!(g, k)
    BY DEF CallsStay
  <2>1. ReserveCall(g, k)' = ReserveCall(g, k) /\ ReleaseCall(g, k)' = ReleaseCall(g, k)
    BY DEF flightService, ReserveCall, ReleaseCall
  <2>2. Asked(ReleaseCall(g, k)) => request'[g] = request[g]
    BY NoCallsAtFirst DEF OthersStay
  <2> QED BY <2>1, <2>2 DEF Asked, BookingOf, Inventory!Idle
<1>4. ReleasedByHandler'
  BY <1>3, ReleasedByStays DEF ReleasedByHandler, flightService
<1> QED BY <1>2, <1>4 DEF IInv

\* The moves of a creator.
LEMMA CreatorMoves ==
  ASSUME IInv, Typed', NEW h \in Creator, NEW place, NEW code, Moves(h, place, code),
         UNCHANGED flightService, BookingsStay, NoneButOf(h), CancelledIsReleased',
         pc[h] \in {"lookup", "reserve", "insert", "compensate"},
         \/ place \in {"reserve", "insert", "compensate"} /\ code = http[h]
         \/ place = "done" /\ code \in {201, 400, 404, 409, 500, 503},
         place \in {"insert", "compensate"} => reservation[h] # Inventory!NoRow,
         code = 400 => pc[h] = "lookup",
         code = 201 => booking'[h] # NoBooking,
         pc[h] = "compensate" => code = 500,
         booking'[h] # NoBooking =>
           /\ reservation[h] # Inventory!NoRow
           /\ booking'[h].flight = reservation[h].flight /\ booking'[h].seats = reservation[h].seats
  PROVE  IInv'
<1>1. /\ h \in Handler /\ h \notin Canceller
      /\ CreatorCalls(h) /\ CreatorDone(h) /\ CreatorServes(h)
  BY Disjoint DEF IInv, Typed, Serving, Handler
<1>2. /\ OthersStay(h) /\ pc'[h] = place /\ request' = request /\ http'[h] = code
      /\ UNCHANGED <<reservation, call>>
  BY DEF Moves, flightService
<1>3. http[h] = 0
  BY <1>1 DEF CreatorDone
<1>4. CreatorCalls(h)'
  <2> SUFFICES ASSUME NEW k \in 1 .. MaxAttempts
               PROVE  CreatorCalls(h)!(k)'
    BY DEF CreatorCalls
  <2>1. CreatorCalls(h)!(k)
    BY <1>1 DEF CreatorCalls
  <2>2. ReserveCall(h, k)' = ReserveCall(h, k) /\ ReleaseCall(h, k)' = ReleaseCall(h, k)
    BY <1>2 DEF ReserveCall, ReleaseCall
  <2> QED BY <1>2, <1>3, <2>1, <2>2 DEF Asked, Inventory!NoRow, Inventory!Idle
<1>5. CreatorDone(h)'
  <2>1. code = 400 => reservation[h] = Inventory!NoRow /\ booking'[h] = NoBooking
    BY <1>1, <1>3 DEF CreatorDone
  <2> QED BY <1>1, <1>2, <1>3, <2>1 DEF CreatorDone, NoBooking, Inventory!NoRow
<1> QED BY <1>1, <1>2, <1>4, <1>5, LocalInv

\* The moves of a canceller.
LEMMA CancellerMoves ==
  ASSUME IInv, Typed', NEW h \in Canceller, NEW place, NEW code, Moves(h, place, code),
         UNCHANGED flightService, BookingsStay, NoneButOf(h), CancelledIsReleased',
         pc[h] \in {"load", "release", "mark"},
         \/ place \in {"release", "mark"} /\ code = http[h]
         \/ place = "done" /\ code \in {200, 400, 404, 409, 500, 503},
         place = "mark" => reservation[request[h].booking].status = "RELEASED",
         code = 400 => pc[h] = "load",
         code = 200 => booking'[request[h].booking].status = "CANCELLED"
  PROVE  IInv'
<1>1. /\ h \in Handler /\ h \notin Creator
      /\ CancellerCalls(h) /\ CancellerDone(h) /\ CancellerServes(h)
  BY Disjoint DEF IInv, Typed, Serving, Handler
<1>2. /\ OthersStay(h) /\ pc'[h] = place /\ request' = request /\ http'[h] = code
      /\ UNCHANGED <<reservation, call>>
  BY DEF Moves, flightService
<1>3. http[h] = 0 /\ request[h].booking \in Creator
  BY <1>1 DEF CancellerDone, CancellerServes, CancelRequest
<1>4. CancellerCalls(h)'
  <2> SUFFICES ASSUME NEW k \in 1 .. MaxAttempts
               PROVE  CancellerCalls(h)!(k)'
    BY DEF CancellerCalls
  <2>1. CancellerCalls(h)!(k)
    BY <1>1 DEF CancellerCalls
  <2>2. ReserveCall(h, k)' = ReserveCall(h, k) /\ ReleaseCall(h, k)' = ReleaseCall(h, k)
    BY <1>2 DEF ReserveCall, ReleaseCall
  <2>3. booking[request[h].booking] # NoBooking => booking'[request[h].booking] # NoBooking
    BY <1>3 DEF BookingsStay
  <2> QED BY <1>2, <1>3, <2>1, <2>2, <2>3 DEF Asked, NoBooking, Inventory!Idle
<1>5. CancellerDone(h)'
  BY <1>1, <1>2, <1>3 DEF CancellerDone
<1> QED BY <1>1, <1>2, <1>4, <1>5, LocalInv

LEMMA StartInv ==
  ASSUME IInv, Typed', NEW h \in scenario.handlers, Start(h)
  PROVE  IInv'
<1>1. h \in Handler
  BY SagaAssumption DEF Handler, IInv, Typed, TypeOK
<1>2. /\ pc[h] = "none" /\ UNCHANGED <<flightService, booking, attempt, gone, http>>
  BY DEF Start, StartCreate, StartCancel
<1>3. /\ request' = [request EXCEPT ![h] = request'[h]]
      /\ pc' = [pc EXCEPT ![h] = pc'[h]]
      /\ pc'[h] \in {"lookup", "load"}
  BY <1>1, TypedIs DEF Start, StartCreate, StartCancel, HandlerTypes, IInv
<1>4. OthersStay(h)
  BY <1>1, <1>2, <1>3, TypedIs DEF OthersStay, IInv, HandlerTypes
<1>5. UNCHANGED <<reservation, call>> /\ http[h] = 0
  BY <1>1, <1>2 DEF flightService, IInv, CreatorDone, CancellerDone, Handler
<1>6. ASSUME NEW k \in 1 .. MaxAttempts
      PROVE  ~Asked(ReserveCall(h, k))' /\ ~Asked(ReleaseCall(h, k))'
  BY <1>1, <1>2, <1>5, NoCallsAtFirst DEF Asked, ReserveCall, ReleaseCall, Inventory!Idle
<1>7. ASSUME h \in Creator
      PROVE  CreatorCalls(h)' /\ CreatorDone(h)'
  <2>1. CreatorCalls(h)'
    BY <1>6 DEF CreatorCalls
  <2>2. reservation[h] = Inventory!NoRow /\ booking[h] = NoBooking
    BY <1>2, <1>7 DEF IInv, Typed, Serving, CreatorServes, CreatorDone
  <2>3. CreatorDone(h)'
    BY <1>2, <1>3, <1>5, <2>2 DEF CreatorDone, Inventory!NoRow, NoBooking
  <2> QED BY <2>1, <2>3
<1>8. ASSUME h \in Canceller
      PROVE  CancellerCalls(h)' /\ CancellerDone(h)'
  <2>1. CancellerCalls(h)'
    BY <1>6 DEF CancellerCalls
  <2>2. CancellerDone(h)'
    BY <1>2, <1>3, <1>5 DEF CancellerDone
  <2> QED BY <2>1, <2>2
<1>9. CancelledIsReleased'
  BY <1>2, <1>5 DEF IInv, CancelledIsReleased
<1>10. BookingsStay /\ NoneButOf(h)
  BY <1>2, NoBookingChange DEF IInv
<1> QED BY <1>1, <1>2, <1>4, <1>7, <1>8, <1>9, <1>10, LocalInv

\* The call an attempt becomes.
LEMMA SendEffect ==
  ASSUME Typed, NEW h \in Handler, FirstAttempt(h) \/ NextAttempt(h)
  PROVE  \E k \in 1 .. MaxAttempts :
           /\ Calling(h) /\ attempt'[h] = k
           /\ ~Asked(call[<<h, Op(h), k>>])
           /\ call' = [call EXCEPT ![<<h, Op(h), k>>] = [req |-> Message(h), answer |-> "pending"]]
           /\ call'[<<h, Op(h), k>>] = [req |-> Message(h), answer |-> "pending"]
           /\ \A a \in Attempt : a # <<h, Op(h), k>> => call'[a] = call[a]
           /\ UNCHANGED <<available, version, reservation, booking, pc, request, gone, http>>
<1>1. PICK k \in 1 .. MaxAttempts :
        /\ Calling(h) /\ Send(h, k)
        /\ <<h, Op(h), k>> \in Attempt
  BY SendIsInvoke
<1>2. call \in [Attempt -> Inventory!Calls]
  BY DEF Typed, TypeOK, Inventory!TypeOK
<1>3. attempt \in [Handler -> 0 .. MaxAttempts]
  BY DEF Typed, TypeOK
<1> QED BY <1>1, <1>2, <1>3 DEF Send, Inventory!Invoke, Asked

LEMMA SendInv ==
  ASSUME IInv, Typed', NEW h \in Handler, FirstAttempt(h) \/ NextAttempt(h)
  PROVE  IInv'
<1>1. PICK k \in 1 .. MaxAttempts :
        /\ Calling(h)
        /\ ~Asked(call[<<h, Op(h), k>>])
        /\ call'[<<h, Op(h), k>>] = [req |-> Message(h), answer |-> "pending"]
        /\ \A a \in Attempt : a # <<h, Op(h), k>> => call'[a] = call[a]
        /\ UNCHANGED <<reservation, booking, pc, request, http>>
  BY SendEffect DEF IInv
<1>2. \A g \in Handler, op \in {"reserve", "release"}, j \in 1 .. MaxAttempts :
        <<g, op, j>> \in Attempt /\ (<<g, op, j>> = <<h, Op(h), k>> => g = h /\ op = Op(h) /\ j = k)
  BY DEF Attempt
<1>3. ASSUME NEW g \in Handler, NEW j \in 1 .. MaxAttempts
      PROVE  /\ ReserveCall(g, j)' = ReserveCall(g, j) \/ (g = h /\ Op(h) = "reserve" /\ j = k)
             /\ ReleaseCall(g, j)' = ReleaseCall(g, j) \/ (g = h /\ Op(h) = "release" /\ j = k)
  BY <1>1, <1>2 DEF ReserveCall, ReleaseCall
<1>4. [req |-> Message(h), answer |-> "pending"] # Inventory!Idle
  BY DEF Inventory!Idle
<1>5. CallsStay
  BY <1>1, <1>3 DEF CallsStay, Asked, ReserveCall, ReleaseCall, BookingOf, Inventory!Idle
<1>6. ASSUME NEW g \in Creator
      PROVE  CreatorCalls(g)' /\ CreatorDone(g)'
  <2>1. CreatorCalls(g) /\ CreatorDone(g) /\ g \in Handler /\ CreatorServes(g)
    BY DEF IInv, Handler, Typed, Serving
  <2>2. CreatorDone(g)'
    BY <1>1, <2>1 DEF CreatorDone, Inventory!NoRow, NoBooking
  <2>3. CreatorCalls(g)'
    <3> SUFFICES ASSUME NEW j \in 1 .. MaxAttempts
                 PROVE  CreatorCalls(g)!(j)'
      BY DEF CreatorCalls
    <3>1. CreatorCalls(g)!(j)
      BY <2>1 DEF CreatorCalls
    <3>2. CASE ReserveCall(g, j)' = ReserveCall(g, j) /\ ReleaseCall(g, j)' = ReleaseCall(g, j)
      BY <1>1, <3>1, <3>2 DEF Asked, Inventory!NoRow, Inventory!Idle
    <3>3. CASE g = h /\ j = k /\ Op(h) = "reserve"
      <4>1. ReleaseCall(g, j)' = ReleaseCall(g, j) /\ pc[h] = "reserve"
        BY <1>1, <1>3, <3>3 DEF Op, Calling
      <4>2. ReserveCall(g, j)' = [req |-> Message(h), answer |-> "pending"]
        BY <1>1, <3>3 DEF ReserveCall
      <4>3. http[h] = 0
        BY <2>1, <3>3, <4>1 DEF CreatorDone
      <4> QED BY <1>1, <3>1, <3>3, <4>1, <4>2, <4>3 DEF Message, Asked, Inventory!NoRow, Inventory!Idle
    <3>4. CASE g = h /\ j = k /\ Op(h) = "release"
      <4>1. ReserveCall(g, j)' = ReserveCall(g, j) /\ pc[h] = "compensate"
        BY <1>1, <1>3, <2>1, <3>4 DEF Op, Calling, CreatorServes
      <4>2. ReleaseCall(g, j)' = [req |-> Message(h), answer |-> "pending"]
        BY <1>1, <3>4 DEF ReleaseCall
      <4>3. reservation[h] # Inventory!NoRow
        BY <2>1, <3>4, <4>1 DEF CreatorDone
      <4> QED BY <1>1, <3>1, <3>4, <4>1, <4>2, <4>3
              DEF Message, BookingOf, Asked, Inventory!NoRow, Inventory!Idle
    <3> QED BY <1>3, <2>1, <3>2, <3>3, <3>4
  <2> QED BY <2>2, <2>3
<1>7. ASSUME NEW g \in Canceller
      PROVE  CancellerCalls(g)' /\ CancellerDone(g)'
  <2>1. /\ CancellerCalls(g) /\ CancellerDone(g) /\ g \in Handler /\ CancellerServes(g)
        /\ g \notin Creator
    BY Disjoint DEF IInv, Handler, Typed, Serving
  <2>2. CancellerDone(g)'
    BY <1>1, <2>1 DEF CancellerDone
  <2>3. CancellerCalls(g)'
    <3> SUFFICES ASSUME NEW j \in 1 .. MaxAttempts
                 PROVE  CancellerCalls(g)!(j)'
      BY DEF CancellerCalls
    <3>1. CancellerCalls(g)!(j)
      BY <2>1 DEF CancellerCalls
    <3>2. CASE ReserveCall(g, j)' = ReserveCall(g, j) /\ ReleaseCall(g, j)' = ReleaseCall(g, j)
      BY <1>1, <3>1, <3>2 DEF Asked, NoBooking, Inventory!Idle
    <3>3. CASE g = h /\ Op(h) = "reserve"
      BY <1>1, <2>1, <3>3 DEF Op, Calling, CancellerServes
    <3>4. CASE g = h /\ j = k /\ Op(h) = "release"
      <4>1. ReserveCall(g, j)' = ReserveCall(g, j) /\ pc[h] = "release"
        BY <1>1, <1>3, <2>1, <3>4 DEF Op, Calling, CancellerServes
      <4>2. ReleaseCall(g, j)' = [req |-> Message(h), answer |-> "pending"]
        BY <1>1, <3>4 DEF ReleaseCall
      <4>3. request[h] \in CancelRequest /\ booking[request[h].booking] # NoBooking
        BY <2>1, <3>4, <4>1 DEF CancellerServes
      <4> QED BY <1>1, <2>1, <3>1, <3>4, <4>1, <4>2, <4>3
              DEF Message, BookingOf, Asked, NoBooking, Inventory!Idle
    <3> QED BY <1>3, <2>1, <3>2, <3>3, <3>4
  <2> QED BY <2>2, <2>3
<1>8. CancelledIsReleased' /\ ReleasedByHandler'
  BY <1>1, <1>5, ReleasedByStays DEF IInv, CancelledIsReleased, ReleasedByHandler
<1> QED BY <1>6, <1>7, <1>8 DEF IInv

\* What a handler is told by an answer, and not by a lost reply.
LEMMA OutcomeIsAnswer ==
  ASSUME IInv, NEW h \in Handler, Calling(h), NEW o \in Outcomes(h),
         o \notin {"unavailable", "canceled"}
  PROVE  \E k \in 1 .. MaxAttempts :
           k = attempt[h] /\ Asked(call[<<h, Op(h), k>>]) /\ call[<<h, Op(h), k>>].answer = o
<1>1. attempt[h] > 0 /\ call[Current(h)].answer = o /\ o \in Inventory!Answers
  BY DEF Outcomes
<1>2. attempt[h] \in 1 .. MaxAttempts
  BY <1>1, SagaAssumption DEF IInv, Typed, TypeOK
<1>3. Asked(call[Current(h)])
  BY <1>1 DEF Asked, Inventory!Idle, Inventory!Answers
<1> QED BY <1>1, <1>2, <1>3 DEF Current

LEMMA ReservedRow ==
  ASSUME IInv, NEW h \in Handler, pc[h] = "reserve", NEW o \in Outcomes(h),
         o \in {"ok", "already_exists"}
  PROVE  reservation[h] # Inventory!NoRow
<1>1. h \in Creator /\ CreatorCalls(h) /\ Op(h) = "reserve" /\ Calling(h)
  BY WhoIs DEF IInv, Op, Calling
<1>2. PICK k \in 1 .. MaxAttempts : Asked(ReserveCall(h, k)) /\ ReserveCall(h, k).answer = o
  BY <1>1, OutcomeIsAnswer DEF ReserveCall
<1> QED BY <1>1, <1>2 DEF CreatorCalls

LEMMA ReleasedRow ==
  ASSUME IInv, NEW h \in Handler, pc[h] = "release", NEW o \in Outcomes(h),
         o \in {"ok", "not_found"}
  PROVE  reservation[request[h].booking].status = "RELEASED"
<1>1. h \in Canceller /\ CancellerCalls(h) /\ Op(h) = "release" /\ Calling(h)
  BY WhoIs DEF IInv, Op, Calling
<1>2. PICK k \in 1 .. MaxAttempts : Asked(ReleaseCall(h, k)) /\ ReleaseCall(h, k).answer = o
  BY <1>1, OutcomeIsAnswer DEF ReleaseCall
<1> QED BY <1>1, <1>2 DEF CancellerCalls

LEMMA UnchangedCancelled ==
  ASSUME IInv, UNCHANGED <<reservation, booking>>
  PROVE  CancelledIsReleased'
  BY DEF IInv, CancelledIsReleased

LEMMA StepInv ==
  ASSUME IInv, Typed', NEW h \in Handler, Step(h)
  PROVE  IInv'
<1>1. Typed /\ HandlerTypes
  BY TypedIs DEF IInv
<1> USE WhoIs DEF flightService
<1>2. ASSUME UNCHANGED <<flightService, booking>>
      PROVE  BookingsStay /\ NoneButOf(h) /\ CancelledIsReleased'
  BY <1>1, <1>2, NoBookingChange, UnchangedCancelled
<1>3. ASSUME h \in Creator, booking[h] # NoBooking
      PROVE  /\ reservation[h] # Inventory!NoRow
             /\ booking[h].flight = reservation[h].flight /\ booking[h].seats = reservation[h].seats
  BY <1>3 DEF IInv, CreatorDone
<1>4. pc[h] # "done" => http[h] = 0
  BY DEF IInv, CreatorDone, CancellerDone, Handler
<1>5. CASE FirstAttempt(h) \/ NextAttempt(h)
  BY <1>5, SendInv
<1>6. CASE LookUpFlight(h)
  <2>1. UNCHANGED <<flightService, booking>> /\ pc[h] = "lookup" /\ h \in Creator
    BY <1>1, <1>6 DEF LookUpFlight
  <2>2. PICK place, code :
          /\ Moves(h, place, code)
          /\ \/ place = "reserve" /\ code = http[h]
             \/ place = "done" /\ code \in {400, 404, 500, 503}
    BY <1>1, <1>6, LookUpFlightMoves
  <2> QED BY <1>1, <1>4, <1>2, <1>3, <2>1, <2>2, CreatorMoves
<1>7. CASE Reserved(h)
  <2>1. UNCHANGED <<flightService, booking>> /\ pc[h] = "reserve" /\ h \in Creator
    BY <1>1, <1>7 DEF Reserved
  <2>2. PICK place, code :
          /\ Moves(h, place, code)
          /\ \/ place = "insert" /\ code = http[h] /\ reservation[h] # Inventory!NoRow
             \/ place = "done" /\ code \in {404, 409, 500, 503}
    BY <1>1, <1>7, <2>1, ReservedMoves, ReservedRow
  <2> QED BY <1>1, <1>4, <1>2, <1>3, <2>1, <2>2, CreatorMoves
<1>8. CASE InsertBooking(h)
  <2>1. UNCHANGED flightService /\ pc[h] = "insert" /\ h \in Creator
    BY <1>1, <1>8 DEF InsertBooking
  <2>2. reservation[h] # Inventory!NoRow
        /\ reservation[h].flight = request[h].flight /\ reservation[h].seats = request[h].seats
    BY <2>1 DEF IInv, CreatorDone
  <2>3. CASE Insert(h)
    <3>1. /\ booking'[h] # NoBooking /\ booking'[h].status = "CONFIRMED"
          /\ booking'[h].flight = reservation[h].flight /\ booking'[h].seats = reservation[h].seats
          /\ \A b \in Creator \ {h} : booking'[b] = booking[b]
      BY <1>1, <2>1, <2>2, <2>3, InsertEffect DEF NoBooking
    <3>2. CancelledIsReleased'
      BY <2>1, <3>1 DEF IInv, CancelledIsReleased
    <3>3. BookingsStay /\ NoneButOf(h)
      BY <1>1, <2>1, <2>3, InsertKeeps
    <3>4. PICK place \in {"done", "compensate"}, code \in {201, http[h]} :
            /\ Moves(h, place, code)
            /\ \/ place = "compensate" /\ code = http[h]
               \/ place = "done" /\ code = 201
      BY <1>1, <1>8, <2>3, InsertBookingMoves
    <3> QED BY <1>4, <2>1, <2>2, <3>1, <3>2, <3>3, <3>4, CreatorMoves
  <2>4. CASE UNCHANGED booking
    <3>1. booking'[h] = NoBooking /\ booking[h] = NoBooking
      BY <1>1, <2>1, <2>4 DEF CreatorServes
    <3>2. ~Insert(h)
      BY <1>1, <2>1, <3>1, InsertEffect DEF NoBooking
    <3>3. Moves(h, "compensate", http[h])
      BY <1>1, <1>8, <3>2, InsertBookingMoves
    <3>4. BookingsStay /\ NoneButOf(h) /\ CancelledIsReleased'
      BY <1>2, <2>1, <2>4
    <3> QED BY <1>4, <2>1, <2>2, <3>1, <3>3, <3>4, CreatorMoves
  <2> QED BY <1>8, <2>3, <2>4 DEF InsertBooking
<1>9. CASE Compensated(h)
  <2>1. UNCHANGED <<flightService, booking>> /\ pc[h] = "compensate" /\ h \in Creator
    BY <1>1, <1>9 DEF Compensated
  <2> QED BY <1>1, <1>2, <1>3, <1>9, <2>1, CompensatedMoves, CreatorMoves
<1>10. CASE LoadBooking(h)
  <2>1. UNCHANGED <<flightService, booking>> /\ pc[h] = "load" /\ h \in Canceller
    BY <1>1, <1>10 DEF LoadBooking
  <2>2. PICK place, code :
          /\ Moves(h, place, code)
          /\ \/ place = "release" /\ code = http[h]
             \/ place = "done" /\ code \in {400, 404, 500}
    BY <1>1, <1>10, LoadBookingMoves
  <2> QED BY <1>1, <1>4, <1>2, <2>1, <2>2, CancellerMoves
<1>11. CASE Released(h)
  <2>1. UNCHANGED <<flightService, booking>> /\ pc[h] = "release" /\ h \in Canceller
    BY <1>1, <1>11 DEF Released
  <2>2. PICK place, code :
          /\ Moves(h, place, code)
          /\ \/ /\ place = "mark" /\ code = http[h]
                /\ reservation[request[h].booking].status = "RELEASED"
             \/ place = "done" /\ code \in {404, 409, 500, 503}
    BY <1>1, <1>11, <2>1, ReleasedMoves, ReleasedRow
  <2> QED BY <1>1, <1>4, <1>2, <2>1, <2>2, CancellerMoves
<1>12. CASE MarkCancelled(h)
  <2>1. UNCHANGED flightService /\ pc[h] = "mark" /\ h \in Canceller
    BY <1>1, <1>12 DEF MarkCancelled
  <2>2. CASE UNCHANGED booking /\ Moves(h, "done", 500)
    BY <1>4, <1>2, <2>1, <2>2, CancellerMoves
  <2>3. CASE MarksCancelled(request[h].booking)
    <3>1. reservation[request[h].booking].status = "RELEASED"
      BY <2>1 DEF IInv, CancellerDone
    <3>2. BookingsStay /\ NoneButOf(h)
      BY <1>1, <2>1, <2>3, MarkKeeps
    <3>3. booking'[request[h].booking].status = "CANCELLED"
          /\ \A b \in Creator \ {request[h].booking} : booking'[b] = booking[b]
      BY <1>1, <2>1, <2>3, MarkEffect
    <3>4. CancelledIsReleased'
      BY <2>1, <3>1, <3>3 DEF IInv, CancelledIsReleased
    <3>5. PICK code \in {200, 500} : Moves(h, "done", code)
      BY <1>1, <1>12, MarkCancelledMoves
    <3> QED BY <2>1, <3>2, <3>3, <3>4, <3>5, CancellerMoves
  <2> QED BY <1>1, <1>12, <2>2, <2>3, MarkCancelledMoves
<1> QED BY <1>5, <1>6, <1>7, <1>8, <1>9, <1>10, <1>11, <1>12 DEF Step

LEMMA CrashInv ==
  ASSUME IInv, Typed', Crash
  PROVE  IInv'
<1>1. UNCHANGED <<flightService, booking, request, attempt, gone, http>>
  BY DEF Crash
<1>2. ASSUME NEW h \in Handler
      PROVE  \/ pc'[h] = pc[h]
             \/ pc[h] \notin {"none", "done", "dead"} /\ pc'[h] = "dead"
  <2>1. pc'[h] = IF Active(h) THEN "dead" ELSE pc[h]
    BY DEF Crash
  <2> QED BY <2>1 DEF Active
<1>3. ASSUME NEW h \in Creator
      PROVE  CreatorCalls(h)' /\ CreatorDone(h)'
  <2>1. CreatorCalls(h) /\ CreatorDone(h) /\ h \in Handler
    BY DEF IInv, Handler
  <2>2. CreatorDone(h)'
    BY <1>1, <1>2, <2>1 DEF CreatorDone, flightService, NoBooking, Inventory!NoRow
  <2>3. CreatorCalls(h)'
    BY <1>1, <1>2, <2>1 DEF CreatorCalls, flightService, ReserveCall, ReleaseCall, Asked,
                            Inventory!NoRow, Inventory!Idle
  <2> QED BY <2>2, <2>3
<1>4. ASSUME NEW h \in Canceller
      PROVE  CancellerCalls(h)' /\ CancellerDone(h)'
  <2>1. CancellerCalls(h) /\ CancellerDone(h) /\ h \in Handler
    BY DEF IInv, Handler
  <2>2. CancellerDone(h)'
    BY <1>1, <1>2, <2>1 DEF CancellerDone, flightService
  <2>3. CancellerCalls(h)'
    BY <1>1, <1>2, <2>1 DEF CancellerCalls, flightService, ReserveCall, ReleaseCall, Asked,
                            NoBooking, Inventory!Idle
  <2> QED BY <2>2, <2>3
<1>5. CancelledIsReleased' /\ ReleasedByHandler'
  BY <1>1 DEF IInv, CancelledIsReleased, ReleasedByHandler, flightService, ReleaseCall, Asked,
              BookingOf, Inventory!Idle
<1> QED BY <1>3, <1>4, <1>5 DEF IInv

\* The invariant does not look at attempt or gone.
LEMMA UnseenInv ==
  ASSUME IInv, Typed', UNCHANGED <<flightService, booking, pc, request, http>>
  PROVE  IInv'
  BY DEF IInv, CreatorCalls, CreatorDone, CancellerCalls, CancellerDone, CancelledIsReleased,
         ReleasedByHandler, flightService, ReserveCall, ReleaseCall, Asked, BookingOf,
         NoBooking, Inventory!NoRow, Inventory!Idle

\* What flight_service does for an attempt, in the terms of the handler that made it.
LEMMA DecideEffect ==
  ASSUME IInv, NEW h \in Handler, NEW op \in {"reserve", "release"}, NEW k \in 1 .. MaxAttempts,
         Inventory!Decide(<<h, op, k>>)
  PROVE  LET c == call[<<h, op, k>>]
             d == call'[<<h, op, k>>]
             b == BookingOf(h)
         IN /\ c.answer = "pending" /\ Asked(c) /\ Asked(d)
            /\ d.req = c.req /\ d.answer \in Inventory!Answers
            /\ \A a \in Attempt : a # <<h, op, k>> => call'[a] = call[a]
            /\ b \in Creator /\ (op = "reserve" => h \in Creator)
            /\ \A e \in Creator \ {b} : reservation'[e] = reservation[e]
            /\ \/ /\ op = "reserve" /\ h \in Creator /\ d.answer \in {"ok", "error"}
                  /\ reservation[h] = Inventory!NoRow
                  /\ reservation'[h] = Inventory!Row(request[h].flight, request[h].seats, "ACTIVE")
               \/ /\ op = "release" /\ d.answer \in {"ok", "error"}
                  /\ reservation[b].status = "ACTIVE"
                  /\ reservation'[b] = [reservation[b] EXCEPT !.status = "RELEASED"]
               \/ /\ UNCHANGED reservation
                  /\ op = "reserve" /\ d.answer \in {"not_found", "no_seats", "already_exists", "error"}
                  /\ d.answer = "already_exists" => reservation[h] # Inventory!NoRow
               \/ /\ UNCHANGED reservation
                  /\ op = "release" /\ d.answer \in {"not_found", "error"}
                  /\ d.answer = "not_found" => reservation[b].status # "ACTIVE"
<1> DEFINE a == <<h, op, k>>
           c == call[a]
<1>1. /\ call \in [Attempt -> Inventory!Calls] /\ a \in Attempt
      /\ reservation \in [Creator -> Inventory!Rows \union {Inventory!NoRow}]
  BY DEF IInv, Typed, TypeOK, Inventory!TypeOK, Attempt
<1>2. c.answer = "pending"
  BY DEF Inventory!Decide, Inventory!Reserve, Inventory!RefuseReserve, Inventory!Release,
         Inventory!RefuseRelease, Inventory!Fail, Inventory!Pending
<1>3. Asked(c)
  BY <1>2 DEF Asked, Inventory!Idle
<1>4. /\ op = "reserve" => /\ h \in Creator /\ c.req.op = "reserve" /\ c.req.booking = h
                           /\ c.req.flight = request[h].flight /\ c.req.seats = request[h].seats
      /\ op = "release" => c.req.op = "release" /\ c.req.booking = BookingOf(h)
      /\ BookingOf(h) \in Creator
  <2>1. CASE h \in Creator
    <3>1. CreatorCalls(h)!(k)
      BY <2>1 DEF IInv, CreatorCalls
    <3>2. BookingOf(h) = h
      BY <2>1 DEF BookingOf
    <3>3. op = "reserve" => c = ReserveCall(h, k)
      BY DEF ReserveCall
    <3>4. op = "release" => c = ReleaseCall(h, k)
      BY DEF ReleaseCall
    <3> HIDE DEF c
    <3> QED BY <1>3, <2>1, <3>1, <3>2, <3>3, <3>4
  <2>2. CASE h \in Canceller
    <3>1. h \notin Creator /\ CancellerCalls(h)
      BY <2>2, Disjoint DEF IInv, Handler
    <3>2. CancellerCalls(h)!(k)
      BY <3>1 DEF CancellerCalls
    <3>3. op = "reserve" => c = ReserveCall(h, k)
      BY DEF ReserveCall
    <3>4. op = "release" => c = ReleaseCall(h, k)
      BY DEF ReleaseCall
    <3>5. BookingOf(h) = request[h].booking
      BY <3>1 DEF BookingOf
    <3>6. request[h] \in CancelRequest => request[h].booking \in Creator
      BY DEF CancelRequest
    <3> HIDE DEF c
    <3> QED BY <1>3, <3>2, <3>3, <3>4, <3>5, <3>6
  <2> QED BY <2>1, <2>2 DEF Handler
<1>5. PICK r \in Inventory!Request : c = [req |-> r, answer |-> "pending"]
  BY <1>1, <1>2, <1>3 DEF Inventory!Calls, Asked
<1>6. ASSUME NEW x \in Inventory!Answers, Inventory!Answer(a, x)
      PROVE  /\ Asked(call'[a]) /\ call'[a].req = c.req /\ call'[a].answer = x
             /\ \A e \in Attempt : e # a => call'[e] = call[e]
  <2>1. call'[a] = [c EXCEPT !.answer = x]
    BY <1>1, <1>6 DEF Inventory!Answer
  <2>2. call'[a] = [req |-> r, answer |-> x]
    BY <1>5, <2>1
  <2>3. \A e \in Attempt : e # a => call'[e] = call[e]
    BY <1>1, <1>6 DEF Inventory!Answer
  <2> QED BY <1>5, <2>2, <2>3 DEF Asked, Inventory!Idle
<1> DEFINE b == BookingOf(h)
<1> USE DEF Inventory!Answers
<1>7. CASE Inventory!Reserve(a)
  <2>1. op = "reserve" /\ reservation[h] = Inventory!NoRow
    BY <1>4, <1>7 DEF Inventory!Reserve
  <2>2. PICK x \in {"ok", "error"} : Inventory!Answer(a, x)
    BY <1>7 DEF Inventory!Reserve, Inventory!Take
  <2>3. reservation' = [reservation EXCEPT ![h] =
                          Inventory!Row(request[h].flight, request[h].seats, "ACTIVE")]
    BY <1>4, <1>7, <2>1 DEF Inventory!Reserve, Inventory!Take
  <2>4. h \in Creator /\ b = h
    BY <1>4, <2>1 DEF BookingOf
  <2>5. /\ reservation'[h] = Inventory!Row(request[h].flight, request[h].seats, "ACTIVE")
        /\ \A e \in Creator \ {h} : reservation'[e] = reservation[e]
    BY <1>1, <2>3, <2>4
  <2> QED BY <1>2, <1>3, <1>6, <2>1, <2>2, <2>4, <2>5
<1>8. CASE Inventory!Release(a)
  <2>1. op = "release" /\ c.req.booking = b /\ reservation[b].status = "ACTIVE"
    BY <1>4, <1>8 DEF Inventory!Release
  <2>2. PICK x \in {"ok", "error"} : Inventory!Answer(a, x)
    BY <1>8 DEF Inventory!Release, Inventory!GiveBack
  <2>3. reservation' = [reservation EXCEPT ![b].status = "RELEASED"]
    BY <1>8, <2>1 DEF Inventory!Release, Inventory!GiveBack
  <2>4. /\ reservation'[b] = [reservation[b] EXCEPT !.status = "RELEASED"]
        /\ \A e \in Creator \ {b} : reservation'[e] = reservation[e]
    BY <1>1, <1>4, <2>3
  <2> QED BY <1>2, <1>3, <1>4, <1>6, <2>1, <2>2, <2>4
<1>9. CASE Inventory!RefuseReserve(a)
  <2>1. op = "reserve" /\ UNCHANGED reservation
    BY <1>4, <1>9 DEF Inventory!RefuseReserve
  <2>2. PICK x \in {"not_found", "no_seats", "already_exists"} :
          Inventory!Answer(a, x) /\ (x = "already_exists" => reservation[h] # Inventory!NoRow)
    BY <1>4, <1>9, <2>1 DEF Inventory!RefuseReserve
  <2> QED BY <1>2, <1>3, <1>4, <1>6, <2>1, <2>2
<1>10. CASE Inventory!RefuseRelease(a)
  <2>1. op = "release" /\ UNCHANGED reservation
    BY <1>4, <1>10 DEF Inventory!RefuseRelease
  <2>2. Inventory!Answer(a, "not_found") /\ reservation[b].status # "ACTIVE"
    BY <1>4, <1>10, <2>1 DEF Inventory!RefuseRelease
  <2> QED BY <1>2, <1>3, <1>4, <1>6, <2>1, <2>2
<1>11. CASE Inventory!Fail(a)
  <2>1. Inventory!Answer(a, "error") /\ UNCHANGED reservation
    BY <1>11 DEF Inventory!Fail
  <2> QED BY <1>2, <1>3, <1>4, <1>6, <2>1
<1> QED BY <1>7, <1>8, <1>9, <1>10, <1>11 DEF Inventory!Decide

\* The changes of flight_db, and who is told of them.
LEMMA DecideAnswer ==
  ASSUME IInv, NEW h \in Handler, NEW op \in {"reserve", "release"}, NEW k \in 1 .. MaxAttempts,
         Inventory!Decide(<<h, op, k>>), ~UNCHANGED reservation
  PROVE  /\ call'[<<h, op, k>>].answer \in {"ok", "error"}
         /\ op = "reserve" =>
              /\ reservation[h] = Inventory!NoRow
              /\ reservation'[h] = Inventory!Row(request[h].flight, request[h].seats, "ACTIVE")
  BY DecideEffect

\* The rows that a decision may change, and how.
LEMMA DecideKeepsRows ==
  ASSUME IInv, NEW h \in Handler, NEW op \in {"reserve", "release"}, NEW k \in 1 .. MaxAttempts,
         Inventory!Decide(<<h, op, k>>)
  PROVE  ReservationsStay /\ NoRowButOf(h)
<1> DEFINE b == BookingOf(h)
<1>1. b \in Creator /\ \A e \in Creator \ {b} : reservation'[e] = reservation[e]
  BY DecideEffect
<1>2. reservation \in [Creator -> Inventory!Rows \union {Inventory!NoRow}]
  BY DEF IInv, Typed, TypeOK, Inventory!TypeOK
<1>3. CASE UNCHANGED reservation
  BY <1>3 DEF ReservationsStay, NoRowButOf, Inventory!NoRow
<1>4. CASE /\ h \in Creator /\ reservation[h] = Inventory!NoRow
           /\ reservation'[h] = Inventory!Row(request[h].flight, request[h].seats, "ACTIVE")
  <2>1. b = h
    BY <1>4 DEF BookingOf
  <2>2. ReservationsStay
    BY <1>1, <1>4, <2>1 DEF ReservationsStay, Inventory!NoRow
  <2> QED BY <1>1, <2>1, <2>2 DEF NoRowButOf, Inventory!NoRow
<1>5. CASE /\ reservation[b].status = "ACTIVE"
           /\ reservation'[b] = [reservation[b] EXCEPT !.status = "RELEASED"]
  <2>1. reservation[b] \in Inventory!Rows
    BY <1>1, <1>2, <1>5 DEF Inventory!NoRow
  <2>2. PICK f \in Flight, n \in PartySize, s \in {"ACTIVE", "RELEASED"} :
          reservation[b] = [flight |-> f, seats |-> n, status |-> s]
    BY <2>1 DEF Inventory!Rows
  <2>3. reservation'[b] = [flight |-> f, seats |-> n, status |-> "RELEASED"]
    BY <1>5, <2>2
  <2>4. reservation[b] # Inventory!NoRow /\ reservation'[b] # Inventory!NoRow
    BY <2>2, <2>3 DEF Inventory!NoRow
  <2>5. reservation'[b].flight = reservation[b].flight /\ reservation'[b].seats = reservation[b].seats
    BY <2>2, <2>3
  <2> QED BY <1>1, <2>3, <2>4, <2>5 DEF ReservationsStay, NoRowButOf
<1> QED BY <1>3, <1>4, <1>5, DecideEffect

LEMMA ExecuteInv ==
  ASSUME IInv, Typed', NEW a \in Attempt, Execute(a)
  PROVE  IInv'
<1>1. PICK h \in Handler, op \in {"reserve", "release"}, k \in 1 .. MaxAttempts : a = <<h, op, k>>
  BY DEF Attempt
<1>2. Inventory!Decide(<<h, op, k>>) /\ UNCHANGED <<booking, pc, request, attempt, gone, http>>
  BY <1>1 DEF Execute, handlers
<1>3. ReservationsStay /\ NoRowButOf(h)
  BY <1>2, DecideKeepsRows
<1>4. /\ \A e \in Attempt : e # <<h, op, k>> => call'[e] = call[e]
      /\ \A e \in Creator \ {BookingOf(h)} : reservation'[e] = reservation[e]
  BY <1>2, DecideEffect
<1>5. \/ /\ op = "reserve" /\ h \in Creator /\ reservation[h] = Inventory!NoRow
         /\ reservation'[h] = Inventory!Row(request[h].flight, request[h].seats, "ACTIVE")
      \/ op = "release" /\ \A e \in Creator \ {BookingOf(h)} : reservation'[e] = reservation[e]
      \/ UNCHANGED reservation
  BY <1>2, DecideEffect
<1>6. \A g \in Handler, o \in {"reserve", "release"}, j \in 1 .. MaxAttempts :
        <<g, o, j>> \in Attempt /\ (<<g, o, j>> = <<h, op, k>> => g = h /\ o = op /\ j = k)
  BY DEF Attempt
<1>7. ASSUME NEW g \in Handler, NEW j \in 1 .. MaxAttempts
      PROVE  /\ ReserveCall(g, j)' = ReserveCall(g, j) \/ (g = h /\ op = "reserve" /\ j = k)
             /\ ReleaseCall(g, j)' = ReleaseCall(g, j) \/ (g = h /\ op = "release" /\ j = k)
  BY <1>4, <1>6 DEF ReserveCall, ReleaseCall
<1>8. BookingsStay /\ NoneButOf(h) /\ OthersStay(h) /\ OthersWait(h)
  BY <1>2, <1>7 DEF BookingsStay, NoneButOf, OthersStay, OthersWait
<1>9. /\ \A g \in Creator \ {h} : CreatorCalls(g)' /\ CreatorDone(g)'
      /\ \A g \in Canceller \ {h} : CancellerCalls(g)' /\ CancellerDone(g)'
  BY <1>3, <1>8, OthersKeepInv
<1> DEFINE b == BookingOf(h)
           c == call[<<h, op, k>>]
           d == call'[<<h, op, k>>]
<1>10. /\ Asked(c) /\ Asked(d) /\ d.req = c.req /\ c.answer = "pending" /\ d.answer \in Inventory!Answers
       /\ b \in Creator
       /\ op = "release" => /\ d.answer \in {"ok", "not_found", "error"}
                            /\ d.answer = "ok" => reservation'[b].status = "RELEASED"
                            /\ d.answer = "not_found" =>
                                 UNCHANGED reservation /\ reservation[b].status # "ACTIVE"
  <2>1. op = "release" /\ reservation'[b] = [reservation[b] EXCEPT !.status = "RELEASED"]
        /\ reservation[b].status = "ACTIVE" => reservation'[b].status = "RELEASED"
    <3> SUFFICES ASSUME op = "release", reservation[b].status = "ACTIVE",
                        reservation'[b] = [reservation[b] EXCEPT !.status = "RELEASED"]
                 PROVE  reservation'[b].status = "RELEASED"
      OBVIOUS
    <3>1. b \in Creator /\ reservation \in [Creator -> Inventory!Rows \union {Inventory!NoRow}]
      BY <1>2, DecideEffect DEF IInv, Typed, TypeOK, Inventory!TypeOK
    <3>2. reservation[b] \in Inventory!Rows
      BY <3>1 DEF Inventory!NoRow
    <3> QED BY <3>2 DEF Inventory!Rows
  <2> QED BY <1>2, <2>1, DecideEffect
<1>11. op = "reserve" =>
         /\ h \in Creator
         /\ d.answer \in {"ok", "already_exists"} => reservation'[h] # Inventory!NoRow
         /\ reservation'[h] = reservation[h] \/
              (reservation'[h].flight = request[h].flight /\ reservation'[h].seats = request[h].seats)
  <2> SUFFICES ASSUME op = "reserve"
               PROVE  /\ h \in Creator
                      /\ d.answer \in {"ok", "already_exists"} => reservation'[h] # Inventory!NoRow
                      /\ reservation'[h] = reservation[h] \/
                           (/\ reservation'[h].flight = request[h].flight
                            /\ reservation'[h].seats = request[h].seats)
    OBVIOUS
  <2>1. h \in Creator
    BY <1>2, DecideEffect
  <2>2. CASE reservation'[h] = Inventory!Row(request[h].flight, request[h].seats, "ACTIVE")
    BY <2>1, <2>2 DEF Inventory!Row, Inventory!NoRow
  <2>3. CASE UNCHANGED reservation
    <3>1. d.answer = "ok" => reservation[h] # Inventory!NoRow
      <4>1. d.answer = "ok" => reservation[h] = Inventory!NoRow /\
              reservation'[h] = Inventory!Row(request[h].flight, request[h].seats, "ACTIVE")
        BY <1>2, DecideEffect
      <4> QED BY <2>3, <4>1 DEF Inventory!Row, Inventory!NoRow
    <3>2. d.answer = "already_exists" => reservation[h] # Inventory!NoRow
      BY <1>2, DecideEffect
    <3> QED BY <2>1, <2>3, <3>1, <3>2 DEF Inventory!NoRow
  <2> QED BY <1>5, <2>2, <2>3
<1>12. op = "reserve" => c = ReserveCall(h, k) /\ d = ReserveCall(h, k)'
  BY DEF ReserveCall
<1>13. op = "release" => c = ReleaseCall(h, k) /\ d = ReleaseCall(h, k)'
  BY DEF ReleaseCall
<1> HIDE DEF c, d
<1>14. CallsStay
  <2> SUFFICES ASSUME NEW g \in Handler, NEW j \in 1 .. MaxAttempts
               PROVE  CallsStay!(g, j)
    BY DEF CallsStay
  <2>1. BookingOf(g)' = BookingOf(g)
    BY <1>2 DEF BookingOf
  <2>2. Asked(ReserveCall(g, j)) => Asked(ReserveCall(g, j))'
    <3>1. CASE ReserveCall(g, j)' = ReserveCall(g, j)
      BY <3>1 DEF Asked, Inventory!Idle
    <3>2. CASE g = h /\ op = "reserve" /\ j = k
      BY <1>10, <1>12, <3>2 DEF Asked, Inventory!Idle
    <3> QED BY <1>7, <3>1, <3>2
  <2>3. Asked(ReleaseCall(g, j)) => Asked(ReleaseCall(g, j))'
    <3>1. CASE ReleaseCall(g, j)' = ReleaseCall(g, j)
      BY <3>1 DEF Asked, Inventory!Idle
    <3>2. CASE g = h /\ op = "release" /\ j = k
      BY <1>10, <1>13, <3>2 DEF Asked, Inventory!Idle
    <3> QED BY <1>7, <3>1, <3>2
  <2> QED BY <2>1, <2>2, <2>3
<1>15. ASSUME NEW g \in Creator, g = h
       PROVE  CreatorCalls(h)' /\ CreatorDone(h)'
  <2>1. CreatorCalls(h) /\ CreatorDone(h) /\ b = h
    BY <1>15 DEF IInv, BookingOf
  <2>2. /\ reservation[h] # Inventory!NoRow => reservation'[h] # Inventory!NoRow
        /\ reservation[h].status = "RELEASED" => reservation'[h].status = "RELEASED"
    BY <1>3, <1>15 DEF ReservationsStay
  <2>3. CreatorCalls(h)'
    <3> SUFFICES ASSUME NEW j \in 1 .. MaxAttempts
                 PROVE  CreatorCalls(h)!(j)'
      BY DEF CreatorCalls
    <3>1. CreatorCalls(h)!(j)
      BY <2>1 DEF CreatorCalls
    <3>2. CASE ReserveCall(h, j)' = ReserveCall(h, j) /\ ReleaseCall(h, j)' = ReleaseCall(h, j)
      BY <1>2, <2>2, <3>1, <3>2 DEF Asked, Inventory!NoRow, Inventory!Idle
    <3>3. CASE op = "reserve" /\ j = k
      <4>1. ReleaseCall(h, j)' = ReleaseCall(h, j)
        BY <1>7, <3>3
      <4> QED BY <1>2, <1>10, <1>11, <1>12, <2>2, <3>1, <3>3, <4>1
              DEF Asked, Inventory!NoRow, Inventory!Idle
    <3>4. CASE op = "release" /\ j = k
      <4>1. ReserveCall(h, j)' = ReserveCall(h, j) /\ reservation[h] # Inventory!NoRow
        BY <1>7, <1>10, <1>13, <3>1, <3>4
      <4>2. d.answer = "not_found" => reservation'[h].status = "RELEASED"
        <5>1. reservation[h] \in Inventory!Rows
          BY <4>1, <1>15 DEF IInv, Typed, TypeOK, Inventory!TypeOK
        <5> QED BY <1>10, <2>1, <3>4, <5>1 DEF Inventory!Rows
      <4> QED BY <1>2, <1>10, <1>13, <2>1, <2>2, <3>1, <3>4, <4>1, <4>2
              DEF Asked, Inventory!NoRow, Inventory!Idle
    <3> QED BY <1>7, <3>2, <3>3, <3>4
  <2>4. CreatorDone(h)'
    <3>1. CASE reservation'[h] = reservation[h]
      BY <1>2, <2>1, <3>1 DEF CreatorDone, Inventory!NoRow, NoBooking
    <3>2. CASE op = "reserve" /\ reservation[h] = Inventory!NoRow /\ ~UNCHANGED reservation
      <4>1. pc[h] \notin {"none", "lookup"} /\ http[h] # 400
        BY <1>10, <1>12, <2>1, <3>2 DEF CreatorCalls
      <4>2. /\ reservation'[h].flight = request[h].flight
            /\ reservation'[h].seats = request[h].seats
        BY <1>5, <3>2 DEF Inventory!Row
      <4> QED BY <1>2, <2>1, <3>2, <4>1, <4>2 DEF CreatorDone, Inventory!NoRow, NoBooking
    <3>3. CASE reservation[h] # Inventory!NoRow
      <4>1. /\ reservation'[h].flight = reservation[h].flight
            /\ reservation'[h].seats = reservation[h].seats
        BY <1>3, <1>15, <3>3 DEF ReservationsStay
      <4> QED BY <1>2, <2>1, <2>2, <3>3, <4>1 DEF CreatorDone, Inventory!NoRow, NoBooking
    <3>4. CASE op = "release"
      BY <1>10, <1>13, <2>1, <3>3, <3>4 DEF CreatorCalls
    <3> QED BY <1>5, <3>1, <3>2, <3>3, <3>4
  <2> QED BY <2>3, <2>4
<1>16. ASSUME NEW g \in Canceller, g = h
       PROVE  CancellerCalls(h)' /\ CancellerDone(h)'
  <2>1. /\ CancellerCalls(h) /\ CancellerDone(h) /\ CancellerServes(h)
        /\ h \notin Creator /\ b = request[h].booking /\ op = "release"
    BY <1>11, <1>16, Disjoint DEF IInv, Typed, Serving, BookingOf
  <2>2. reservation[b].status = "RELEASED" => reservation'[b].status = "RELEASED"
    BY <1>3, <1>10 DEF ReservationsStay
  <2>3. CancellerDone(h)'
    BY <1>2, <2>1, <2>2 DEF CancellerDone
  <2>4. CancellerCalls(h)'
    <3> SUFFICES ASSUME NEW j \in 1 .. MaxAttempts
                 PROVE  CancellerCalls(h)!(j)'
      BY DEF CancellerCalls
    <3>1. CancellerCalls(h)!(j) /\ ReserveCall(h, j)' = ReserveCall(h, j)
      BY <1>7, <2>1 DEF CancellerCalls
    <3>2. CASE ReleaseCall(h, j)' = ReleaseCall(h, j)
      BY <1>2, <2>1, <2>2, <3>1, <3>2 DEF Asked, NoBooking, Inventory!Idle
    <3>3. CASE j = k
      <4>1. booking[b] # NoBooking
        BY <1>10, <1>13, <2>1, <3>1, <3>3
      <4>2. reservation[b] \in Inventory!Rows
        BY <1>10, <4>1 DEF IInv, CreatorDone, Typed, TypeOK, Inventory!TypeOK
      <4>3. d.answer = "not_found" => reservation'[b].status = "RELEASED"
        BY <1>10, <2>1, <4>2 DEF Inventory!Rows
      <4> QED BY <1>2, <1>10, <1>13, <2>1, <3>1, <3>3, <4>3 DEF Asked, NoBooking, Inventory!Idle
    <3> QED BY <1>7, <3>2, <3>3
  <2> QED BY <2>3, <2>4
<1>17. CancelledIsReleased'
  BY <1>2, <1>3 DEF IInv, CancelledIsReleased, ReservationsStay
<1>18. ReleasedByHandler'
  <2> SUFFICES ASSUME NEW e \in Creator, reservation'[e].status = "RELEASED"
               PROVE  (\E g \in Handler, j \in 1 .. MaxAttempts :
                         Asked(ReleaseCall(g, j)) /\ BookingOf(g) = e)'
    BY DEF ReleasedByHandler
  <2>1. CASE reservation[e].status = "RELEASED"
    BY <1>14, <2>1, ReleasedByStays
  <2>2. CASE reservation[e].status # "RELEASED"
    <3>1. op = "release" /\ e = b
      <4>1. CASE UNCHANGED reservation
        BY <2>2, <4>1
      <4>2. CASE op = "reserve" /\ h \in Creator /\ ~UNCHANGED reservation
        <5>1. b = h
          BY <4>2 DEF BookingOf
        <5>2. e # h
          BY <1>5, <4>2 DEF Inventory!Row
        <5> QED BY <1>4, <2>2, <5>1, <5>2
      <4>3. CASE op = "release"
        BY <1>5, <2>2, <4>3
      <4> QED BY <1>5, <4>1, <4>2, <4>3
    <3>2. Asked(ReleaseCall(h, k))' /\ BookingOf(h)' = e
      BY <1>2, <1>10, <1>13, <3>1 DEF Asked, BookingOf, Inventory!Idle
    <3> QED BY <3>2
  <2> QED BY <2>1, <2>2
<1> QED BY <1>9, <1>15, <1>16, <1>17, <1>18 DEF IInv, Handler

LEMMA InitInv ==
  ASSUME Init
  PROVE  IInv
<1>1. Typed
  BY InitTyped
<1>2. /\ \A h \in Handler : pc[h] = "none" /\ http[h] = 0
      /\ \A b \in Creator : booking[b] = NoBooking /\ reservation[b] = Inventory!NoRow
      /\ \A a \in Attempt : call[a] = Inventory!Idle
  BY DEF Init, Inventory!Init, Handler
<1>3. \A h \in Handler, k \in 1 .. MaxAttempts : ~Asked(ReserveCall(h, k)) /\ ~Asked(ReleaseCall(h, k))
  BY <1>2 DEF Asked, ReserveCall, ReleaseCall, Attempt
<1>4. ASSUME NEW h \in Creator
      PROVE  CreatorCalls(h) /\ CreatorDone(h)
  BY <1>2, <1>3 DEF CreatorCalls, CreatorDone, Handler
<1>5. ASSUME NEW h \in Canceller
      PROVE  CancellerCalls(h) /\ CancellerDone(h)
  BY <1>2, <1>3 DEF CancellerCalls, CancellerDone, Handler
<1>6. CancelledIsReleased /\ ReleasedByHandler
  BY <1>2 DEF CancelledIsReleased, ReleasedByHandler, NoBooking, Inventory!NoRow
<1> QED BY <1>1, <1>4, <1>5, <1>6 DEF IInv

LEMMA InvPreserved ==
  ASSUME IInv, [Next]_vars
  PROVE  IInv'
<1>1. Typed'
  BY TypedPreserved DEF IInv
<1>2. scenario.handlers \subseteq Handler
  BY SagaAssumption DEF IInv, Typed, TypeOK, Handler
<1>3. ASSUME NEW h \in Handler, Disconnect(h)
      PROVE  IInv'
  BY <1>1, <1>3, UnseenInv DEF Disconnect
<1>4. CASE UNCHANGED vars
  BY <1>1, <1>4, UnseenInv DEF vars, handlers
<1>5. CASE Next
  BY <1>1, <1>2, <1>3, <1>5, StartInv, StepInv, CrashInv, ExecuteInv DEF Next
<1> QED BY <1>4, <1>5

\* The invariant of the two databases and the handlers between them, whatever
\* fails: answers tell the truth about the reservation they are about, a booking
\* has its row, a cancelled one has given its seats back, and a release is the
\* doing of a handler that knows of it.
THEOREM Inductive == Spec => []IInv
  BY InitInv, InvPreserved, PTL DEF Spec

\* Every booking in booking_db has a reservation row in flight_db for the same
\* flight and seats, and a CANCELLED one has given them back: CreateBooking
\* inserts last, CancelBooking releases first.
THEOREM BookingsHaveRows == Spec => []BookingIsReserved
<1>1. IInv => BookingIsReserved
  BY DEF IInv, Typed, CreatorDone, CancelledIsReleased, BookingIsReserved
<1> QED BY <1>1, Inductive, PTL

\* Seats held without a CONFIRMED booking, or a CONFIRMED booking without seats,
\* are the doing of a request that died or was answered an error.
THEOREM FailuresAreReported == Spec => []DivergenceIsReported
<1>1. IInv => DivergenceIsReported
  <2> SUFFICES ASSUME IInv, Quiet, NEW b \in Creator,
                      ~(reservation[b].status = "ACTIVE" <=> booking[b].status = "CONFIRMED"), ~Failed(b)
               PROVE  \E h \in Canceller : Failed(h) /\ request[h] = [kind |-> "cancel", booking |-> b]
    BY DEF DivergenceIsReported
  <2>1. /\ CreatorDone(b) /\ CreatorCalls(b) /\ CreatorServes(b) /\ b \in Handler
        /\ reservation[b] \in Inventory!Rows \union {Inventory!NoRow}
        /\ booking[b] \in Bookings \union {NoBooking}
    BY DEF IInv, Typed, Serving, Handler, TypeOK, Inventory!TypeOK
  <2>2. pc[b] \in {"none", "done"}
    BY <2>1 DEF Quiet, Active, Failed
  <2>3. ~(reservation[b] = Inventory!NoRow /\ booking[b] = NoBooking)
    BY DEF Inventory!NoRow, NoBooking
  <2>4. http[b] = 201 /\ booking[b] # NoBooking
    BY <2>1, <2>2, <2>3 DEF CreatorDone, CreatorServes, Failed
  <2>5. reservation[b] # Inventory!NoRow /\ (booking[b].status = "CANCELLED" => reservation[b].status = "RELEASED")
    BY <2>1, <2>4 DEF CreatorDone, IInv, CancelledIsReleased
  <2>6. booking[b].status \in {"CONFIRMED", "CANCELLED"} /\ reservation[b].status \in {"ACTIVE", "RELEASED"}
    BY <2>1, <2>4, <2>5 DEF Bookings, Inventory!Rows
  <2>7. booking[b].status = "CONFIRMED" /\ reservation[b].status = "RELEASED"
    BY <2>5, <2>6
  <2>8. PICK h \in Handler, k \in 1 .. MaxAttempts : Asked(ReleaseCall(h, k)) /\ BookingOf(h) = b
    BY <2>7 DEF IInv, ReleasedByHandler
  <2>9. h \notin Creator
    <3> SUFFICES ASSUME h \in Creator
                 PROVE  FALSE
      OBVIOUS
    <3>1. h = b
      BY <2>8 DEF BookingOf
    <3> QED BY <2>1, <2>2, <2>4, <2>8, <3>1 DEF CreatorCalls
  <2>10. /\ h \in Canceller /\ CancellerCalls(h) /\ CancellerDone(h)
         /\ request[h] \in CancelRequest /\ request[h].booking = b
    BY <2>8, <2>9 DEF IInv, Handler, CancellerCalls, BookingOf
  <2>11. request[h] = [kind |-> "cancel", booking |-> b]
    BY <2>10 DEF CancelRequest
  <2>12. pc[h] = "dead" \/ http[h] \in {404, 409, 500, 503}
    BY <2>7, <2>8, <2>10 DEF CancellerCalls, CancellerDone, Quiet, Active
  <2> QED BY <2>10, <2>11, <2>12 DEF Failed
<1> QED BY <1>1, Inductive, PTL

\* A cancellation answered 404 leaves no seats taken: there was no such booking, or
\* another cancellation has given them back (CancelBooking, writeGrpcError).
THEOREM NotFoundIsHarmless == Spec => NotFoundHoldsNoSeats
<1> DEFINE Harmless ==
      \A h \in Canceller :
        http[h] # 404 /\ http'[h] = 404 =>
          LET b == request[h].booking IN
          booking[b] = NoBooking \/ reservation[b].status = "RELEASED"
<1>1. ASSUME IInv, [Next]_vars
      PROVE  Harmless
  <2> SUFFICES ASSUME NEW h \in Canceller, http[h] # 404, http'[h] = 404
               PROVE  LET b == request[h].booking IN
                      booking[b] = NoBooking \/ reservation[b].status = "RELEASED"
    OBVIOUS
  <2>1. h \in Handler /\ Typed /\ HandlerTypes /\ scenario.handlers \subseteq Handler
    <3>1. Typed
      BY <1>1 DEF IInv
    <3>2. h \in Handler
      BY DEF Handler
    <3>3. scenario.handlers \subseteq Handler
      BY <3>1, SagaAssumption DEF Typed, TypeOK, Handler
    <3> QED BY <3>1, <3>2, <3>3, TypedIs
  <2>2. ASSUME NEW g \in Handler, g # h
        PROVE  ~Step(g)
    <3> SUFFICES ASSUME Step(g)
                 PROVE  http'[h] = http[h]
      OBVIOUS
    <3>1. CASE FirstAttempt(g) \/ NextAttempt(g)
      <4>1. UNCHANGED http
        BY <2>1, <3>1 DEF FirstAttempt, NextAttempt, Send
      <4> QED BY <4>1
    <3>2. CASE ~(FirstAttempt(g) \/ NextAttempt(g))
      <4>1. PICK place, code : Moves(g, place, code)
        BY <2>1, <3>2, LookUpFlightMoves, ReservedMoves, InsertBookingMoves, CompensatedMoves,
           LoadBookingMoves, ReleasedMoves, MarkCancelledMoves DEF Step
      <4> QED BY <2>1, <2>2, <4>1 DEF Moves, OthersStay
    <3> QED BY <3>1, <3>2
  <2>3. Step(h)
    <3>1. ~UNCHANGED http
      OBVIOUS
    <3>2. \E g \in Handler : Step(g)
      <4>1. \A g \in Handler : Start(g) \/ Disconnect(g) => UNCHANGED http
        BY DEF Start, StartCreate, StartCancel, Disconnect
      <4>2. \A a \in Attempt : Execute(a) => UNCHANGED http
        BY DEF Execute, handlers
      <4>3. Crash => UNCHANGED http
        BY DEF Crash
      <4>4. UNCHANGED vars => UNCHANGED http
        BY DEF vars, handlers
      <4> QED BY <1>1, <2>1, <3>1, <4>1, <4>2, <4>3, <4>4 DEF Next
    <3> QED BY <2>2, <3>2
  <2>4. CASE FirstAttempt(h) \/ NextAttempt(h)
    <3>1. UNCHANGED http
      BY <2>1, <2>4 DEF FirstAttempt, NextAttempt, Send
    <3> QED BY <3>1
  <2>5. CASE LookUpFlight(h) \/ Reserved(h) \/ InsertBooking(h) \/ Compensated(h)
    BY <2>1, <2>5, WhoIs DEF LookUpFlight, Reserved, InsertBooking, Compensated
  <2>6. CASE LoadBooking(h)
    BY <2>1, <2>6, LoadBookingMoves DEF Moves
  <2>7. CASE Released(h)
    <3>1. PICK o \in Outcomes(h) : o = "not_found"
      BY <2>1, <2>7, ReleasedMoves DEF Moves
    <3>2. pc[h] = "release" /\ o \in {"ok", "not_found"}
      BY <2>7, <3>1 DEF Released
    <3>3. reservation[request[h].booking].status = "RELEASED"
      BY <1>1, <2>1, <3>2, ReleasedRow
    <3> QED BY <3>3
  <2>8. CASE MarkCancelled(h)
    BY <2>1, <2>8, MarkCancelledMoves DEF Moves
  <2> QED BY <2>3, <2>4, <2>5, <2>6, <2>7, <2>8 DEF Step
<1> QED BY <1>1, Inductive, PTL DEF Spec, NotFoundHoldsNoSeats

-----------------------------------------------------------------------------
(* When nothing but the insert of a booking fails *)

\* A handler makes one attempt of each RPC, waits for its answer, and no answer is
\* an error.
HandlerAlone(h) ==
  /\ ~gone[h] /\ pc[h] # "dead" /\ attempt[h] <= 1
  /\ \A k \in 1 .. MaxAttempts :
       /\ k > 1 => ~Asked(ReserveCall(h, k)) /\ ~Asked(ReleaseCall(h, k))
       /\ ReserveCall(h, k).answer # "error" /\ ReleaseCall(h, k).answer # "error"

\* A creator is told of the row it has, answers an error only without one or after
\* having given the seats back, and compensates only for a booking it does not have.
CreatorAlone(h) ==
  /\ reservation[h] # Inventory!NoRow => ReserveCall(h, 1).answer = "ok"
  /\ http[h] \in {404, 409, 503} => ReserveCall(h, 1).answer \in {"idle", "not_found", "no_seats"}
  /\ pc[h] = "compensate" => booking[h] = NoBooking
  /\ http[h] = 500 => booking[h] = NoBooking /\ reservation[h].status = "RELEASED"

\* A canceller that is giving seats back goes on to cancel the booking.
CancellerAlone(h) ==
  ReleaseCall(h, 1).answer \in {"pending", "ok"} => pc[h] \in {"release", "mark"} \/ http[h] = 200

ReleasedAlone ==
  \A b \in Creator : reservation[b].status = "RELEASED" =>
    \E h \in Handler : ReleaseCall(h, 1).answer = "ok" /\ BookingOf(h) = b

Alone ==
  /\ Faults = {}
  /\ \A h \in Handler : HandlerAlone(h)
  /\ \A h \in Creator : CreatorAlone(h)
  /\ \A h \in Canceller : CancellerAlone(h)
  /\ ReleasedAlone
AloneInv == IInv /\ (Faults = {} => Alone)

\* Outcomes are answers.
LEMMA AloneOutcome ==
  ASSUME IInv, Alone, NEW h \in Handler, Calling(h), NEW o \in Outcomes(h)
  PROVE  /\ Asked(call[<<h, Op(h), 1>>]) /\ call[<<h, Op(h), 1>>].answer = o
         /\ o \in {"ok", "not_found", "no_seats", "already_exists"}
         /\ 1 \in 1 .. MaxAttempts
<1>1. attempt[h] \in 0 .. MaxAttempts /\ MaxAttempts \in Nat \ {0}
  BY SagaAssumption DEF IInv, Typed, TypeOK
<1>2. ~gone[h] /\ attempt[h] <= 1 /\ Faults = {}
  BY DEF Alone, HandlerAlone
<1>3. attempt[h] > 0 /\ call[Current(h)].answer = o /\ o \in Inventory!Answers
  BY <1>2 DEF Outcomes
<1>4. attempt[h] = 1 /\ 1 \in 1 .. MaxAttempts
  BY <1>1, <1>2, <1>3
<1>5. call[<<h, Op(h), 1>>].answer = o
  BY <1>3, <1>4 DEF Current
<1>6. o # "error"
  BY <1>4, <1>5 DEF Alone, HandlerAlone, ReserveCall, ReleaseCall, Op
<1>7. Asked(call[<<h, Op(h), 1>>])
  BY <1>3, <1>5 DEF Asked, Inventory!Idle, Inventory!Answers
<1> QED BY <1>3, <1>4, <1>5, <1>6, <1>7 DEF Inventory!Answers

\* What holds of a handler holds after a step of another one.
LEMMA OthersKeepAlone ==
  ASSUME IInv, Alone, NEW h \in Handler, OthersStay(h), OthersWait(h), BookingsStay, NoneButOf(h),
         ReservationsStay, NoRowButOf(h)
  PROVE  /\ \A g \in Handler \ {h} : HandlerAlone(g)'
         /\ \A g \in Creator \ {h} : CreatorAlone(g)'
         /\ \A g \in Canceller \ {h} : CancellerAlone(g)'
<1>1. ASSUME NEW g \in Handler \ {h}
      PROVE  /\ HandlerAlone(g)'
             /\ pc'[g] = pc[g] /\ http'[g] = http[g]
             /\ ReserveCall(g, 1)' = ReserveCall(g, 1) /\ ReleaseCall(g, 1)' = ReleaseCall(g, 1)
  <2>1. HandlerAlone(g)
    BY DEF Alone
  <2>2. pc'[g] = pc[g] /\ attempt'[g] = attempt[g] /\ gone'[g] = gone[g] /\ http'[g] = http[g]
    BY DEF OthersStay
  <2>3. \A k \in 1 .. MaxAttempts :
          ReserveCall(g, k)' = ReserveCall(g, k) /\ ReleaseCall(g, k)' = ReleaseCall(g, k)
    BY DEF OthersWait
  <2>4. 1 \in 1 .. MaxAttempts
    BY SagaAssumption
  <2> QED BY <2>1, <2>2, <2>3, <2>4 DEF HandlerAlone, Asked, Inventory!Idle
<1>2. ASSUME NEW g \in Creator \ {h}
      PROVE  CreatorAlone(g)'
  <2>1. CreatorAlone(g) /\ g \in Handler
    BY DEF Alone, Handler
  <2>2. /\ reservation'[g] # Inventory!NoRow => reservation[g] # Inventory!NoRow
        /\ booking[g] = NoBooking => booking'[g] = NoBooking
        /\ reservation[g].status = "RELEASED" => reservation'[g].status = "RELEASED"
    BY DEF NoneButOf, ReservationsStay, NoRowButOf
  <2> QED BY <1>1, <2>1, <2>2 DEF CreatorAlone, NoBooking, Inventory!NoRow
<1>3. ASSUME NEW g \in Canceller \ {h}
      PROVE  CancellerAlone(g)'
  BY <1>1 DEF Alone, CancellerAlone, Handler
<1> QED BY <1>1, <1>2, <1>3

\* A step of a handler that neither asks nor touches flight_db.
LEMMA LocalAlone ==
  ASSUME IInv, Alone, NEW h \in Handler, OthersStay(h), UNCHANGED <<flightService, scenario>>,
         BookingsStay, NoneButOf(h), pc[h] # "none" => request'[h] = request[h],
         gone'[h] = gone[h], pc'[h] # "dead", attempt'[h] \in {0, attempt[h]},
         h \in Creator => CreatorAlone(h)',
         h \in Canceller => CancellerAlone(h)'
  PROVE  Alone'
<1>1. ReservationsStay /\ NoRowButOf(h) /\ OthersWait(h)
  BY DEF flightService, ReservationsStay, NoRowButOf, OthersWait, ReserveCall, ReleaseCall
<1>2. /\ \A g \in Handler \ {h} : HandlerAlone(g)'
      /\ \A g \in Creator \ {h} : CreatorAlone(g)'
      /\ \A g \in Canceller \ {h} : CancellerAlone(g)'
  BY <1>1, OthersKeepAlone
<1>3. \A g \in Handler, k \in 1 .. MaxAttempts :
        ReserveCall(g, k)' = ReserveCall(g, k) /\ ReleaseCall(g, k)' = ReleaseCall(g, k)
  BY DEF flightService, ReserveCall, ReleaseCall
<1>4. HandlerAlone(h)'
  BY <1>3 DEF Alone, HandlerAlone, Asked, Inventory!Idle
<1>5. ReleasedAlone'
  <2> SUFFICES ASSUME NEW b \in Creator, reservation'[b].status = "RELEASED"
               PROVE  \E g \in Handler : (ReleaseCall(g, 1).answer = "ok" /\ BookingOf(g) = b)'
    BY DEF ReleasedAlone
  <2>1. PICK g \in Handler : ReleaseCall(g, 1).answer = "ok" /\ BookingOf(g) = b
    BY DEF flightService, Alone, ReleasedAlone
  <2>2. 1 \in 1 .. MaxAttempts
    BY SagaAssumption
  <2>3. Asked(ReleaseCall(g, 1))
    BY <2>1 DEF Asked, Inventory!Idle
  <2>4. request'[g] = request[g]
    BY <2>2, <2>3, NoCallsAtFirst DEF OthersStay
  <2>5. BookingOf(g)' = b /\ ReleaseCall(g, 1)'.answer = "ok"
    BY <1>3, <2>1, <2>2, <2>4 DEF BookingOf
  <2> QED BY <2>5
<1>6. Faults' = {}
  BY DEF Alone, Faults
<1> QED BY <1>2, <1>4, <1>5, <1>6 DEF Alone, Handler

LEMMA AloneStart ==
  ASSUME IInv, Alone, NEW h \in scenario.handlers, Start(h), UNCHANGED scenario
  PROVE  Alone'
<1>1. h \in Handler /\ Typed /\ HandlerTypes
  <2>1. Typed
    BY DEF IInv
  <2> QED BY <2>1, TypedIs, SagaAssumption DEF Handler, Typed, TypeOK
<1>2. pc[h] = "none" /\ UNCHANGED <<flightService, booking, attempt, gone, http>>
  BY DEF Start, StartCreate, StartCancel
<1>3. /\ request' = [request EXCEPT ![h] = request'[h]]
      /\ pc' = [pc EXCEPT ![h] = pc'[h]]
      /\ pc'[h] \in {"lookup", "load"}
  BY <1>1 DEF Start, StartCreate, StartCancel, HandlerTypes
<1>4. OthersStay(h)
  BY <1>1, <1>2, <1>3 DEF OthersStay, HandlerTypes
<1>5. BookingsStay /\ NoneButOf(h)
  BY <1>1, <1>2, NoBookingChange
<1>6. 1 \in 1 .. MaxAttempts
  BY SagaAssumption
<1>7. ~Asked(ReserveCall(h, 1)) /\ ~Asked(ReleaseCall(h, 1)) /\ http[h] = 0
  BY <1>1, <1>2, <1>6, NoCallsAtFirst DEF IInv, CreatorDone, CancellerDone, Handler
<1>8. h \in Creator => CreatorAlone(h)'
  BY <1>2, <1>3, <1>7 DEF Alone, CreatorAlone, flightService, ReserveCall, Inventory!NoRow
<1>9. h \in Canceller => CancellerAlone(h)'
  BY <1>2, <1>7 DEF CancellerAlone, flightService, ReleaseCall, Asked, Inventory!Idle
<1> QED BY <1>1, <1>2, <1>3, <1>4, <1>5, <1>8, <1>9, LocalAlone

\* A move of a creator, of a canceller.
LEMMA AloneCreatorMoves ==
  ASSUME IInv, Alone, NEW h \in Creator, NEW place, NEW code, Moves(h, place, code),
         UNCHANGED <<flightService, scenario>>, BookingsStay, NoneButOf(h), place # "dead",
         pc[h] # "none",
         code \in {404, 409, 503} => ReserveCall(h, 1).answer \in {"idle", "not_found", "no_seats"},
         place = "compensate" => booking'[h] = NoBooking,
         code = 500 => booking'[h] = NoBooking /\ reservation[h].status = "RELEASED"
  PROVE  Alone'
<1>1. h \in Handler /\ h \notin Canceller /\ CreatorAlone(h)
  BY Disjoint DEF Alone, Handler
<1>2. /\ OthersStay(h) /\ pc'[h] = place /\ request' = request /\ http'[h] = code
      /\ gone' = gone /\ attempt'[h] = 0 /\ UNCHANGED <<reservation, call>>
  BY DEF Moves, flightService
<1>3. ReserveCall(h, 1)' = ReserveCall(h, 1)
  BY <1>2 DEF ReserveCall
<1>4. CreatorAlone(h)'
  BY <1>1, <1>2, <1>3 DEF CreatorAlone, Inventory!NoRow, NoBooking
<1> QED BY <1>1, <1>2, <1>4, LocalAlone

LEMMA AloneCancellerMoves ==
  ASSUME IInv, Alone, NEW h \in Canceller, NEW place, NEW code, Moves(h, place, code),
         UNCHANGED <<flightService, scenario>>, BookingsStay, NoneButOf(h), place # "dead",
         pc[h] # "none",
         ReleaseCall(h, 1).answer \in {"pending", "ok"} => place \in {"release", "mark"} \/ code = 200
  PROVE  Alone'
<1>1. h \in Handler /\ h \notin Creator
  BY Disjoint DEF Handler
<1>2. /\ OthersStay(h) /\ pc'[h] = place /\ request' = request /\ http'[h] = code
      /\ gone' = gone /\ attempt'[h] = 0 /\ UNCHANGED <<reservation, call>>
  BY DEF Moves, flightService
<1>3. ReleaseCall(h, 1)' = ReleaseCall(h, 1)
  BY <1>2 DEF ReleaseCall
<1>4. CancellerAlone(h)'
  BY <1>2, <1>3 DEF CancellerAlone
<1> QED BY <1>1, <1>2, <1>4, LocalAlone

LEMMA AloneSend ==
  ASSUME IInv, Alone, NEW h \in Handler, FirstAttempt(h) \/ NextAttempt(h), UNCHANGED scenario
  PROVE  Alone'
<1>1. Typed /\ Faults = {} /\ 1 \in 1 .. MaxAttempts
  BY SagaAssumption DEF IInv, Alone
<1>2. Calling(h) /\ Send(h, 1) /\ attempt[h] = 0
  BY <1>1 DEF FirstAttempt, NextAttempt
<1>3. PICK k \in 1 .. MaxAttempts :
        /\ attempt'[h] = k
        /\ call'[<<h, Op(h), k>>] = [req |-> Message(h), answer |-> "pending"]
        /\ ~Asked(call[<<h, Op(h), k>>])
        /\ \A a \in Attempt : a # <<h, Op(h), k>> => call'[a] = call[a]
        /\ UNCHANGED <<reservation, booking, pc, request, gone, http>>
  BY <1>1, SendEffect
<1>4. k = 1 /\ attempt' = [attempt EXCEPT ![h] = 1]
  BY <1>1, <1>2, <1>3 DEF Send, IInv, Typed, TypeOK
<1>5. \A g \in Handler, op \in {"reserve", "release"}, j \in 1 .. MaxAttempts :
        <<g, op, j>> \in Attempt /\ (<<g, op, j>> = <<h, Op(h), 1>> => g = h /\ op = Op(h) /\ j = 1)
  BY DEF Attempt
<1>6. ASSUME NEW g \in Handler, NEW j \in 1 .. MaxAttempts
      PROVE  /\ ReserveCall(g, j)' = ReserveCall(g, j) \/ (g = h /\ Op(h) = "reserve" /\ j = 1)
             /\ ReleaseCall(g, j)' = ReleaseCall(g, j) \/ (g = h /\ Op(h) = "release" /\ j = 1)
  BY <1>3, <1>4, <1>5 DEF ReserveCall, ReleaseCall
<1>7. /\ Op(h) = "reserve" => ReserveCall(h, 1)'.answer = "pending" /\ ~Asked(ReserveCall(h, 1))
      /\ Op(h) = "release" => ReleaseCall(h, 1)'.answer = "pending" /\ ~Asked(ReleaseCall(h, 1))
  BY <1>3, <1>4 DEF ReserveCall, ReleaseCall
<1>8. OthersStay(h) /\ OthersWait(h)
  BY <1>3, <1>4, <1>6 DEF OthersStay, OthersWait, IInv, Typed, TypeOK
<1>9. BookingsStay /\ NoneButOf(h) /\ ReservationsStay /\ NoRowButOf(h)
  BY <1>1, <1>3, NoBookingChange DEF ReservationsStay, NoRowButOf
<1>10. /\ \A g \in Handler \ {h} : HandlerAlone(g)'
       /\ \A g \in Creator \ {h} : CreatorAlone(g)'
       /\ \A g \in Canceller \ {h} : CancellerAlone(g)'
  BY <1>8, <1>9, OthersKeepAlone
<1>11. HandlerAlone(h)'
  <2>1. HandlerAlone(h)
    BY DEF Alone
  <2>2. ASSUME NEW j \in 1 .. MaxAttempts
        PROVE  /\ j > 1 => ~Asked(ReserveCall(h, j))' /\ ~Asked(ReleaseCall(h, j))'
               /\ ReserveCall(h, j)'.answer # "error" /\ ReleaseCall(h, j)'.answer # "error"
    <3>1. CASE ReserveCall(h, j)' = ReserveCall(h, j) /\ ReleaseCall(h, j)' = ReleaseCall(h, j)
      BY <2>1, <3>1 DEF HandlerAlone, Asked, Inventory!Idle
    <3>2. CASE Op(h) = "reserve" /\ j = 1
      BY <1>6, <1>7, <2>1, <3>2 DEF HandlerAlone
    <3>3. CASE Op(h) = "release" /\ j = 1
      BY <1>6, <1>7, <2>1, <3>3 DEF HandlerAlone
    <3> QED BY <1>6, <3>1, <3>2, <3>3
  <2> QED BY <1>3, <1>4, <2>1, <2>2 DEF HandlerAlone
<1>12. ASSUME h \in Creator
       PROVE  CreatorAlone(h)'
  <2>1. CreatorAlone(h) /\ http[h] = 0
    BY <1>2, <1>12 DEF Alone, IInv, CreatorDone, Calling
  <2>2. reservation[h] # Inventory!NoRow => ReserveCall(h, 1)' = ReserveCall(h, 1)
    BY <1>1, <1>6, <1>7, <2>1 DEF CreatorAlone, Asked, Inventory!Idle
  <2> QED BY <1>3, <2>1, <2>2 DEF CreatorAlone, Inventory!NoRow, NoBooking
<1>13. ASSUME h \in Canceller
       PROVE  CancellerAlone(h)'
  <2>1. pc[h] = "release"
    BY <1>1, <1>2, <1>13, WhoIs DEF Calling
  <2> QED BY <1>3, <2>1 DEF CancellerAlone
<1>14. ReleasedAlone'
  <2> SUFFICES ASSUME NEW b \in Creator, reservation'[b].status = "RELEASED"
               PROVE  \E g \in Handler : (ReleaseCall(g, 1).answer = "ok" /\ BookingOf(g) = b)'
    BY DEF ReleasedAlone
  <2>1. PICK g \in Handler : ReleaseCall(g, 1).answer = "ok" /\ BookingOf(g) = b
    BY <1>3 DEF Alone, ReleasedAlone
  <2>2. ReleaseCall(g, 1)' = ReleaseCall(g, 1)
    BY <1>1, <1>6, <1>7, <2>1 DEF Asked, Inventory!Idle
  <2> QED BY <1>3, <2>1, <2>2 DEF BookingOf
<1>15. Faults' = {}
  BY <1>1 DEF Faults
<1> QED BY <1>10, <1>11, <1>12, <1>13, <1>14, <1>15 DEF Alone, Handler

LEMMA AloneExecute ==
  ASSUME IInv, Alone, NEW a \in Attempt, Execute(a), UNCHANGED scenario
  PROVE  Alone'
<1>1. PICK h \in Handler, op \in {"reserve", "release"}, j \in 1 .. MaxAttempts : a = <<h, op, j>>
  BY DEF Attempt
<1>2. /\ Inventory!Decide(<<h, op, j>>) /\ UNCHANGED <<booking, pc, request, attempt, gone, http>>
      /\ call'[<<h, op, j>>].answer # "error"
  BY <1>1 DEF Execute, handlers, Alone
<1> DEFINE b == BookingOf(h)
<1>3. /\ Asked(call[<<h, op, j>>]) /\ call[<<h, op, j>>].answer = "pending"
      /\ \A e \in Attempt : e # <<h, op, j>> => call'[e] = call[e]
      /\ b \in Creator /\ (op = "reserve" => h \in Creator)
      /\ \A e \in Creator \ {b} : reservation'[e] = reservation[e]
  BY <1>2, DecideEffect
<1>4. \/ /\ op = "reserve" /\ call'[<<h, op, j>>].answer = "ok"
         /\ reservation[h] = Inventory!NoRow
         /\ reservation'[h] = Inventory!Row(request[h].flight, request[h].seats, "ACTIVE")
      \/ op = "release" /\ call'[<<h, op, j>>].answer = "ok"
      \/ UNCHANGED reservation
  BY <1>2, DecideAnswer
<1>5. HandlerAlone(h) /\ 1 \in 1 .. MaxAttempts
  BY SagaAssumption DEF Alone
<1>6. j = 1
  <2>1. ~(j > 1)
    <3>1. CASE op = "reserve"
      BY <1>3, <1>5, <3>1 DEF HandlerAlone, ReserveCall
    <3>2. CASE op = "release"
      BY <1>3, <1>5, <3>2 DEF HandlerAlone, ReleaseCall
    <3> QED BY <3>1, <3>2
  <2> QED BY <2>1, SagaAssumption
<1>7. \A g \in Handler, o \in {"reserve", "release"}, k \in 1 .. MaxAttempts :
        <<g, o, k>> \in Attempt /\ (<<g, o, k>> = <<h, op, 1>> => g = h /\ o = op /\ k = 1)
  BY DEF Attempt
<1>8. ASSUME NEW g \in Handler, NEW k \in 1 .. MaxAttempts
      PROVE  /\ ReserveCall(g, k)' = ReserveCall(g, k) \/ (g = h /\ op = "reserve" /\ k = 1)
             /\ ReleaseCall(g, k)' = ReleaseCall(g, k) \/ (g = h /\ op = "release" /\ k = 1)
  BY <1>3, <1>6, <1>7 DEF ReserveCall, ReleaseCall
<1>9. /\ op = "reserve" => /\ ReserveCall(h, 1).answer = "pending"
                           /\ ReserveCall(h, 1)' = call'[<<h, op, j>>]
      /\ op = "release" => /\ ReleaseCall(h, 1).answer = "pending"
                           /\ ReleaseCall(h, 1)' = call'[<<h, op, j>>]
  BY <1>3, <1>6 DEF ReserveCall, ReleaseCall
<1>10. ReservationsStay /\ NoRowButOf(h)
  BY <1>2, DecideKeepsRows
<1>11. BookingsStay /\ NoneButOf(h) /\ OthersStay(h) /\ OthersWait(h)
  BY <1>2, <1>8 DEF BookingsStay, NoneButOf, OthersStay, OthersWait
<1>12. /\ \A g \in Handler \ {h} : HandlerAlone(g)'
       /\ \A g \in Creator \ {h} : CreatorAlone(g)'
       /\ \A g \in Canceller \ {h} : CancellerAlone(g)'
  BY <1>10, <1>11, OthersKeepAlone
<1>13. HandlerAlone(h)'
  <2>1. ASSUME NEW k \in 1 .. MaxAttempts
        PROVE  /\ k > 1 => ~Asked(ReserveCall(h, k))' /\ ~Asked(ReleaseCall(h, k))'
               /\ ReserveCall(h, k)'.answer # "error" /\ ReleaseCall(h, k)'.answer # "error"
    <3>1. CASE ReserveCall(h, k)' = ReserveCall(h, k) /\ ReleaseCall(h, k)' = ReleaseCall(h, k)
      BY <1>5, <3>1 DEF HandlerAlone, Asked, Inventory!Idle
    <3>2. CASE op = "reserve" /\ k = 1
      BY <1>2, <1>5, <1>8, <1>9, <3>2 DEF HandlerAlone
    <3>3. CASE op = "release" /\ k = 1
      BY <1>2, <1>5, <1>8, <1>9, <3>3 DEF HandlerAlone
    <3> QED BY <1>8, <3>1, <3>2, <3>3
  <2> QED BY <1>2, <1>5, <2>1 DEF HandlerAlone
<1>14. ASSUME h \in Creator
       PROVE  CreatorAlone(h)'
  <2>1. CreatorAlone(h) /\ b = h /\ CreatorCalls(h)
    BY <1>14 DEF Alone, IInv, BookingOf
  <2>2. reservation[h].status = "RELEASED" => reservation'[h].status = "RELEASED"
    BY <1>10, <1>14 DEF ReservationsStay
  <2>3. http[h] \in {404, 409, 503} => op # "reserve"
    BY <1>9, <2>1 DEF CreatorAlone
  <2>4. op = "release" => ReserveCall(h, 1)' = ReserveCall(h, 1)
    BY <1>5, <1>8
  <2>5. op = "release" => reservation[h] # Inventory!NoRow
    BY <1>3, <1>6, <1>5, <2>1 DEF CreatorCalls, ReleaseCall
  <2>6. op = "reserve" /\ UNCHANGED reservation => reservation[h] = Inventory!NoRow
    BY <1>9, <2>1 DEF CreatorAlone
  <2>7. reservation'[h] # Inventory!NoRow => ReserveCall(h, 1)'.answer = "ok"
    <3>1. CASE op = "reserve"
      BY <1>4, <1>9, <2>6, <3>1
    <3>2. CASE op = "release"
      BY <2>1, <2>4, <2>5, <3>2 DEF CreatorAlone
    <3> QED BY <3>1, <3>2
  <2>8. http[h] \in {404, 409, 503} => ReserveCall(h, 1)' = ReserveCall(h, 1)
    BY <2>3, <2>4
  <2> QED BY <1>2, <2>1, <2>2, <2>7, <2>8 DEF CreatorAlone, NoBooking, Inventory!NoRow
<1>15. ASSUME h \in Canceller
       PROVE  CancellerAlone(h)'
  <2>1. op = "release" /\ CancellerAlone(h)
    BY <1>3, <1>15, Disjoint DEF Alone
  <2>2. pc[h] \in {"release", "mark"} \/ http[h] = 200
    BY <1>9, <2>1 DEF CancellerAlone
  <2> QED BY <1>2, <2>2 DEF CancellerAlone
<1>16. ReleasedAlone'
  <2> SUFFICES ASSUME NEW e \in Creator, reservation'[e].status = "RELEASED"
               PROVE  \E g \in Handler : (ReleaseCall(g, 1).answer = "ok" /\ BookingOf(g) = e)'
    BY DEF ReleasedAlone
  <2>1. CASE reservation[e].status = "RELEASED"
    <3>1. PICK g \in Handler : ReleaseCall(g, 1).answer = "ok" /\ BookingOf(g) = e
      BY <2>1 DEF Alone, ReleasedAlone
    <3>2. ReleaseCall(g, 1)' = ReleaseCall(g, 1)
      BY <1>5, <1>8, <1>9, <3>1
    <3> QED BY <1>2, <3>1, <3>2 DEF BookingOf
  <2>2. CASE reservation[e].status # "RELEASED"
    <3>1. e = b /\ ~UNCHANGED reservation
      BY <1>3, <2>2
    <3>2. op = "reserve" => b = h /\ reservation'[h].status # "RELEASED"
      BY <1>3, <1>4, <3>1 DEF BookingOf, Inventory!Row
    <3>3. op = "release" /\ call'[<<h, op, j>>].answer = "ok"
      BY <1>4, <3>1, <3>2
    <3>4. ReleaseCall(h, 1)'.answer = "ok" /\ BookingOf(h)' = e
      BY <1>2, <1>9, <3>1, <3>3 DEF BookingOf
    <3> QED BY <3>4
  <2> QED BY <2>1, <2>2
<1>17. Faults' = {}
  BY DEF Alone, Faults
<1> QED BY <1>12, <1>13, <1>14, <1>15, <1>16, <1>17 DEF Alone, Handler

LEMMA AloneStep ==
  ASSUME IInv, Alone, NEW h \in Handler, Step(h), UNCHANGED scenario
  PROVE  Alone'
<1>1. Typed /\ HandlerTypes /\ 1 \in 1 .. MaxAttempts
  <2>1. Typed
    BY DEF IInv
  <2> QED BY <2>1, TypedIs, SagaAssumption
<1>2. Faults = {} /\ ~MayFail(h)
  BY DEF Alone, HandlerAlone, MayFail
<1> USE WhoIs DEF flightService
<1>3. ASSUME UNCHANGED <<flightService, booking>>
      PROVE  BookingsStay /\ NoneButOf(h)
  BY <1>1, <1>3, NoBookingChange
<1>4. pc[h] # "done" => http[h] = 0
  BY DEF IInv, CreatorDone, CancellerDone, Handler
<1>5. CASE FirstAttempt(h) \/ NextAttempt(h)
  BY <1>5, AloneSend
<1>6. CASE LookUpFlight(h)
  <2>1. UNCHANGED <<flightService, booking>> /\ pc[h] = "lookup" /\ h \in Creator
    BY <1>1, <1>6 DEF LookUpFlight
  <2>2. PICK place, code :
          /\ Moves(h, place, code)
          /\ \/ place = "reserve" /\ code = http[h]
             \/ place = "done" /\ code \in {400, 404}
    <3>1. Goto(h, "reserve") => Moves(h, "reserve", http[h])
      BY <1>1, GotoMoves DEF Places
    <3>2. \A code \in {400, 404} : Respond(h, code) => Moves(h, "done", code)
      BY <1>1, RespondMoves DEF Codes
    <3> QED BY <1>2, <1>6, <3>1, <3>2 DEF LookUpFlight
  <2>3. ReserveCall(h, 1).answer = "idle"
    BY <1>1, <2>1 DEF IInv, CreatorCalls, Asked, Inventory!Idle
  <2> QED BY <1>3, <1>4, <2>1, <2>2, <2>3, AloneCreatorMoves
<1>7. CASE Reserved(h)
  <2>1. UNCHANGED <<flightService, booking>> /\ pc[h] = "reserve" /\ h \in Creator
    BY <1>1, <1>7 DEF Reserved
  <2>2. Op(h) = "reserve" /\ Calling(h)
    BY <2>1 DEF Op, Calling
  <2>3. PICK o \in Outcomes(h) :
           \/ o \in {"ok", "already_exists"} /\ Moves(h, "insert", http[h])
           \/ /\ o \notin {"ok", "already_exists"}
              /\ Moves(h, "done", HttpStatus(o))
    BY <1>1, <1>7, ReservedMoves
  <2>4. ReserveCall(h, 1).answer = o /\ o \in {"ok", "not_found", "no_seats", "already_exists"}
    BY <2>2, AloneOutcome DEF ReserveCall
  <2>5. CASE o \in {"ok", "already_exists"}
    BY <1>3, <1>4, <2>1, <2>3, <2>5, AloneCreatorMoves
  <2>6. CASE o \notin {"ok", "already_exists"}
    <3>1. HttpStatus(o) # 500
      BY <2>4, <2>6 DEF HttpStatus
    <3> QED BY <1>3, <2>1, <2>3, <2>4, <2>6, <3>1, AloneCreatorMoves
  <2> QED BY <2>5, <2>6
<1>8. CASE InsertBooking(h)
  <2>1. UNCHANGED flightService /\ pc[h] = "insert" /\ h \in Creator /\ booking[h] = NoBooking
    BY <1>1, <1>8 DEF InsertBooking, CreatorServes
  <2>2. CASE Insert(h) /\ Moves(h, "done", 201)
    BY <1>1, <2>1, <2>2, InsertKeeps, AloneCreatorMoves
  <2>3. CASE UNCHANGED booking /\ Moves(h, "compensate", http[h])
    BY <1>3, <1>4, <2>1, <2>3, AloneCreatorMoves DEF NoBooking
  <2> QED BY <1>1, <1>2, <1>8, <2>2, <2>3, InsertBookingMoves
<1>9. CASE Compensated(h)
  <2>1. UNCHANGED <<flightService, booking>> /\ pc[h] = "compensate" /\ h \in Creator /\ Outcomes(h) # {}
    BY <1>1, <1>9 DEF Compensated
  <2>2. Op(h) = "release" /\ Calling(h)
    BY <2>1 DEF Op, Calling
  <2>3. PICK o \in Outcomes(h) : TRUE
    BY <2>1
  <2>4. Asked(ReleaseCall(h, 1)) /\ ReleaseCall(h, 1).answer \in {"ok", "not_found"}
    <3>1. Asked(ReleaseCall(h, 1)) /\ ReleaseCall(h, 1).answer = o
          /\ o \in {"ok", "not_found", "no_seats", "already_exists"}
      BY <2>2, AloneOutcome DEF ReleaseCall
    <3> QED BY <1>1, <2>1, <3>1 DEF IInv, CreatorCalls
  <2>5. reservation[h].status = "RELEASED"
    BY <1>1, <2>1, <2>4 DEF IInv, CreatorCalls
  <2>6. booking[h] = NoBooking /\ booking'[h] = NoBooking
    BY <2>1 DEF Alone, CreatorAlone, NoBooking
  <2>7. Moves(h, "done", 500)
    BY <1>1, <1>9, CompensatedMoves
  <2> QED BY <1>3, <2>1, <2>5, <2>6, <2>7, AloneCreatorMoves
<1>10. CASE LoadBooking(h)
  <2>1. UNCHANGED <<flightService, booking>> /\ pc[h] = "load" /\ h \in Canceller
    BY <1>1, <1>10 DEF LoadBooking
  <2>2. PICK place, code : place \in {"release", "done"} /\ Moves(h, place, code)
    BY <1>1, <1>10, LoadBookingMoves
  <2>3. ReleaseCall(h, 1).answer = "idle"
    BY <1>1, <1>4, <2>1 DEF IInv, CancellerCalls, Asked, Inventory!Idle
  <2> QED BY <1>3, <2>1, <2>2, <2>3, AloneCancellerMoves
<1>11. CASE Released(h)
  <2>1. UNCHANGED <<flightService, booking>> /\ pc[h] = "release" /\ h \in Canceller
    BY <1>1, <1>11 DEF Released
  <2>2. Op(h) = "release" /\ Calling(h)
    BY <2>1 DEF Op, Calling
  <2>3. PICK o \in Outcomes(h) :
          \/ o = "ok" /\ Moves(h, "mark", http[h])
          \/ o # "ok" /\ Moves(h, "done", HttpStatus(o))
    BY <1>1, <1>11, ReleasedMoves
  <2>4. ReleaseCall(h, 1).answer = o /\ o # "pending"
    BY <2>2, AloneOutcome DEF ReleaseCall
  <2> QED BY <1>3, <2>1, <2>3, <2>4, AloneCancellerMoves
<1>12. CASE MarkCancelled(h)
  <2>1. UNCHANGED flightService /\ pc[h] = "mark" /\ h \in Canceller
    BY <1>1, <1>12 DEF MarkCancelled
  <2>2. MarksCancelled(request[h].booking) /\ Moves(h, "done", 200)
    BY <1>1, <1>2, <1>12, MarkCancelledMoves
  <2> QED BY <1>1, <2>1, <2>2, MarkKeeps, AloneCancellerMoves
<1> QED BY <1>5, <1>6, <1>7, <1>8, <1>9, <1>10, <1>11, <1>12 DEF Step

\* When nothing fails but an INSERT, a handler that is not in the middle of its calls
\* has left both databases in agreement about its booking.
THEOREM InductiveAlone == Spec => []AloneInv
<1>1. ASSUME Init
      PROVE  AloneInv
  <2>1. IInv
    BY <1>1, InitInv
  <2>2. ASSUME Faults = {}
        PROVE  Alone
    <3>1. \A h \in Handler : pc[h] = "none" /\ http[h] = 0 /\ gone[h] = FALSE /\ attempt[h] = 0
      BY <1>1 DEF Init
    <3>2. \A a \in Attempt : call[a] = Inventory!Idle
      BY <1>1 DEF Init, Inventory!Init
    <3>3. ASSUME NEW h \in Handler, NEW k \in 1 .. MaxAttempts
          PROVE  ReserveCall(h, k) = Inventory!Idle /\ ReleaseCall(h, k) = Inventory!Idle
      BY <3>2 DEF ReserveCall, ReleaseCall, Attempt
    <3>4. 1 \in 1 .. MaxAttempts
      BY SagaAssumption
    <3>5. \A b \in Creator : reservation[b] = Inventory!NoRow
      BY <1>1 DEF Init, Inventory!Init
    <3>6. \A h \in Handler : HandlerAlone(h)
      BY <3>1, <3>3 DEF HandlerAlone, Asked, Inventory!Idle
    <3>7. \A h \in Creator : CreatorAlone(h)
      BY <3>1, <3>5 DEF CreatorAlone, Handler
    <3>8. \A h \in Canceller : CancellerAlone(h)
      BY <3>3, <3>4 DEF CancellerAlone, Handler, Inventory!Idle
    <3>9. ReleasedAlone
      BY <3>5 DEF ReleasedAlone, Inventory!NoRow
    <3> QED BY <2>2, <3>6, <3>7, <3>8, <3>9 DEF Alone
  <2> QED BY <2>1, <2>2 DEF AloneInv
<1>2. ASSUME AloneInv, [Next]_vars
      PROVE  AloneInv'
  <2>1. IInv'
    BY <1>2, InvPreserved DEF AloneInv
  <2>2. ASSUME Faults' = {}
        PROVE  Alone'
    <3>1. IInv /\ scenario' = scenario
      BY <1>2 DEF AloneInv, Next, vars
    <3>2. Alone
      BY <1>2, <2>2, <3>1 DEF AloneInv, Faults
    <3>3. scenario.handlers \subseteq Handler
      BY <3>1, SagaAssumption DEF IInv, Typed, TypeOK, Handler
    <3>4. \A h \in Handler : ~Disconnect(h)
      BY <3>2 DEF Alone, Disconnect
    <3>5. ~Crash
      BY <3>2 DEF Alone, Crash
    <3>6. CASE Next
      BY <3>1, <3>2, <3>3, <3>4, <3>5, <3>6, AloneStart, AloneStep, AloneExecute DEF Next
    <3>7. CASE UNCHANGED vars
      <4>1. /\ UNCHANGED <<scenario, reservation, call, booking>>
            /\ UNCHANGED <<pc, request, attempt, gone, http>>
        BY <3>7 DEF vars, flightService, handlers
      <4>2. \A h \in Handler : HandlerAlone(h)'
        BY <3>2, <4>1 DEF Alone, HandlerAlone, ReserveCall, ReleaseCall, Asked, Inventory!Idle
      <4>3. \A h \in Creator : CreatorAlone(h)'
        <5> SUFFICES ASSUME NEW h \in Creator
                     PROVE  CreatorAlone(h)'
          OBVIOUS
        <5>1. CreatorAlone(h)
          BY <3>2 DEF Alone
        <5> QED BY <4>1, <5>1 DEF CreatorAlone, ReserveCall, NoBooking, Inventory!NoRow
      <4>4. \A h \in Canceller : CancellerAlone(h)'
        BY <3>2, <4>1 DEF Alone, CancellerAlone, ReleaseCall
      <4>5. ReleasedAlone'
        BY <3>2, <4>1 DEF Alone, ReleasedAlone, ReleaseCall, BookingOf
      <4> QED BY <2>2, <4>2, <4>3, <4>4, <4>5 DEF Alone, Handler
    <3> QED BY <1>2, <3>6, <3>7
  <2> QED BY <2>1, <2>2 DEF AloneInv
<1> QED BY <1>1, <1>2, PTL DEF Spec

\* When nothing but the insert fails, the seats held are those of the CONFIRMED
\* bookings whenever the system is quiet, whichever requests raced
\* (CreateBooking's compensation, CancelBooking's two writes).
THEOREM SeatsAreTheBookings == Spec => []SeatsMatchBookings
<1>1. AloneInv => SeatsMatchBookings
  <2> SUFFICES ASSUME AloneInv, Faults = {}, Quiet, NEW b \in Creator
               PROVE  reservation[b].status = "ACTIVE" <=> booking[b].status = "CONFIRMED"
    BY DEF SeatsMatchBookings
  <2>1. IInv /\ Alone
    BY DEF AloneInv
  <2>2. /\ CreatorDone(b) /\ CreatorServes(b) /\ CreatorCalls(b) /\ CreatorAlone(b)
        /\ HandlerAlone(b) /\ b \in Handler
        /\ reservation[b] \in Inventory!Rows \union {Inventory!NoRow}
        /\ booking[b] \in Bookings \union {NoBooking}
    BY <2>1 DEF IInv, Alone, Typed, Serving, TypeOK, Inventory!TypeOK, Handler
  <2>3. pc[b] \in {"none", "done"}
    BY <2>2 DEF Quiet, Active, HandlerAlone
  <2>4. CASE reservation[b] = Inventory!NoRow
    BY <2>2, <2>4 DEF CreatorDone, Inventory!NoRow, NoBooking
  <2>5. CASE reservation[b] # Inventory!NoRow /\ booking[b] = NoBooking
    <3>1. http[b] = 500
      <4>1. http[b] \notin {404, 409, 503}
        BY <2>2, <2>5 DEF CreatorAlone
      <4> QED BY <2>2, <2>3, <2>5, <4>1 DEF CreatorDone
    <3> QED BY <2>2, <2>5, <3>1 DEF CreatorAlone, NoBooking
  <2>6. CASE reservation[b] # Inventory!NoRow /\ booking[b] # NoBooking
    <3>1. booking[b].status = "CANCELLED" => reservation[b].status = "RELEASED"
      BY <2>1 DEF IInv, CancelledIsReleased
    <3>2. booking[b].status \in {"CONFIRMED", "CANCELLED"}
          /\ reservation[b].status \in {"ACTIVE", "RELEASED"}
      BY <2>2, <2>6 DEF Bookings, Inventory!Rows
    <3>3. ASSUME reservation[b].status = "RELEASED"
          PROVE  booking[b].status = "CANCELLED"
      <4>1. PICK h \in Handler : ReleaseCall(h, 1).answer = "ok" /\ BookingOf(h) = b
        BY <2>1, <3>3 DEF Alone, ReleasedAlone
      <4>2. Asked(ReleaseCall(h, 1)) /\ 1 \in 1 .. MaxAttempts
        BY <4>1, SagaAssumption DEF Asked, Inventory!Idle
      <4>3. h \notin Creator
        <5> SUFFICES ASSUME h \in Creator
                     PROVE  FALSE
          OBVIOUS
        <5>1. h = b
          BY <4>1 DEF BookingOf
        <5> QED BY <2>2, <2>3, <2>6, <4>2, <5>1 DEF CreatorCalls, CreatorAlone
      <4>4. h \in Canceller /\ CancellerDone(h) /\ CancellerAlone(h) /\ HandlerAlone(h)
            /\ request[h].booking = b
        BY <2>1, <4>1, <4>3 DEF IInv, Alone, Handler, BookingOf
      <4>5. http[h] = 200
        BY <4>1, <4>4 DEF CancellerAlone, Quiet, Active
      <4> QED BY <4>4, <4>5 DEF CancellerDone
    <3> QED BY <3>1, <3>2, <3>3
  <2> QED BY <2>4, <2>5, <2>6
<1> QED BY <1>1, InductiveAlone, PTL

\* When nothing fails, the CONFIRMED bookings of a flight that nobody is cancelling
\* fit into the flight: their seats are among those taken in flight_db, and
\* ReserveSeats never sells more than the flight has.
THEOREM ConfirmedSeatsFit == Spec => []NeverOverbooked
<1>1. ASSUME AloneInv, Seats!FiniteSeats, Seats!SeatAccounting
      PROVE  NeverOverbooked
  <2> SUFFICES ASSUME Faults = {}, NEW f \in Flight
               PROVE  Cardinality(UNION {{b} \X (1 .. booking[b].seats) : b \in ConfirmedOn(f)})
                        <= Capacity[f]
    BY DEF NeverOverbooked
  <2> DEFINE Sold == UNION {{b} \X (1 .. booking[b].seats) : b \in ConfirmedOn(f)}
  <2>1. IInv /\ Alone
    BY <1>1 DEF AloneInv
  <2>2. ASSUME NEW b \in ConfirmedOn(f)
        PROVE  b \in Seats!ActiveOn(f) /\ booking[b].seats = reservation[b].seats
    <3>1. b \in Creator /\ booking[b].status = "CONFIRMED" /\ booking[b].flight = f
          /\ \A h \in Canceller : pc[h] \in {"release", "mark"} => request[h].booking # b
      BY DEF ConfirmedOn
    <3>2. CreatorDone(b) /\ CreatorCalls(b) /\ CreatorAlone(b) /\ booking[b] # NoBooking
      BY <2>1, <3>1 DEF IInv, Alone, NoBooking
    <3>3. /\ reservation[b] # Inventory!NoRow
          /\ reservation[b].flight = f /\ booking[b].seats = reservation[b].seats
      BY <3>1, <3>2 DEF CreatorDone
    <3>4. reservation[b].status \in {"ACTIVE", "RELEASED"}
      BY <2>1, <3>1, <3>3 DEF IInv, Typed, TypeOK, Inventory!TypeOK, Inventory!Rows
    <3>5. ASSUME reservation[b].status = "RELEASED"
          PROVE  FALSE
      <4>1. PICK h \in Handler : ReleaseCall(h, 1).answer = "ok" /\ BookingOf(h) = b
        BY <2>1, <3>1, <3>5 DEF Alone, ReleasedAlone
      <4>2. Asked(ReleaseCall(h, 1)) /\ 1 \in 1 .. MaxAttempts
        BY <4>1, SagaAssumption DEF Asked, Inventory!Idle
      <4>3. CASE h \in Creator
        <5>1. h = b /\ HandlerAlone(b)
          BY <2>1, <4>1, <4>3 DEF BookingOf, Alone
        <5> QED BY <3>2, <4>2, <5>1 DEF CreatorCalls, CreatorAlone, HandlerAlone
      <4>4. CASE h \notin Creator
        <5>1. h \in Canceller /\ CancellerDone(h) /\ CancellerAlone(h) /\ request[h].booking = b
          BY <2>1, <4>1, <4>4 DEF IInv, Alone, Handler, BookingOf
        <5>2. http[h] = 200
          BY <3>1, <4>1, <5>1 DEF CancellerAlone
        <5> QED BY <3>1, <5>1, <5>2 DEF CancellerDone
      <4> QED BY <4>3, <4>4
    <3> QED BY <3>1, <3>3, <3>4, <3>5 DEF Seats!ActiveOn
  <2>3. Sold \subseteq Seats!Taken(f)
    BY <2>2 DEF Seats!Taken
  <2>4. IsFiniteSet(Seats!Taken(f)) /\ available[f] + Cardinality(Seats!Taken(f)) = Capacity[f]
    <3>1. IsFiniteSet(Seats!Taken(f))
      BY <1>1, SameFinite DEF Seats!FiniteSeats
    <3>2. available[f] + Cardinality(Seats!Taken(f)) = Capacity[f]
      BY <1>1, SameFinite DEF Seats!SeatAccounting
    <3> QED BY <3>1, <3>2
  <2>5. IsFiniteSet(Sold) /\ Cardinality(Sold) <= Cardinality(Seats!Taken(f))
    BY <2>3, <2>4, FS_Subset
  <2>6. Cardinality(Sold) \in Nat /\ Cardinality(Seats!Taken(f)) \in Nat
    BY <2>4, <2>5, FS_CardinalityType
  <2>7. available[f] \in Nat /\ Capacity[f] \in Nat
    BY <2>1, SagaAssumption DEF IInv, Typed, TypeOK, Inventory!TypeOK
  <2>8. ASSUME NEW s \in Nat, NEW t \in Nat, NEW v \in Nat, s <= t, v + t = Capacity[f]
        PROVE  s <= Capacity[f]
    BY <2>7, <2>8
  <2> QED BY <2>4, <2>5, <2>6, <2>7, <2>8
<1> QED BY <1>1, InductiveAlone, SeatsAccountedFor, PTL
=============================================================================
