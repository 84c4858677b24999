---------------------------- MODULE BookingSaga ----------------------------
(***************************************************************************)
(* POST /bookings and POST /bookings/{id}/cancel of booking_service: the   *)
(* handlers of internal/http/handlers.go, the retried RPCs they make       *)
(* (callWithRetry) and the two databases they change, which no transaction *)
(* spans.                                                                  *)
(*                                                                         *)
(* flight_service is SeatInventory: an attempt of an RPC is one caller of  *)
(* it.  The handler may give an attempt up while flight_service is still   *)
(* to execute it, so attempts take effect late, and out of order.          *)
(***************************************************************************)
EXTENDS Naturals, FiniteSets

CONSTANTS
  Flight, Scheduled, Capacity, PartySize,   \* as in SeatInventory
  Creator,      \* POST /bookings requests; each makes one booking id of its own
  Canceller,    \* POST /bookings/{id}/cancel requests
  SeatCount,    \* seat counts in request bodies
  User,         \* the user_id of a body: "uuid", or "text" for any other string
  MaxAttempts,  \* attempts of one RPC (3)
  Scenarios     \* what clients ask for and what may fail, see Init

CreateRequest == [kind : {"create"}, flight : Flight, seats : SeatCount, user : User]

\* Lost or late replies and an open breaker; failing statements; clients that
\* disconnect; booking_service dying.
AllFaults == {"net", "db", "disconnect", "crash"}

ASSUME SagaAssumption ==
  /\ Scheduled \subseteq Flight
  /\ Creator \intersect Canceller = {}
  /\ Capacity \in [Flight -> Nat]
  /\ PartySize = SeatCount \ {0} /\ SeatCount \subseteq Nat
  /\ User \subseteq {"uuid", "text"}
  /\ MaxAttempts \in Nat \ {0}
  /\ \A s \in Scenarios :
       /\ s.faults \subseteq AllFaults
       /\ s.handlers \subseteq Creator \union Canceller
       /\ s.bodies \subseteq CreateRequest

VARIABLES
  scenario,   \* the member of Scenarios this behaviour is about, constant
  available, version, reservation, call,   \* flight_service: SeatInventory
  booking,    \* the bookings table of booking_db
  pc,         \* what a handler does next, or waits for
  request,    \* the HTTP request it serves
  attempt,    \* the attempt of its current RPC that is outstanding, 0 before the first
  gone,       \* its client has disconnected: r.Context() is done
  http        \* the status code it has written

Handler == Creator \union Canceller
Attempt == Handler \X {"reserve", "release"} \X (1 .. MaxAttempts)

flightService == <<available, version, reservation, call>>
handlers == <<pc, request, attempt, gone, http>>
vars == <<scenario, flightService, booking, handlers>>

Faults == scenario.faults

Inventory == INSTANCE SeatInventory WITH Booking <- Creator, Caller <- Attempt

NoBooking == [status |-> "NONE"]
NoRequest == [kind |-> "none"]

Init ==
  /\ scenario \in Scenarios
  /\ Inventory!Init
  /\ booking = [b \in Creator |-> NoBooking]
  /\ pc = [h \in Handler |-> "none"]
  /\ request = [h \in Handler |-> NoRequest]
  /\ attempt = [h \in Handler |-> 0]
  /\ gone = [h \in Handler |-> FALSE]
  /\ http = [h \in Handler |-> 0]

Active(h) == pc[h] \notin {"none", "done", "dead"}

Goto(h, place) ==
  /\ pc' = [pc EXCEPT ![h] = place]
  /\ attempt' = [attempt EXCEPT ![h] = 0]
  /\ UNCHANGED <<request, gone, http>>

Respond(h, code) ==
  /\ pc' = [pc EXCEPT ![h] = "done"]
  /\ attempt' = [attempt EXCEPT ![h] = 0]
  /\ http' = [http EXCEPT ![h] = code]
  /\ UNCHANGED <<request, gone>>

-----------------------------------------------------------------------------
(* One RPC of a handler: callWithRetry *)

Op(h) == IF pc[h] = "reserve" THEN "reserve" ELSE "release"
Current(h) == <<h, Op(h), attempt[h]>>
Calling(h) == pc[h] \in {"reserve", "compensate", "release"}

\* A creator reserves for, and compensates, the id it has made; a canceller
\* releases the id of its path.
BookingOf(h) == IF h \in Creator THEN h ELSE request[h].booking
Message(h) ==
  IF pc[h] = "reserve"
  THEN [op |-> "reserve", flight |-> request[h].flight, booking |-> h, seats |-> request[h].seats]
  ELSE [op |-> "release", booking |-> BookingOf(h)]

Send(h, k) ==
  /\ Inventory!Invoke(<<h, Op(h), k>>, Message(h))
  /\ attempt' = [attempt EXCEPT ![h] = k]
  /\ UNCHANGED <<booking, pc, request, gone, http>>

FirstAttempt(h) ==
  /\ Calling(h) /\ attempt[h] = 0 /\ ~gone[h]
  /\ Send(h, 1)

\* The attempt ended Unavailable or DeadlineExceeded, executed or not.
NextAttempt(h) ==
  /\ Calling(h) /\ attempt[h] \in 1 .. MaxAttempts - 1 /\ ~gone[h]
  /\ "net" \in Faults
  /\ Send(h, attempt[h] + 1)

\* Mutant of Outcomes: attempts have no deadline.
OutcomesWithoutDeadline(h) ==
  (IF attempt[h] > 0 THEN {call[Current(h)].answer} \intersect Inventory!Answers ELSE {})
  \union (IF "net" \in Faults /\ attempt[h] = 0 THEN {"unavailable"} ELSE {})
  \union (IF gone[h] THEN {"canceled"} ELSE {})

\* The outcomes an RPC may end with now: the reply to the attempt that is
\* outstanding; Unavailable, after the last attempt or from an open breaker
\* before the first; Canceled, when the client has disconnected.
Outcomes(h) ==
  (IF attempt[h] > 0 THEN {call[Current(h)].answer} \intersect Inventory!Answers ELSE {})
  \union (IF "net" \in Faults /\ attempt[h] \in {0, MaxAttempts} THEN {"unavailable"} ELSE {})
  \union (IF gone[h] THEN {"canceled"} ELSE {})

\* writeGrpcError
HttpStatus(outcome) ==
  CASE outcome = "not_found" -> 404
    [] outcome \in {"no_seats", "already_exists"} -> 409
    [] outcome = "unavailable" -> 503
    [] outcome \in {"error", "canceled"} -> 500

-----------------------------------------------------------------------------
(* CreateBooking *)

\* The statement may fail, with or without having taken effect; after the client
\* has gone it may not even be sent.
MayFail(h) == "db" \in Faults \/ gone[h]

StartCreate(h, r) ==
  /\ pc[h] = "none"
  /\ request' = [request EXCEPT ![h] = r]
  /\ pc' = [pc EXCEPT ![h] = "lookup"]
  /\ UNCHANGED <<flightService, booking, attempt, gone, http>>

\* Validation, then GetFlight: an unknown flight is refused here, one that is
\* known but not SCHEDULED only by ReserveSeats.
LookUpFlight(h) ==
  /\ pc[h] = "lookup"
  /\ \/ request[h].seats = 0 /\ Respond(h, 400)
     \/ request[h].seats > 0 /\ Goto(h, "reserve")
     \/ request[h].seats > 0 /\ request[h].flight \notin Scheduled /\ Respond(h, 404)
     \/ request[h].seats > 0 /\ "net" \in Faults /\ Respond(h, 503)
     \/ request[h].seats > 0 /\ MayFail(h) /\ Respond(h, 500)
  /\ UNCHANGED <<flightService, booking>>

\* Mutant of Reserved: the error is ignored.
ReservedAnyhow(h) ==
  /\ pc[h] = "reserve"
  /\ Outcomes(h) # {}
  /\ Goto(h, "insert")
  /\ UNCHANGED <<flightService, booking>>

\* ReserveSeats has ended; AlreadyExists is the success of an earlier attempt.
Reserved(h) ==
  /\ pc[h] = "reserve"
  /\ \E o \in Outcomes(h) :
       IF o \in {"ok", "already_exists"} THEN Goto(h, "insert") ELSE Respond(h, HttpStatus(o))
  /\ UNCHANGED <<flightService, booking>>

NewBooking(h) ==
  [flight |-> request[h].flight, seats |-> request[h].seats, status |-> "CONFIRMED"]
Insert(h) == booking' = [booking EXCEPT ![h] = NewBooking(h)]

\* Mutant of InsertBooking: the reservation is left alone when the insert fails.
InsertBookingOnly(h) ==
  /\ pc[h] = "insert"
  /\ \/ request[h].user = "uuid" /\ Insert(h) /\ Respond(h, 201)
     \/ request[h].user = "uuid" /\ MayFail(h) /\ Insert(h) /\ Respond(h, 500)
     \/ (MayFail(h) \/ request[h].user # "uuid") /\ UNCHANGED booking /\ Respond(h, 500)
  /\ UNCHANGED flightService

\* user_id is a uuid column: the insert of any other string fails.
InsertBooking(h) ==
  /\ pc[h] = "insert"
  /\ \/ request[h].user = "uuid" /\ Insert(h) /\ Respond(h, 201)
     \/ request[h].user = "uuid" /\ MayFail(h) /\ Insert(h) /\ Goto(h, "compensate")
     \/ (MayFail(h) \/ request[h].user # "uuid") /\ UNCHANGED booking /\ Goto(h, "compensate")
  /\ UNCHANGED flightService

\* The result of the compensating ReleaseReservation is ignored.
Compensated(h) ==
  /\ pc[h] = "compensate"
  /\ Outcomes(h) # {}
  /\ Respond(h, 500)
  /\ UNCHANGED <<flightService, booking>>

-----------------------------------------------------------------------------
(* CancelBooking *)

StartCancel(h, b) ==
  /\ pc[h] = "none"
  /\ request' = [request EXCEPT ![h] = [kind |-> "cancel", booking |-> b]]
  /\ pc' = [pc EXCEPT ![h] = "load"]
  /\ UNCHANGED <<flightService, booking, attempt, gone, http>>

\* Mutant of LoadBooking: any error of GetBooking is taken for "no rows".
LoadBookingAnyError(h) ==
  LET b == booking[request[h].booking] IN
  /\ pc[h] = "load"
  /\ \/ b = NoBooking /\ Respond(h, 404)
     \/ b.status = "CANCELLED" /\ Respond(h, 400)
     \/ b.status = "CONFIRMED" /\ Goto(h, "release")
     \/ MayFail(h) /\ Respond(h, 404)
  /\ UNCHANGED <<flightService, booking>>

LoadBooking(h) ==
  LET b == booking[request[h].booking] IN
  /\ pc[h] = "load"
  /\ \/ b = NoBooking /\ Respond(h, 404)
     \/ b.status = "CANCELLED" /\ Respond(h, 400)
     \/ b.status = "CONFIRMED" /\ Goto(h, "release")
     \/ MayFail(h) /\ Respond(h, 500)
  /\ UNCHANGED <<flightService, booking>>

Released(h) ==
  /\ pc[h] = "release"
  /\ \E o \in Outcomes(h) :
       IF o = "ok" THEN Goto(h, "mark") ELSE Respond(h, HttpStatus(o))
  /\ UNCHANGED <<flightService, booking>>

\* Mutant of MarkCancelled: the error is ignored.
MarkCancelledAnyhow(h) ==
  LET Cancel == booking' = [booking EXCEPT ![request[h].booking].status = "CANCELLED"] IN
  /\ pc[h] = "mark"
  /\ Cancel \/ (MayFail(h) /\ UNCHANGED booking)
  /\ Respond(h, 200)
  /\ UNCHANGED flightService

\* UpdateBookingStatus
MarkCancelled(h) ==
  LET Cancel == booking' = [booking EXCEPT ![request[h].booking].status = "CANCELLED"] IN
  /\ pc[h] = "mark"
  /\ \/ Cancel /\ Respond(h, 200)
     \/ MayFail(h) /\ (Cancel \/ UNCHANGED booking) /\ Respond(h, 500)
  /\ UNCHANGED flightService

-----------------------------------------------------------------------------
(* The environment, and flight_service executing attempts *)

Disconnect(h) ==
  /\ "disconnect" \in Faults
  /\ Active(h) /\ ~gone[h]
  /\ gone' = [gone EXCEPT ![h] = TRUE]
  /\ UNCHANGED <<flightService, booking, pc, request, attempt, http>>

\* docker-compose restarts the process; no handler resumes.
Crash ==
  /\ "crash" \in Faults
  /\ \E h \in Handler : Active(h)
  /\ pc' = [h \in Handler |-> IF Active(h) THEN "dead" ELSE pc[h]]
  /\ UNCHANGED <<flightService, booking, request, attempt, gone, http>>

\* Only a database fault makes flight_service answer Internal.
Execute(a) ==
  /\ Inventory!Decide(a)
  /\ "db" \notin Faults => call'[a].answer # "error"
  /\ UNCHANGED <<booking, handlers>>

-----------------------------------------------------------------------------
Start(h) ==
  \/ h \in Creator /\ \E r \in scenario.bodies : StartCreate(h, r)
  \/ h \in Canceller /\ \E b \in Creator \intersect scenario.handlers : StartCancel(h, b)

Step(h) ==
  \/ FirstAttempt(h) \/ NextAttempt(h)
  \/ LookUpFlight(h) \/ Reserved(h) \/ InsertBooking(h) \/ Compensated(h)
  \/ LoadBooking(h) \/ Released(h) \/ MarkCancelled(h)

Next ==
  /\ \/ \E h \in scenario.handlers : Start(h) \/ Step(h) \/ Disconnect(h)
     \/ Crash
     \/ \E a \in Attempt : Execute(a)
  /\ UNCHANGED scenario

Spec == Init /\ [][Next]_vars

\* Handlers run.  Nothing is asked of flight_service: it may leave an attempt
\* unanswered for ever.
FairSpec == Spec /\ \A h \in Handler : WF_vars(Step(h) /\ UNCHANGED scenario)
-----------------------------------------------------------------------------
(* Properties *)

Bookings == [flight : Flight, seats : PartySize, status : {"CONFIRMED", "CANCELLED"}]
CancelRequest == [kind : {"cancel"}, booking : Creator]

\* Every variable has its type.
TypeOK ==
  /\ scenario \in Scenarios
  /\ Inventory!TypeOK
  /\ booking \in [Creator -> Bookings \union {NoBooking}]
  /\ pc \in [Handler -> {"none", "lookup", "reserve", "insert", "compensate",
                         "load", "release", "mark", "done", "dead"}]
  /\ request \in [Handler -> CreateRequest \union CancelRequest \union {NoRequest}]
  /\ attempt \in [Handler -> 0 .. MaxAttempts]
  /\ gone \in [Handler -> BOOLEAN]
  /\ http \in [Handler -> {0, 200, 201, 400, 404, 409, 500, 503}]

\* Every booking in booking_db has a reservation row in flight_db for the same
\* flight and seats, and a CANCELLED one has given them back for good, whatever
\* was lost, retried, executed late or cut short by a crash: CreateBooking
\* inserts last, CancelBooking releases first, and ReserveSeats never revives a
\* reservation.
BookingIsReserved ==
  TypeOK /\ \A b \in Creator : booking[b] # NoBooking =>
    /\ reservation[b] # Inventory!NoRow
    /\ reservation[b].flight = booking[b].flight
    /\ reservation[b].seats = booking[b].seats
    /\ booking[b].status = "CANCELLED" => reservation[b].status = "RELEASED"

\* Nobody is serving a request and no attempt is left to be executed.
Quiet ==
  /\ \A h \in Handler : ~Active(h)
  /\ \A a \in Attempt : ~Inventory!Pending(a)

\* Whatever fails, the two databases do not come apart unnoticed: once the system
\* is quiet, seats held without a CONFIRMED booking, or a CONFIRMED booking
\* without seats, are the doing of a request that died or was answered an error.
Failed(h) == pc[h] = "dead" \/ http[h] \in {404, 409, 500, 503}
DivergenceIsReported ==
  Quiet => \A b \in Creator :
    \/ reservation[b].status = "ACTIVE" <=> booking[b].status = "CONFIRMED"
    \/ Failed(b)
    \/ \E h \in Canceller : Failed(h) /\ request[h] = [kind |-> "cancel", booking |-> b]

\* When nothing but the insert fails, the two databases agree whenever the system is quiet:
\* the seats held are those of the CONFIRMED bookings, for whichever requests
\* raced and whichever insert failed (CreateBooking's compensation included).
SeatsMatchBookings ==
  Faults = {} /\ Quiet => \A b \in Creator :
             reservation[b].status = "ACTIVE" <=> booking[b].status = "CONFIRMED"

\* When nothing fails, seats that are sold twice at the level of bookings are
\* those of a cancellation between its two writes: the CONFIRMED bookings of a
\* flight that nobody is cancelling fit into the flight.
ConfirmedOn(f) ==
  {b \in Creator : booking[b].status = "CONFIRMED" /\ booking[b].flight = f
                     /\ \A h \in Canceller : pc[h] \in {"release", "mark"} => request[h].booking # b}
NeverOverbooked ==
  Faults = {} => \A f \in Flight :
    Cardinality(UNION {{b} \X (1 .. booking[b].seats) : b \in ConfirmedOn(f)}) <= Capacity[f]

\* Every request is answered, even if flight_service never answers: attempts
\* have deadlines and are limited, and no handler waits for another.
RequestsAreAnswered ==
  \A h \in Handler : Active(h) ~> ~Active(h)

\* booking_service.yaml documents the 404 of a cancellation as "Booking not found".
\* CancelBooking also answers 404 to the loser of two cancellations, so what a
\* client may conclude from it is less: there is no such booking, or its seats
\* have been given back.  It never hides a failure that leaves seats taken.
NotFoundHoldsNoSeats ==
  [][\A h \in Canceller :
       http[h] # 404 /\ http'[h] = 404 =>
         LET b == request[h].booking IN
         booking[b] = NoBooking \/ reservation[b].status = "RELEASED"]_vars
=============================================================================
