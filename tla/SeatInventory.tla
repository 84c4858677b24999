--------------------------- MODULE SeatInventory ---------------------------
(***************************************************************************)
(* What flight_service promises about seats, with every call indivisible.  *)
(*                                                                         *)
(* A caller is one server-side execution of an RPC.  It is invoked, takes  *)
(* effect (or is refused, or fails) in one step, and is returned.  A call  *)
(* that took effect may still be answered "error": a COMMIT whose          *)
(* acknowledgement is lost is indistinguishable from one that never        *)
(* happened.  FlightStore shows that the SQL statements of the code        *)
(* implement this; BookingSaga is built on it.                             *)
(***************************************************************************)
EXTENDS Naturals, FiniteSets

CONSTANTS
  Flight,       \* flight ids a request may carry
  Scheduled,    \* those that exist with status SCHEDULED; any other is refused alike
  Booking,      \* booking ids
  Caller,       \* executions of ReserveSeats / ReleaseReservation
  Capacity,     \* total_seats of each flight, all of them free at first
  PartySize     \* the seat counts requested

ASSUME InventoryAssumption ==
  /\ Scheduled \subseteq Flight
  /\ Capacity \in [Flight -> Nat]
  /\ PartySize \subseteq Nat \ {0}

VARIABLES
  available,    \* flights.available_seats
  version,      \* flights.version
  reservation,  \* seat_reservations, keyed by its UNIQUE booking_id
  call          \* what each caller was asked and what it answers

vars == <<available, version, reservation, call>>

\* A booking id without a row, and a row.
NoRow == [status |-> "ABSENT"]
Row(f, n, s) == [flight |-> f, seats |-> n, status |-> s]
Rows == [flight : Flight, seats : PartySize, status : {"ACTIVE", "RELEASED"}]

ReserveRequest == [op : {"reserve"}, flight : Flight, booking : Booking, seats : PartySize]
ReleaseRequest == [op : {"release"}, booking : Booking]
Request == ReserveRequest \union ReleaseRequest

\* The errors of the store, and "error" for everything grpcserver maps to
\* codes.Internal.
Answers == {"ok", "not_found", "no_seats", "already_exists", "error"}
Idle == [answer |-> "idle"]
Calls == {Idle} \union [req : Request, answer : Answers \union {"pending"}]

Pending(c) == call[c].answer = "pending"
Answer(c, a) == call' = [call EXCEPT ![c].answer = a]

Init ==
  /\ available = Capacity
  /\ version = [f \in Flight |-> 0]
  /\ reservation = [b \in Booking |-> NoRow]
  /\ call = [c \in Caller |-> Idle]

Invoke(c, r) ==
  /\ call[c] = Idle
  /\ call' = [call EXCEPT ![c] = [req |-> r, answer |-> "pending"]]
  /\ UNCHANGED <<available, version, reservation>>

Return(c) ==
  /\ call[c].answer \in Answers
  /\ call' = [call EXCEPT ![c] = Idle]
  /\ UNCHANGED <<available, version, reservation>>

\* The call is rolled back: a statement failed, its context ended, the server died.
Fail(c) ==
  /\ Pending(c)
  /\ Answer(c, "error")
  /\ UNCHANGED <<available, version, reservation>>

RefuseReserve(c) ==
  LET r == call[c].req IN
  /\ Pending(c)
  /\ r.op = "reserve"
  /\ \/ /\ r.flight \notin Scheduled
        /\ Answer(c, "not_found")
     \/ /\ r.flight \in Scheduled
        /\ available[r.flight] < r.seats
        /\ Answer(c, "no_seats")
     \/ /\ r.flight \in Scheduled
        /\ available[r.flight] >= r.seats    \* the seats are looked at first
        /\ reservation[r.booking] # NoRow
        /\ Answer(c, "already_exists")
  /\ UNCHANGED <<available, version, reservation>>

\* The effect of a granted reservation, acknowledged or not.
Take(c, r) ==
  /\ available' = [available EXCEPT ![r.flight] = @ - r.seats]
  /\ version' = [version EXCEPT ![r.flight] = @ + 1]
  /\ reservation' = [reservation EXCEPT ![r.booking] = Row(r.flight, r.seats, "ACTIVE")]
  /\ \E a \in {"ok", "error"} : Answer(c, a)

\* Mutants of Reserve: without the check of the free seats, of the booking id.
ReserveOversold(c) ==
  LET r == call[c].req IN
  /\ Pending(c)
  /\ r.op = "reserve"
  /\ r.flight \in Scheduled
  /\ reservation[r.booking] = NoRow
  /\ Take(c, r)
ReserveAgain(c) ==
  LET r == call[c].req IN
  /\ Pending(c)
  /\ r.op = "reserve"
  /\ r.flight \in Scheduled
  /\ available[r.flight] >= r.seats
  /\ Take(c, r)

Reserve(c) ==
  LET r == call[c].req IN
  /\ Pending(c)
  /\ r.op = "reserve"
  /\ r.flight \in Scheduled
  /\ available[r.flight] >= r.seats
  /\ reservation[r.booking] = NoRow
  /\ Take(c, r)

RefuseRelease(c) ==
  LET r == call[c].req IN
  /\ Pending(c)
  /\ r.op = "release"
  /\ reservation[r.booking].status # "ACTIVE"
  /\ Answer(c, "not_found")
  /\ UNCHANGED <<available, version, reservation>>

\* The effect of a cancellation, acknowledged or not.
GiveBack(c, b) ==
  LET row == reservation[b] IN
  /\ available' = [available EXCEPT ![row.flight] = @ + row.seats]
  /\ version' = [version EXCEPT ![row.flight] = @ + 1]
  /\ reservation' = [reservation EXCEPT ![b].status = "RELEASED"]
  /\ \E a \in {"ok", "error"} : Answer(c, a)

\* Mutant of Release: without the check of the status.
ReleaseAgain(c) ==
  LET b == call[c].req.booking IN
  /\ Pending(c)
  /\ call[c].req.op = "release"
  /\ reservation[b] # NoRow
  /\ GiveBack(c, b)

Release(c) ==
  LET b == call[c].req.booking IN
  /\ Pending(c)
  /\ call[c].req.op = "release"
  /\ reservation[b].status = "ACTIVE"
  /\ GiveBack(c, b)

\* The steps a call takes between being invoked and being answered.
Decide(c) == Reserve(c) \/ RefuseReserve(c) \/ Release(c) \/ RefuseRelease(c) \/ Fail(c)

Next ==
  \E c \in Caller :
    \/ \E r \in Request : Invoke(c, r)
    \/ Decide(c)
    \/ Return(c)

Spec == Init /\ [][Next]_vars
-----------------------------------------------------------------------------
(* Properties *)

\* Every variable has its type; in particular available_seats never goes below
\* zero, the CHECK of migrations/0001_init.up.sql.
TypeOK ==
  /\ available \in [Flight -> Nat]
  /\ version \in [Flight -> Nat]
  /\ reservation \in [Booking -> Rows \union {NoRow}]
  /\ call \in [Caller -> Calls]

\* The seats of flight f that are taken, one element per seat.
ActiveOn(f) == {b \in Booking : reservation[b].status = "ACTIVE" /\ reservation[b].flight = f}
Taken(f) == UNION {{b} \X (1 .. reservation[b].seats) : b \in ActiveOn(f)}

\* No seat is sold twice and none is lost: whatever is retried, refused or
\* answered with an error, the free seats and the ACTIVE reservations of a
\* flight make up its capacity (store.go ReserveSeats and ReleaseReservation).
SeatAccounting ==
  \A f \in Flight : available[f] + Cardinality(Taken(f)) = Capacity[f]

\* A reservation lives once: it is inserted ACTIVE, it may become RELEASED for
\* the same flight and seats, and a RELEASED row is never revived, so a late or
\* repeated ReserveSeats cannot take back seats that a cancellation freed.
ReservationLifecycle ==
  [][\A b \in Booking :
       reservation'[b] # reservation[b] =>
         \/ reservation[b] = NoRow /\ reservation'[b].status = "ACTIVE"
         \/ /\ reservation[b].status = "ACTIVE"
            /\ reservation'[b] = [reservation[b] EXCEPT !.status = "RELEASED"]]_vars
=============================================================================
