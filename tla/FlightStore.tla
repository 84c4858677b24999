---------------------------- MODULE FlightStore ----------------------------
(***************************************************************************)
(* internal/store/store.go of flight_service, statement by statement: the  *)
(* transactions of ReserveSeats and ReleaseReservation on PostgreSQL at    *)
(* READ COMMITTED, with its row locks, the UNIQUE index on booking_id and  *)
(* the CHECKs of the schema.  An action is one SQL statement together with *)
(* the Go code up to the next one.                                         *)
(*                                                                         *)
(* available, version and reservation are the committed rows; what a       *)
(* transaction has written and not committed is in newFlight and newRow,   *)
(* and is thrown away when it rolls back.                                  *)
(***************************************************************************)
EXTENDS Naturals, FiniteSets

CONSTANTS Flight, Scheduled, Booking, Caller, Capacity, PartySize,
          Free        \* the holder of a lock nobody holds

ASSUME StoreAssumption ==
  /\ Scheduled \subseteq Flight
  /\ Capacity \in [Flight -> Nat]
  /\ PartySize \subseteq Nat \ {0}
  /\ Free \notin Caller

VARIABLES
  available, version, reservation, call,   \* as in SeatInventory
  pc,          \* the last statement a transaction completed
  flightLock,  \* holder of the row lock on a flight
  rowLock,     \* holder of the lock on a reservation row or on its unique key
  seen,        \* the reservation row ReleaseReservation has read
  newFlight,   \* the flight row a transaction has written
  newRow       \* the reservation row a transaction has written

committed == <<available, version, reservation>>
locks == <<flightLock, rowLock>>
writes == <<seen, newFlight, newRow>>
vars == <<committed, call, pc, locks, writes>>

Inventory == INSTANCE SeatInventory

NoRow == Inventory!NoRow
NoWrite == [written |-> FALSE]

Req(c) == call[c].req
Pending(c) == Inventory!Pending(c)

\* Caller c, executing `op`, has completed statement `s`.
At(c, op, s) == Pending(c) /\ Req(c).op = op /\ pc[c] = s

Init ==
  /\ Inventory!Init
  /\ pc = [c \in Caller |-> "start"]
  /\ flightLock = [f \in Flight |-> Free]
  /\ rowLock = [b \in Booking |-> Free]
  /\ seen = [c \in Caller |-> NoRow]
  /\ newFlight = [c \in Caller |-> NoWrite]
  /\ newRow = [c \in Caller |-> NoRow]

Invoke(c, r) ==
  /\ Inventory!Invoke(c, r)
  /\ UNCHANGED <<pc, locks, writes>>

Return(c) ==
  /\ Inventory!Return(c)
  /\ UNCHANGED <<pc, locks, writes>>

-----------------------------------------------------------------------------
(* The end of a transaction. *)

\* Mutant: the transaction is never ended (no deferred Rollback).
StillLocked(lock, c) == lock
Unlocked(lock, c) == [k \in DOMAIN lock |-> IF lock[k] = c THEN Free ELSE lock[k]]

Finish(c, answer) ==
  /\ Inventory!Answer(c, answer)
  /\ pc' = [pc EXCEPT ![c] = "start"]
  /\ flightLock' = Unlocked(flightLock, c)
  /\ rowLock' = Unlocked(rowLock, c)
  /\ seen' = [seen EXCEPT ![c] = NoRow]
  /\ newFlight' = [newFlight EXCEPT ![c] = NoWrite]
  /\ newRow' = [newRow EXCEPT ![c] = NoRow]

\* The deferred Rollback, after an early return.
Rollback(c, answer) == Finish(c, answer) /\ UNCHANGED committed

\* A statement fails, the context is done or a process dies: PostgreSQL rolls back.
Abort(c) == Pending(c) /\ Rollback(c, "error")

\* The caller learns of the commit, or only of an error while it happened.
Commit(c) ==
  LET f == newFlight[c].flight IN
  /\ Pending(c)
  /\ pc[c] = "written"
  /\ available' = [available EXCEPT ![f] = newFlight[c].available]
  /\ version' = [version EXCEPT ![f] = newFlight[c].version]
  /\ reservation' = [reservation EXCEPT ![Req(c).booking] = newRow[c]]
  /\ \E a \in {"ok", "error"} : Finish(c, a)

-----------------------------------------------------------------------------
(* UPDATE flights: it locks the row (or has it), reads the committed       *)
(* counts, and the schema CHECKs the new one.                              *)

UpdateFlight(c, f, seats) ==
  /\ flightLock[f] \in {Free, c}
  /\ seats \in 0 .. Capacity[f]
  /\ flightLock' = [flightLock EXCEPT ![f] = c]
  /\ newFlight' = [newFlight EXCEPT ![c] = [written |-> TRUE, flight |-> f,
                     available |-> seats, version |-> version[f] + 1]]
  /\ pc' = [pc EXCEPT ![c] = "updated"]
  /\ UNCHANGED <<committed, call, rowLock, seen, newRow>>

-----------------------------------------------------------------------------
(* ReserveSeats *)

\* SELECT available_seats, status ... FOR UPDATE waits for the row lock, then
\* sees the latest committed row.
\* Mutant: without FOR UPDATE.
ReadFlight(c) ==
  LET r == Req(c) IN
  /\ At(c, "reserve", "start")
  /\ \/ r.flight \notin Scheduled /\ Rollback(c, "not_found")
     \/ /\ r.flight \in Scheduled
        /\ available[r.flight] < r.seats
        /\ Rollback(c, "no_seats")
     \/ /\ r.flight \in Scheduled
        /\ available[r.flight] >= r.seats
        /\ pc' = [pc EXCEPT ![c] = "locked"]
        /\ UNCHANGED <<committed, call, locks, writes>>

LockFlight(c) ==
  LET r == Req(c) IN
  /\ At(c, "reserve", "start")
  /\ flightLock[r.flight] = Free
  /\ \/ r.flight \notin Scheduled /\ Rollback(c, "not_found")
     \/ /\ r.flight \in Scheduled
        /\ available[r.flight] < r.seats
        /\ Rollback(c, "no_seats")
     \/ /\ r.flight \in Scheduled
        /\ available[r.flight] >= r.seats
        /\ flightLock' = [flightLock EXCEPT ![r.flight] = c]
        /\ pc' = [pc EXCEPT ![c] = "locked"]
        /\ UNCHANGED <<committed, call, rowLock, writes>>

\* A plain SELECT sees committed rows only and locks nothing.
CheckBooking(c) ==
  /\ At(c, "reserve", "locked")
  /\ \/ reservation[Req(c).booking] # NoRow /\ Rollback(c, "already_exists")
     \/ /\ reservation[Req(c).booking] = NoRow
        /\ pc' = [pc EXCEPT ![c] = "checked"]
        /\ UNCHANGED <<committed, call, locks, writes>>

TakeSeats(c) ==
  LET r == Req(c) IN
  /\ At(c, "reserve", "checked")
  /\ UpdateFlight(c, r.flight, available[r.flight] - r.seats)

\* The insert waits while another transaction holds the key; a key that has a
\* committed row by now is a unique violation.
InsertReservation(c) ==
  LET r == Req(c) IN
  /\ At(c, "reserve", "updated")
  /\ \/ reservation[r.booking] # NoRow /\ Rollback(c, "error")
     \/ /\ reservation[r.booking] = NoRow
        /\ rowLock[r.booking] = Free
        /\ rowLock' = [rowLock EXCEPT ![r.booking] = c]
        /\ newRow' = [newRow EXCEPT ![c] = Inventory!Row(r.flight, r.seats, "ACTIVE")]
        /\ pc' = [pc EXCEPT ![c] = "written"]
        /\ UNCHANGED <<committed, call, flightLock, seen, newFlight>>

-----------------------------------------------------------------------------
(* ReleaseReservation *)

\* The row is locked and copied, and the transaction goes on.
HoldReservation(c, b) ==
  /\ rowLock[b] = Free
  /\ rowLock' = [rowLock EXCEPT ![b] = c]
  /\ seen' = [seen EXCEPT ![c] = reservation[b]]
  /\ pc' = [pc EXCEPT ![c] = "checked"]
  /\ UNCHANGED <<committed, call, flightLock, newFlight, newRow>>

\* Mutants: without the check of the status; without FOR UPDATE.
LockAnyReservation(c) ==
  LET b == Req(c).booking IN
  /\ At(c, "release", "start")
  /\ \/ reservation[b] = NoRow /\ Rollback(c, "not_found")
     \/ reservation[b] # NoRow /\ HoldReservation(c, b)
ReadReservation(c) ==
  LET b == Req(c).booking IN
  /\ At(c, "release", "start")
  /\ \/ reservation[b].status # "ACTIVE" /\ Rollback(c, "not_found")
     \/ /\ reservation[b].status = "ACTIVE"
        /\ seen' = [seen EXCEPT ![c] = reservation[b]]
        /\ pc' = [pc EXCEPT ![c] = "checked"]
        /\ UNCHANGED <<committed, call, locks, newFlight, newRow>>

LockReservation(c) ==
  LET b == Req(c).booking IN
  /\ At(c, "release", "start")
  /\ \/ reservation[b] = NoRow /\ Rollback(c, "not_found")
     \/ /\ reservation[b].status = "RELEASED"
        /\ rowLock[b] = Free
        /\ Rollback(c, "not_found")
     \/ reservation[b].status = "ACTIVE" /\ HoldReservation(c, b)

GiveSeatsBack(c) ==
  /\ At(c, "release", "checked")
  /\ UpdateFlight(c, seen[c].flight, available[seen[c].flight] + seen[c].seats)

MarkReleased(c) ==
  /\ At(c, "release", "updated")
  /\ newRow' = [newRow EXCEPT ![c] = [seen[c] EXCEPT !.status = "RELEASED"]]
  /\ pc' = [pc EXCEPT ![c] = "written"]
  /\ UNCHANGED <<committed, call, locks, seen, newFlight>>

-----------------------------------------------------------------------------
Statement(c) ==
  \/ LockFlight(c) \/ CheckBooking(c) \/ TakeSeats(c) \/ InsertReservation(c)
  \/ LockReservation(c) \/ GiveSeatsBack(c) \/ MarkReleased(c)
  \/ Commit(c)

Next ==
  \E c \in Caller :
    \/ \E r \in Inventory!Request : Invoke(c, r)
    \/ Statement(c)
    \/ Abort(c)
    \/ Return(c)

Spec == Init /\ [][Next]_vars

\* PostgreSQL queues the waiters of a lock, so one that can be granted again and
\* again is granted.  Nothing obliges a call to be made, aborted or returned.
FairSpec == Spec /\ \A c \in Caller : SF_vars(Statement(c))
-----------------------------------------------------------------------------
(* Properties *)

FlightWrites == [written : {TRUE}, flight : Flight, available : Nat, version : Nat]

\* Every variable has its type.
TypeOK ==
  /\ Inventory!TypeOK
  /\ pc \in [Caller -> {"start", "locked", "checked", "updated", "written"}]
  /\ flightLock \in [Flight -> Caller \union {Free}]
  /\ rowLock \in [Booking -> Caller \union {Free}]
  /\ seen \in [Caller -> Inventory!Rows \union {NoRow}]
  /\ newFlight \in [Caller -> FlightWrites \union {NoWrite}]
  /\ newRow \in [Caller -> Inventory!Rows \union {NoRow}]

\* The statements behave as one indivisible call each, whatever they are
\* interleaved with: store.go keeps the promise of SeatInventory, accounting of
\* seats and life cycle of a reservation included.
ImplementsInventory == Inventory!Spec

\* What a transaction is about to commit was computed from rows that are still
\* the committed ones: the row locks leave no room for a lost update or for a
\* reservation that is inserted or released twice.
WritesAreCurrent ==
  \A c \in Caller :
    /\ newFlight[c] # NoWrite =>
         LET f == newFlight[c].flight IN
         /\ flightLock[f] = c
         /\ newFlight[c].version = version[f] + 1
         /\ newFlight[c].available =
              IF Req(c).op = "reserve" THEN available[f] - Req(c).seats
                                       ELSE available[f] + seen[c].seats
    /\ seen[c] # NoRow => seen[c] = reservation[Req(c).booking]
    /\ newRow[c] # NoRow => /\ rowLock[Req(c).booking] = c
                            /\ newRow[c].status = "ACTIVE" => reservation[Req(c).booking] = NoRow

\* The callers whose locks c needs for its next statement.
WaitsFor(c) ==
  LET heldBy(l) == {l} \ {Free, c} IN
  CASE At(c, "reserve", "start") \/ At(c, "reserve", "checked") -> heldBy(flightLock[Req(c).flight])
    [] At(c, "reserve", "updated") /\ reservation[Req(c).booking] = NoRow ->
         heldBy(rowLock[Req(c).booking])
    [] At(c, "release", "start") /\ reservation[Req(c).booking] # NoRow ->
         heldBy(rowLock[Req(c).booking])
    [] At(c, "release", "checked") -> heldBy(flightLock[seen[c].flight])
    [] OTHER -> {}

\* No circle of transactions waits for itself: ReserveSeats locks a flight and
\* then a booking, ReleaseReservation a booking and then its flight, and still
\* PostgreSQL never has to break a deadlock between them.
NoDeadlock ==
  \A S \in (SUBSET Caller) \ {{}} : \E c \in S : WaitsFor(c) \intersect S = {}

\* Every call that is made is answered, although calls queue for row locks and
\* none gives up: the lock order of the two operations cannot starve one.
CallsAreAnswered ==
  \A c \in Caller : Pending(c) ~> ~Pending(c)
=============================================================================
