------------------------- MODULE FlightStoreProofs -------------------------
(* The SQL transactions of flight_service implement SeatInventory, for     *)
(* every set of flights, bookings and concurrent calls.                    *)
EXTENDS FlightStore, TLAPS

USE StoreAssumption

\* What ReserveSeats knows after its first statement: the row it saw is locked and
\* current, and so is what it has written.
ReserveInv(c) ==
  LET r == Req(c) IN
  /\ r.flight \in Scheduled
  /\ flightLock[r.flight] = c
  /\ available[r.flight] >= r.seats
  /\ pc[c] \in {"updated", "written"} =>
       newFlight[c] = [written |-> TRUE, flight |-> r.flight,
                       available |-> available[r.flight] - r.seats,
                       version |-> version[r.flight] + 1]
  /\ pc[c] = "written" =>
       /\ rowLock[r.booking] = c
       /\ reservation[r.booking] = NoRow
       /\ newRow[c] = Inventory!Row(r.flight, r.seats, "ACTIVE")

\* The same for ReleaseReservation.
ReleaseInv(c) ==
  LET b == Req(c).booking
      f == seen[c].flight
  IN
  /\ pc[c] # "locked"
  /\ rowLock[b] = c
  /\ seen[c] = reservation[b]
  /\ seen[c].status = "ACTIVE"
  /\ pc[c] \in {"updated", "written"} =>
       /\ flightLock[f] = c
       /\ newFlight[c] = [written |-> TRUE, flight |-> f,
                          available |-> available[f] + seen[c].seats,
                          version |-> version[f] + 1]
  /\ pc[c] = "written" => newRow[c] = [seen[c] EXCEPT !.status = "RELEASED"]

\* A transaction has written nothing before its UPDATEs, and nothing at all when
\* it is not running.
CallerInv(c) ==
  /\ pc[c] # "start" => Pending(c)
  /\ pc[c] \notin {"updated", "written"} => newFlight[c] = NoWrite
  /\ pc[c] # "written" => newRow[c] = NoRow
  /\ pc[c] = "start" \/ Req(c).op = "reserve" => seen[c] = NoRow
  /\ pc[c] # "start" /\ Req(c).op = "reserve" => ReserveInv(c)
  /\ pc[c] # "start" /\ Req(c).op = "release" => ReleaseInv(c)

\* The inductive invariant.  WritesAreCurrent alone is not inductive: it does not
\* say that a lock is held between the statement that took it and the UPDATE.
IInv == TypeOK /\ \A c \in Caller : CallerInv(c)
-----------------------------------------------------------------------------
(* Types *)

\* A pending call carries a request of its operation.
LEMMA PendingCall ==
  ASSUME TypeOK, NEW c \in Caller, Pending(c)
  PROVE  /\ call[c] \in [req : Inventory!Request, answer : Inventory!Answers \union {"pending"}]
         /\ Req(c) \in Inventory!Request
         /\ Req(c).op \in {"reserve", "release"}
         /\ Req(c).booking \in Booking
         /\ Req(c).op = "reserve" => /\ Req(c) \in Inventory!ReserveRequest
                                     /\ Req(c).flight \in Flight
                                     /\ Req(c).seats \in PartySize
         /\ Req(c).op = "release" => Req(c) \in Inventory!ReleaseRequest
<1>1. call[c] \in [req : Inventory!Request, answer : Inventory!Answers \union {"pending"}]
  BY DEF TypeOK, Inventory!TypeOK, Inventory!Calls, Inventory!Idle, Pending, Inventory!Pending
<1>2. Req(c) \in Inventory!Request
  BY <1>1 DEF Req
<1> QED BY <1>1, <1>2 DEF Inventory!Request, Inventory!ReserveRequest, Inventory!ReleaseRequest

\* The end of a transaction keeps the types, committed rows apart.
LEMMA FinishTypes ==
  ASSUME TypeOK, NEW c \in Caller, Pending(c), NEW a \in Inventory!Answers, Finish(c, a)
  PROVE  /\ call' \in [Caller -> Inventory!Calls]
         /\ pc' \in [Caller -> {"start", "locked", "checked", "updated", "written"}]
         /\ flightLock' \in [Flight -> Caller \union {Free}]
         /\ rowLock' \in [Booking -> Caller \union {Free}]
         /\ seen' \in [Caller -> Inventory!Rows \union {NoRow}]
         /\ newFlight' \in [Caller -> FlightWrites \union {NoWrite}]
         /\ newRow' \in [Caller -> Inventory!Rows \union {NoRow}]
<1>1. call' \in [Caller -> Inventory!Calls]
  BY PendingCall DEF Finish, Inventory!Answer, Inventory!Calls, TypeOK, Inventory!TypeOK
<1>2. /\ flightLock' \in [Flight -> Caller \union {Free}]
      /\ rowLock' \in [Booking -> Caller \union {Free}]
  BY DEF Finish, Unlocked, TypeOK
<1> QED BY <1>1, <1>2 DEF Finish, TypeOK

\* A rollback keeps the types.
LEMMA RollbackTypes ==
  ASSUME TypeOK, NEW c \in Caller, Pending(c), NEW a \in Inventory!Answers, Rollback(c, a)
  PROVE  TypeOK'
<1>1. Finish(c, a) /\ UNCHANGED <<available, version, reservation>>
  BY DEF Rollback, committed
<1> QED BY <1>1, FinishTypes DEF TypeOK, Inventory!TypeOK
-----------------------------------------------------------------------------
(* Steps of other callers *)

\* What c does to the rows that d has not locked does not matter to d.
Undisturbed(d) ==
  /\ pc'[d] = pc[d] /\ call'[d] = call[d]
  /\ seen'[d] = seen[d] /\ newFlight'[d] = newFlight[d] /\ newRow'[d] = newRow[d]
  /\ \A f \in Flight : flightLock[f] = d =>
       flightLock'[f] = d /\ available'[f] = available[f] /\ version'[f] = version[f]
  /\ \A b \in Booking : rowLock[b] = d => rowLock'[b] = d /\ reservation'[b] = reservation[b]

\* A caller is safe as long as nobody touches its own state and the rows it locks.
LEMMA Frame ==
  ASSUME TypeOK, NEW d \in Caller, CallerInv(d), Undisturbed(d)
  PROVE  CallerInv(d)'
<1>1. Req(d)' = Req(d) /\ (Pending(d)' <=> Pending(d))
  BY DEF Undisturbed, Req, Pending, Inventory!Pending
<1>2. CASE pc[d] = "start"
  BY <1>1, <1>2 DEF CallerInv, Undisturbed
<1>3. CASE pc[d] # "start" /\ Req(d).op = "reserve"
  <2>1. Req(d).flight \in Flight /\ Req(d).booking \in Booking
    BY <1>3, PendingCall DEF CallerInv
  <2>2. ReserveInv(d)
    BY <1>3 DEF CallerInv
  <2>3. ReserveInv(d)'
    BY <1>1, <2>1, <2>2 DEF ReserveInv, Undisturbed
  <2> QED BY <1>1, <1>3, <2>3 DEF CallerInv, Undisturbed
<1>4. CASE pc[d] # "start" /\ Req(d).op = "release"
  <2>1. Req(d).booking \in Booking
    BY <1>4, PendingCall DEF CallerInv
  <2>2. ReleaseInv(d)
    BY <1>4 DEF CallerInv
  <2>3. seen[d] \in Inventory!Rows /\ seen[d].flight \in Flight
    BY <2>2 DEF ReleaseInv, TypeOK, Inventory!Rows, NoRow, Inventory!NoRow
  <2>4. ReleaseInv(d)'
    BY <1>1, <2>1, <2>2, <2>3 DEF ReleaseInv, Undisturbed
  <2> QED BY <1>1, <1>4, <2>4 DEF CallerInv, Undisturbed
<1> QED BY <1>2, <1>3, <1>4, PendingCall DEF CallerInv

\* A transaction that ends, having changed only rows it had locked, leaves every
\* caller safe, itself included.
LEMMA FinishKeepsCallers ==
  ASSUME IInv, NEW c \in Caller, Pending(c), NEW a \in Inventory!Answers, Finish(c, a),
         \A f \in Flight : flightLock[f] # c =>
           available'[f] = available[f] /\ version'[f] = version[f],
         \A b \in Booking : rowLock[b] # c => reservation'[b] = reservation[b]
  PROVE  \A d \in Caller : CallerInv(d)'
<1>1. CallerInv(c)'
  BY DEF IInv, TypeOK, Finish, CallerInv
<1>2. ASSUME NEW d \in Caller \ {c}
      PROVE  CallerInv(d)'
  <2>1. /\ pc'[d] = pc[d] /\ seen'[d] = seen[d]
        /\ newFlight'[d] = newFlight[d] /\ newRow'[d] = newRow[d]
    BY DEF IInv, TypeOK, Finish
  <2>2. call'[d] = call[d]
    BY DEF IInv, TypeOK, Inventory!TypeOK, Finish, Inventory!Answer
  <2>3. /\ \A f \in Flight : flightLock[f] = d => flightLock'[f] = d
        /\ \A b \in Booking : rowLock[b] = d => rowLock'[b] = d
    BY DEF IInv, TypeOK, Finish, Unlocked
  <2>4. Undisturbed(d)
    BY <2>1, <2>2, <2>3 DEF Undisturbed
  <2> QED BY <2>4, Frame DEF IInv
<1> QED BY <1>1, <1>2

\* A rollback keeps the invariant.
LEMMA RollbackKeepsInv ==
  ASSUME IInv, NEW c \in Caller, Pending(c), NEW a \in Inventory!Answers, Rollback(c, a)
  PROVE  IInv'
<1>1. TypeOK'
  BY RollbackTypes DEF IInv
<1>2. Finish(c, a) /\ UNCHANGED <<available, version, reservation>>
  BY DEF Rollback, committed
<1>3. \A d \in Caller : CallerInv(d)'
  BY <1>2, FinishKeepsCallers
<1> QED BY <1>1, <1>3 DEF IInv
-----------------------------------------------------------------------------
(* The statements of ReserveSeats and ReleaseReservation *)

\* A statement of c that commits nothing and takes at most free locks leaves the
\* other callers safe.
LEMMA StatementKeepsOthers ==
  ASSUME IInv, NEW c \in Caller, UNCHANGED <<available, version, reservation, call>>,
         \A d \in Caller \ {c} : /\ pc'[d] = pc[d] /\ seen'[d] = seen[d]
                                 /\ newFlight'[d] = newFlight[d] /\ newRow'[d] = newRow[d],
         \A f \in Flight : flightLock[f] \notin {Free, c} => flightLock'[f] = flightLock[f],
         \A b \in Booking : rowLock[b] \notin {Free, c} => rowLock'[b] = rowLock[b],
         NEW d \in Caller \ {c}
  PROVE  CallerInv(d)'
<1>1. Undisturbed(d)
  BY DEF Undisturbed
<1> QED BY <1>1, Frame DEF IInv

\* The UPDATE of a flight, by either operation.
LEMMA UpdateFlightTypes ==
  ASSUME TypeOK, NEW c \in Caller, NEW f \in Flight, NEW n, UpdateFlight(c, f, n)
  PROVE  TypeOK'
<1>1. n \in Nat
  BY DEF UpdateFlight
<1>2. version[f] + 1 \in Nat
  BY DEF TypeOK, Inventory!TypeOK
<1>3. newFlight' \in [Caller -> FlightWrites \union {NoWrite}]
  BY <1>1, <1>2 DEF UpdateFlight, FlightWrites, TypeOK
<1>4. /\ flightLock' \in [Flight -> Caller \union {Free}]
      /\ pc' \in [Caller -> {"start", "locked", "checked", "updated", "written"}]
  BY DEF UpdateFlight, TypeOK
<1> QED BY <1>3, <1>4 DEF UpdateFlight, TypeOK, Inventory!TypeOK, committed

\* LockFlight keeps the invariant.
LEMMA LockFlightKeepsInv ==
  ASSUME IInv, NEW c \in Caller, LockFlight(c)
  PROVE  IInv'
<1>1. CASE \E a \in Inventory!Answers : Rollback(c, a)
  BY <1>1, RollbackKeepsInv DEF LockFlight, At
<1>2. CASE /\ Req(c).flight \in Scheduled
           /\ available[Req(c).flight] >= Req(c).seats
           /\ flightLock' = [flightLock EXCEPT ![Req(c).flight] = c]
           /\ pc' = [pc EXCEPT ![c] = "locked"]
           /\ UNCHANGED <<committed, call, rowLock, writes>>
  <2>1. /\ Req(c).flight \in Flight /\ flightLock[Req(c).flight] = Free
        /\ Pending(c) /\ Req(c).op = "reserve" /\ pc[c] = "start"
    BY PendingCall DEF LockFlight, At, IInv
  <2>2. TypeOK'
    BY <1>2, <2>1 DEF IInv, TypeOK, Inventory!TypeOK, committed, writes
  <2>3. CallerInv(c)'
    <3>1. Req(c)' = Req(c) /\ Pending(c)'
      BY <1>2, <2>1 DEF Req, Pending, Inventory!Pending
    <3>2. pc'[c] = "locked" /\ flightLock'[Req(c).flight] = c
      BY <1>2, <2>1 DEF IInv, TypeOK
    <3>3. ReserveInv(c)'
      BY <1>2, <3>1, <3>2 DEF ReserveInv, committed
    <3> QED BY <1>2, <2>1, <3>1, <3>2, <3>3 DEF IInv, CallerInv, writes
  <2>4. ASSUME NEW d \in Caller \ {c} PROVE CallerInv(d)'
    BY <1>2, <2>1, StatementKeepsOthers DEF IInv, TypeOK, committed, writes
  <2> QED BY <2>2, <2>3, <2>4 DEF IInv
<1> QED BY <1>1, <1>2 DEF LockFlight, Inventory!Answers

\* CheckBooking keeps the invariant.
LEMMA CheckBookingKeepsInv ==
  ASSUME IInv, NEW c \in Caller, CheckBooking(c)
  PROVE  IInv'
<1>1. CASE \E a \in Inventory!Answers : Rollback(c, a)
  BY <1>1, RollbackKeepsInv DEF CheckBooking, At
<1>2. CASE /\ pc' = [pc EXCEPT ![c] = "checked"]
           /\ UNCHANGED <<committed, call, locks, writes>>
  <2>1. Pending(c) /\ Req(c).op = "reserve" /\ pc[c] = "locked"
    BY DEF CheckBooking, At
  <2>2. TypeOK'
    BY <1>2 DEF IInv, TypeOK, Inventory!TypeOK, committed, locks, writes
  <2>3. CallerInv(c)'
    <3>1. Req(c)' = Req(c) /\ Pending(c)' /\ pc'[c] = "checked"
      BY <1>2, <2>1 DEF Req, Pending, Inventory!Pending, IInv, TypeOK
    <3>2. ReserveInv(c)
      BY <2>1 DEF IInv, CallerInv
    <3>3. ReserveInv(c)'
      BY <1>2, <3>1, <3>2 DEF ReserveInv, committed, locks
    <3> QED BY <1>2, <2>1, <3>1, <3>3 DEF IInv, CallerInv, writes
  <2>4. ASSUME NEW d \in Caller \ {c} PROVE CallerInv(d)'
    BY <1>2, StatementKeepsOthers DEF IInv, TypeOK, committed, locks, writes
  <2> QED BY <2>2, <2>3, <2>4 DEF IInv
<1> QED BY <1>1, <1>2 DEF CheckBooking, Inventory!Answers

\* TakeSeats keeps the invariant.
LEMMA TakeSeatsKeepsInv ==
  ASSUME IInv, NEW c \in Caller, TakeSeats(c)
  PROVE  IInv'
<1> DEFINE f == Req(c).flight
           n == available[f] - Req(c).seats
<1>1. /\ Pending(c) /\ Req(c).op = "reserve" /\ pc[c] = "checked"
      /\ UpdateFlight(c, f, n) /\ f \in Flight
  BY PendingCall DEF TakeSeats, At, IInv
<1>2. TypeOK'
  BY <1>1, UpdateFlightTypes DEF IInv
<1>3. CallerInv(c)'
  <2>1. Req(c)' = Req(c) /\ Pending(c)' /\ pc'[c] = "updated"
    BY <1>1 DEF UpdateFlight, Req, Pending, Inventory!Pending, IInv, TypeOK
  <2>2. ReserveInv(c)
    BY <1>1 DEF IInv, CallerInv
  <2>3. /\ newFlight'[c] = [written |-> TRUE, flight |-> f, available |-> n, version |-> version[f] + 1]
        /\ flightLock'[f] = c
    BY <1>1 DEF UpdateFlight, IInv, TypeOK
  <2>4. UNCHANGED <<available, version, reservation, seen, newRow>>
    BY <1>1 DEF UpdateFlight, committed
  <2>5. ReserveInv(c)'
    BY <2>1, <2>2, <2>3, <2>4 DEF ReserveInv
  <2> QED BY <1>1, <2>1, <2>4, <2>5 DEF IInv, CallerInv
<1>4. ASSUME NEW d \in Caller \ {c} PROVE CallerInv(d)'
  BY <1>1, StatementKeepsOthers DEF UpdateFlight, IInv, TypeOK, committed
<1> QED BY <1>2, <1>3, <1>4 DEF IInv

\* InsertReservation keeps the invariant.
LEMMA InsertReservationKeepsInv ==
  ASSUME IInv, NEW c \in Caller, InsertReservation(c)
  PROVE  IInv'
<1>1. CASE \E a \in Inventory!Answers : Rollback(c, a)
  BY <1>1, RollbackKeepsInv DEF InsertReservation, At
<1>2. CASE /\ reservation[Req(c).booking] = NoRow
           /\ rowLock[Req(c).booking] = Free
           /\ rowLock' = [rowLock EXCEPT ![Req(c).booking] = c]
           /\ newRow' = [newRow EXCEPT ![c] = Inventory!Row(Req(c).flight, Req(c).seats, "ACTIVE")]
           /\ pc' = [pc EXCEPT ![c] = "written"]
           /\ UNCHANGED <<committed, call, flightLock, seen, newFlight>>
  <2>1. /\ Pending(c) /\ Req(c).op = "reserve" /\ pc[c] = "updated"
        /\ Req(c).booking \in Booking /\ Req(c).flight \in Flight /\ Req(c).seats \in PartySize
    BY PendingCall DEF InsertReservation, At, IInv
  <2>2. Inventory!Row(Req(c).flight, Req(c).seats, "ACTIVE") \in Inventory!Rows
    BY <2>1 DEF Inventory!Row, Inventory!Rows
  <2>3. TypeOK'
    BY <1>2, <2>1, <2>2 DEF IInv, TypeOK, Inventory!TypeOK, committed
  <2>4. CallerInv(c)'
    <3>1. Req(c)' = Req(c) /\ Pending(c)' /\ pc'[c] = "written"
      BY <1>2, <2>1 DEF Req, Pending, Inventory!Pending, IInv, TypeOK
    <3>2. ReserveInv(c)
      BY <2>1 DEF IInv, CallerInv
    <3>3. /\ rowLock'[Req(c).booking] = c
          /\ newRow'[c] = Inventory!Row(Req(c).flight, Req(c).seats, "ACTIVE")
      BY <1>2, <2>1 DEF IInv, TypeOK
    <3>4. UNCHANGED <<available, version, reservation, flightLock, newFlight, seen>>
      BY <1>2 DEF committed
    <3>5. ReserveInv(c)'
      BY <1>2, <2>1, <3>1, <3>2, <3>3, <3>4 DEF ReserveInv
    <3> QED BY <2>1, <3>1, <3>4, <3>5 DEF IInv, CallerInv
  <2>5. ASSUME NEW d \in Caller \ {c} PROVE CallerInv(d)'
    BY <1>2, <2>1, StatementKeepsOthers DEF IInv, TypeOK, committed
  <2> QED BY <2>3, <2>4, <2>5 DEF IInv
<1> QED BY <1>1, <1>2 DEF InsertReservation, Inventory!Answers

\* LockReservation keeps the invariant.
LEMMA LockReservationKeepsInv ==
  ASSUME IInv, NEW c \in Caller, LockReservation(c)
  PROVE  IInv'
<1>1. CASE \E a \in Inventory!Answers : Rollback(c, a)
  BY <1>1, RollbackKeepsInv DEF LockReservation, At
<1>2. CASE /\ reservation[Req(c).booking].status = "ACTIVE"
           /\ HoldReservation(c, Req(c).booking)
  <2>1. /\ Pending(c) /\ Req(c).op = "release" /\ pc[c] = "start"
        /\ Req(c).booking \in Booking
    BY PendingCall DEF LockReservation, At, IInv
  <2>2. UNCHANGED <<available, version, reservation, call, flightLock, newFlight, newRow>>
    BY <1>2 DEF HoldReservation, committed
  <2>3. TypeOK'
    <3>1. seen' \in [Caller -> Inventory!Rows \union {NoRow}]
      BY <1>2, <2>1 DEF HoldReservation, IInv, TypeOK, Inventory!TypeOK, NoRow
    <3>2. /\ rowLock' \in [Booking -> Caller \union {Free}]
          /\ pc' \in [Caller -> {"start", "locked", "checked", "updated", "written"}]
      BY <1>2, <2>1 DEF HoldReservation, IInv, TypeOK
    <3> QED BY <2>2, <3>1, <3>2 DEF IInv, TypeOK, Inventory!TypeOK
  <2>4. CallerInv(c)'
    <3>1. Req(c)' = Req(c) /\ Pending(c)' /\ pc'[c] = "checked"
      BY <1>2, <2>1, <2>2 DEF HoldReservation, Req, Pending, Inventory!Pending, IInv, TypeOK
    <3>2. rowLock'[Req(c).booking] = c /\ seen'[c] = reservation[Req(c).booking]
      BY <1>2, <2>1 DEF HoldReservation, IInv, TypeOK
    <3>3. ReleaseInv(c)'
      BY <1>2, <2>2, <3>1, <3>2 DEF ReleaseInv
    <3>4. newFlight[c] = NoWrite /\ newRow[c] = NoRow
      BY <2>1 DEF IInv, CallerInv
    <3> QED BY <2>1, <2>2, <3>1, <3>3, <3>4 DEF CallerInv
  <2>5. ASSUME NEW d \in Caller \ {c} PROVE CallerInv(d)'
    BY <1>2, <2>1, <2>2, StatementKeepsOthers DEF HoldReservation, IInv, TypeOK
  <2> QED BY <2>3, <2>4, <2>5 DEF IInv
<1> QED BY <1>1, <1>2 DEF LockReservation, Inventory!Answers

\* The reservation that ReleaseReservation has read is a row.
LEMMA SeenRow ==
  ASSUME IInv, NEW c \in Caller, Pending(c), Req(c).op = "release", pc[c] # "start"
  PROVE  /\ ReleaseInv(c)
         /\ seen[c] \in Inventory!Rows
         /\ seen[c].flight \in Flight
         /\ seen[c].seats \in Nat
<1>1. ReleaseInv(c)
  BY DEF IInv, CallerInv
<1>2. seen[c] \in Inventory!Rows
  BY <1>1 DEF ReleaseInv, IInv, TypeOK, NoRow, Inventory!NoRow
<1> QED BY <1>1, <1>2 DEF Inventory!Rows

\* GiveSeatsBack keeps the invariant.
LEMMA GiveSeatsBackKeepsInv ==
  ASSUME IInv, NEW c \in Caller, GiveSeatsBack(c)
  PROVE  IInv'
<1> DEFINE f == seen[c].flight
           n == available[f] + seen[c].seats
<1>1. /\ Pending(c) /\ Req(c).op = "release" /\ pc[c] = "checked"
      /\ UpdateFlight(c, f, n) /\ f \in Flight /\ ReleaseInv(c)
  BY SeenRow DEF GiveSeatsBack, At
<1>2. TypeOK'
  BY <1>1, UpdateFlightTypes DEF IInv
<1>3. CallerInv(c)'
  <2>1. Req(c)' = Req(c) /\ Pending(c)' /\ pc'[c] = "updated"
    BY <1>1 DEF UpdateFlight, Req, Pending, Inventory!Pending, IInv, TypeOK
  <2>2. /\ newFlight'[c] = [written |-> TRUE, flight |-> f, available |-> n, version |-> version[f] + 1]
        /\ flightLock'[f] = c
    BY <1>1 DEF UpdateFlight, IInv, TypeOK
  <2>3. UNCHANGED <<available, version, reservation, rowLock, seen, newRow>>
    BY <1>1 DEF UpdateFlight, committed
  <2>4. ReleaseInv(c)'
    BY <1>1, <2>1, <2>2, <2>3 DEF ReleaseInv
  <2>5. newRow[c] = NoRow
    BY <1>1 DEF IInv, CallerInv
  <2> QED BY <1>1, <2>1, <2>3, <2>4, <2>5 DEF CallerInv
<1>4. ASSUME NEW d \in Caller \ {c} PROVE CallerInv(d)'
  BY <1>1, StatementKeepsOthers DEF UpdateFlight, IInv, TypeOK, committed
<1> QED BY <1>2, <1>3, <1>4 DEF IInv

\* MarkReleased keeps the invariant.
LEMMA MarkReleasedKeepsInv ==
  ASSUME IInv, NEW c \in Caller, MarkReleased(c)
  PROVE  IInv'
<1>1. Pending(c) /\ Req(c).op = "release" /\ pc[c] = "updated"
  BY DEF MarkReleased, At
<1>2. ReleaseInv(c) /\ seen[c] \in Inventory!Rows
  BY <1>1, SeenRow
<1>3. UNCHANGED <<available, version, reservation, call, flightLock, rowLock, seen, newFlight>>
  BY DEF MarkReleased, committed, locks
<1>4. [seen[c] EXCEPT !.status = "RELEASED"] \in Inventory!Rows
  BY <1>2 DEF Inventory!Rows
<1>5. TypeOK'
  BY <1>3, <1>4 DEF MarkReleased, IInv, TypeOK, Inventory!TypeOK
<1>6. CallerInv(c)'
  <2>1. Req(c)' = Req(c) /\ Pending(c)' /\ pc'[c] = "written"
    BY <1>1, <1>3 DEF MarkReleased, Req, Pending, Inventory!Pending, IInv, TypeOK
  <2>2. newRow'[c] = [seen[c] EXCEPT !.status = "RELEASED"]
    BY DEF MarkReleased, IInv, TypeOK
  <2>3. ReleaseInv(c)'
    BY <1>1, <1>2, <1>3, <2>1, <2>2 DEF ReleaseInv
  <2> QED BY <1>1, <1>3, <2>1, <2>3 DEF CallerInv
<1>7. ASSUME NEW d \in Caller \ {c} PROVE CallerInv(d)'
  BY <1>3, StatementKeepsOthers DEF MarkReleased, IInv, TypeOK
<1> QED BY <1>5, <1>6, <1>7 DEF IInv
-----------------------------------------------------------------------------
(* The end of a call *)

\* What Commit installs: the rows of one granted ReserveSeats or of one
\* ReleaseReservation, computed from the rows that are committed now.
LEMMA CommitInstalls ==
  ASSUME IInv, NEW c \in Caller, Pending(c), pc[c] = "written"
  PROVE  /\ newFlight[c] \in FlightWrites
         /\ newRow[c] \in Inventory!Rows
         /\ Req(c).booking \in Booking
         /\ rowLock[Req(c).booking] = c
         /\ flightLock[newFlight[c].flight] = c
<1>1. Req(c).booking \in Booking /\ Req(c).op \in {"reserve", "release"}
  BY PendingCall DEF IInv
<1>2. CASE Req(c).op = "reserve"
  <2>1. ReserveInv(c) /\ Req(c).flight \in Flight /\ Req(c).seats \in PartySize
    BY <1>2, PendingCall DEF IInv, CallerInv
  <2>2. newFlight[c].written /\ newFlight[c].flight = Req(c).flight
    BY <2>1 DEF ReserveInv
  <2>3. newFlight[c] \in FlightWrites
    BY <2>2 DEF IInv, TypeOK, NoWrite
  <2>4. newRow[c] \in Inventory!Rows
    BY <2>1, <1>1 DEF ReserveInv, Inventory!Row, Inventory!Rows
  <2> QED BY <1>1, <2>1, <2>2, <2>3, <2>4 DEF ReserveInv
<1>3. CASE Req(c).op = "release"
  <2>1. ReleaseInv(c) /\ seen[c] \in Inventory!Rows
    BY <1>3, SeenRow
  <2>2. newFlight[c].written /\ newFlight[c].flight = seen[c].flight
    BY <2>1 DEF ReleaseInv
  <2>3. newFlight[c] \in FlightWrites
    BY <2>2 DEF IInv, TypeOK, NoWrite
  <2>4. newRow[c] \in Inventory!Rows
    BY <2>1 DEF ReleaseInv, Inventory!Rows
  <2> QED BY <1>1, <2>1, <2>2, <2>3, <2>4 DEF ReleaseInv
<1> QED BY <1>1, <1>2, <1>3

\* Commit keeps the invariant.
LEMMA CommitKeepsInv ==
  ASSUME IInv, NEW c \in Caller, Commit(c)
  PROVE  IInv'
<1>1. Pending(c) /\ pc[c] = "written"
  BY DEF Commit
<1>2. PICK a \in {"ok", "error"} : Finish(c, a)
  BY DEF Commit
<1>3. PICK w \in FlightWrites : w = newFlight[c]
  BY <1>1, CommitInstalls
<1>4. PICK row \in Inventory!Rows : row = newRow[c]
  BY <1>1, CommitInstalls
<1>5. PICK b \in Booking : b = Req(c).booking /\ rowLock[b] = c
  BY <1>1, CommitInstalls
<1>6. flightLock[w.flight] = c /\ w.flight \in Flight /\ w.available \in Nat /\ w.version \in Nat
  BY <1>1, <1>3, CommitInstalls DEF FlightWrites
<1>7. /\ available' = [available EXCEPT ![w.flight] = w.available]
      /\ version' = [version EXCEPT ![w.flight] = w.version]
      /\ reservation' = [reservation EXCEPT ![b] = row]
  BY <1>3, <1>4, <1>5 DEF Commit
<1>8. TypeOK'
  <2>1. /\ available' \in [Flight -> Nat]
        /\ version' \in [Flight -> Nat]
        /\ reservation' \in [Booking -> Inventory!Rows \union {NoRow}]
    BY <1>6, <1>7 DEF IInv, TypeOK, Inventory!TypeOK, NoRow
  <2> QED BY <1>1, <1>2, <2>1, FinishTypes DEF IInv, TypeOK, Inventory!TypeOK, NoRow, Inventory!Answers
<1>9. \A d \in Caller : CallerInv(d)'
  <2>1. \A f \in Flight : flightLock[f] # c => available'[f] = available[f] /\ version'[f] = version[f]
    BY <1>6, <1>7 DEF IInv, TypeOK, Inventory!TypeOK
  <2>2. \A k \in Booking : rowLock[k] # c => reservation'[k] = reservation[k]
    BY <1>5, <1>7 DEF IInv, TypeOK, Inventory!TypeOK
  <2> QED BY <1>1, <1>2, <2>1, <2>2, FinishKeepsCallers DEF Inventory!Answers
<1> QED BY <1>8, <1>9 DEF IInv

\* A call that is made finds no transaction of its caller running, and one that
\* is returned leaves none behind.
LEMMA CallBoundaryKeepsInv ==
  ASSUME IInv, NEW c \in Caller,
         (\E r \in Inventory!Request : Invoke(c, r)) \/ Return(c)
  PROVE  IInv'
<1>1. UNCHANGED <<available, version, reservation, pc, flightLock, rowLock, seen, newFlight, newRow>>
  BY DEF Invoke, Return, Inventory!Invoke, Inventory!Return, locks, writes
<1>2. call' \in [Caller -> Inventory!Calls] /\ \A d \in Caller \ {c} : call'[d] = call[d]
  BY DEF Invoke, Return, Inventory!Invoke, Inventory!Return, IInv, TypeOK, Inventory!TypeOK,
         Inventory!Calls, Inventory!Idle
<1>3. ~Pending(c)
  BY DEF Invoke, Return, Inventory!Invoke, Inventory!Return, Pending, Inventory!Pending,
         Inventory!Idle, Inventory!Answers
<1>4. TypeOK'
  BY <1>1, <1>2 DEF IInv, TypeOK, Inventory!TypeOK
<1>5. CallerInv(c)'
  <2>1. pc[c] = "start"
    BY <1>3 DEF IInv, CallerInv
  <2> QED BY <1>1, <2>1 DEF IInv, CallerInv
<1>6. ASSUME NEW d \in Caller \ {c} PROVE CallerInv(d)'
  <2>1. Undisturbed(d)
    BY <1>1, <1>2 DEF Undisturbed
  <2> QED BY <2>1, Frame DEF IInv
<1> QED BY <1>4, <1>5, <1>6 DEF IInv
-----------------------------------------------------------------------------
(* The invariant *)

\* The initial state has no transaction.
LEMMA InitInv == Init => IInv
<1> SUFFICES ASSUME Init PROVE IInv
  OBVIOUS
<1>1. TypeOK
  BY DEF Init, Inventory!Init, TypeOK, Inventory!TypeOK, Inventory!Calls, NoRow
<1>2. ASSUME NEW c \in Caller PROVE CallerInv(c)
  BY DEF Init, CallerInv
<1> QED BY <1>1, <1>2 DEF IInv

\* Every step keeps the invariant.
LEMMA InvPreserved ==
  ASSUME IInv, [Next]_vars
  PROVE  IInv'
<1>1. ASSUME NEW c \in Caller, Statement(c) PROVE IInv'
  BY <1>1, LockFlightKeepsInv, CheckBookingKeepsInv, TakeSeatsKeepsInv, InsertReservationKeepsInv,
     LockReservationKeepsInv, GiveSeatsBackKeepsInv, MarkReleasedKeepsInv, CommitKeepsInv
     DEF Statement
<1>2. ASSUME NEW c \in Caller, Abort(c) PROVE IInv'
  BY <1>2, RollbackKeepsInv DEF Abort, Inventory!Answers
<1>3. CASE UNCHANGED vars
  <2>1. TypeOK'
    BY <1>3 DEF vars, committed, locks, writes, IInv, TypeOK, Inventory!TypeOK
  <2>2. ASSUME NEW d \in Caller PROVE CallerInv(d)'
    <3>1. Undisturbed(d)
      BY <1>3 DEF vars, committed, locks, writes, Undisturbed
    <3> QED BY <3>1, Frame DEF IInv
  <2> QED BY <2>1, <2>2 DEF IInv
<1> QED BY <1>1, <1>2, <1>3, CallBoundaryKeepsInv DEF Next

\* The invariant of the specification.
THEOREM Inductive == Spec => []IInv
<1> QED BY InitInv, InvPreserved, PTL DEF Spec

\* Type correctness of the store, of what its transactions have written included.
THEOREM TypeCorrect == Spec => []TypeOK
<1>1. IInv => TypeOK
  BY DEF IInv
<1> QED BY <1>1, Inductive, PTL

\* No lost update: every write that is not committed yet was computed from rows
\* that are locked and still the committed ones.
THEOREM WritesStayCurrent == Spec => []WritesAreCurrent
<1>1. ASSUME IInv, NEW c \in Caller, newFlight[c] # NoWrite \/ seen[c] # NoRow \/ newRow[c] # NoRow
      PROVE  pc[c] # "start" /\ Req(c).op \in {"reserve", "release"}
  BY <1>1, PendingCall DEF IInv, CallerInv
<1>2. ASSUME IInv, NEW c \in Caller, newFlight[c] # NoWrite
      PROVE  LET f == newFlight[c].flight IN
             /\ flightLock[f] = c
             /\ newFlight[c].version = version[f] + 1
             /\ newFlight[c].available =
                  IF Req(c).op = "reserve" THEN available[f] - Req(c).seats
                                           ELSE available[f] + seen[c].seats
  <2>1. pc[c] \in {"updated", "written"} /\ pc[c] # "start"
    BY <1>2 DEF IInv, TypeOK, CallerInv
  <2>2. CASE Req(c).op = "reserve"
    <3>1. ReserveInv(c)
      BY <1>2, <2>1, <2>2 DEF IInv, CallerInv
    <3> QED BY <2>1, <2>2, <3>1 DEF ReserveInv
  <2>3. CASE Req(c).op = "release"
    <3>1. ReleaseInv(c)
      BY <1>2, <2>1, <2>3 DEF IInv, CallerInv
    <3> QED BY <2>1, <2>3, <3>1 DEF ReleaseInv
  <2> QED BY <1>1, <1>2, <2>2, <2>3
<1>3. ASSUME IInv, NEW c \in Caller, seen[c] # NoRow
      PROVE  seen[c] = reservation[Req(c).booking]
  BY <1>1, <1>3 DEF IInv, CallerInv, ReleaseInv
<1>4. ASSUME IInv, NEW c \in Caller, newRow[c] # NoRow
      PROVE  /\ rowLock[Req(c).booking] = c
             /\ newRow[c].status = "ACTIVE" => reservation[Req(c).booking] = NoRow
  <2>1. pc[c] = "written" /\ Pending(c) /\ Req(c).op \in {"reserve", "release"}
    BY <1>1, <1>4 DEF IInv, CallerInv
  <2>2. CASE Req(c).op = "reserve"
    <3>1. ReserveInv(c)
      BY <1>4, <2>1, <2>2 DEF IInv, CallerInv
    <3> QED BY <2>1, <3>1 DEF ReserveInv
  <2>3. CASE Req(c).op = "release"
    <3>1. ReleaseInv(c) /\ seen[c] \in Inventory!Rows
      BY <1>4, <2>1, <2>3, SeenRow
    <3>2. newRow[c].status = "RELEASED"
      BY <2>1, <3>1 DEF ReleaseInv, Inventory!Rows
    <3> QED BY <3>1, <3>2 DEF ReleaseInv
  <2> QED BY <2>1, <2>2, <2>3
<1>5. IInv => WritesAreCurrent
  BY <1>2, <1>3, <1>4 DEF WritesAreCurrent
<1> QED BY <1>5, Inductive, PTL
-----------------------------------------------------------------------------
(* Refinement *)

\* A rollback of a pending call is the abstract Fail when it answers "error".
LEMMA RollbackFails ==
  ASSUME NEW c \in Caller, Pending(c), Rollback(c, "error")
  PROVE  Inventory!Next
<1>1. Inventory!Fail(c)
  BY DEF Rollback, Finish, committed, Inventory!Fail, Pending
<1> QED BY <1>1 DEF Inventory!Next, Inventory!Decide

\* The refusals of ReserveSeats are those of the abstract operation.
LEMMA RefusedReserve ==
  ASSUME IInv, NEW c \in Caller, LockFlight(c) \/ CheckBooking(c)
  PROVE  Inventory!Next \/ UNCHANGED Inventory!vars
<1>1. Pending(c) /\ Req(c).op = "reserve"
  BY DEF LockFlight, CheckBooking, At
<1>2. CASE \E a \in Inventory!Answers : Rollback(c, a)
  <2>1. PICK a \in Inventory!Answers : Rollback(c, a)
    BY <1>2
  <2>2. Inventory!Answer(c, a) /\ UNCHANGED <<available, version, reservation>>
    BY <2>1 DEF Rollback, Finish, committed
  <2>3. call'[c].answer = a
    BY <1>1, <2>2, PendingCall DEF Inventory!Answer, IInv, TypeOK, Inventory!TypeOK
  <2>4. CASE LockFlight(c)
    <3>1. pc[c] = "start"
      BY <2>4 DEF LockFlight, At
    <3>2. pc'[c] = "start"
      BY <2>1 DEF Rollback, Finish, IInv, TypeOK
    <3>3. \/ Req(c).flight \notin Scheduled /\ Rollback(c, "not_found")
          \/ /\ Req(c).flight \in Scheduled
             /\ available[Req(c).flight] < Req(c).seats
             /\ Rollback(c, "no_seats")
      BY <2>4, <3>2 DEF LockFlight, IInv, TypeOK
    <3>4. Inventory!RefuseReserve(c)
      BY <1>1, <3>3 DEF Inventory!RefuseReserve, Req, Pending, Rollback, Finish, committed
    <3> QED BY <3>4 DEF Inventory!Next, Inventory!Decide
  <2>5. CASE CheckBooking(c)
    <3>1. pc[c] = "locked" /\ ReserveInv(c)
      BY <1>1, <2>5 DEF CheckBooking, At, IInv, CallerInv
    <3>2. pc'[c] = "start"
      BY <2>1 DEF Rollback, Finish, IInv, TypeOK
    <3>3. reservation[Req(c).booking] # NoRow /\ Rollback(c, "already_exists")
      BY <2>5, <3>2 DEF CheckBooking, IInv, TypeOK
    <3>4. Inventory!RefuseReserve(c)
      BY <1>1, <3>1, <3>3
         DEF Inventory!RefuseReserve, Req, Pending, Rollback, Finish, committed, ReserveInv, NoRow
    <3> QED BY <3>4 DEF Inventory!Next, Inventory!Decide
  <2> QED BY <2>4, <2>5
<1>3. CASE UNCHANGED <<committed, call>>
  BY <1>3 DEF committed, Inventory!vars
<1> QED BY <1>2, <1>3 DEF LockFlight, CheckBooking, Inventory!Answers

\* So are those of ReleaseReservation.
LEMMA RefusedRelease ==
  ASSUME IInv, NEW c \in Caller, LockReservation(c)
  PROVE  Inventory!Next \/ UNCHANGED Inventory!vars
<1>1. Pending(c) /\ Req(c).op = "release"
  BY DEF LockReservation, At
<1>2. CASE reservation[Req(c).booking].status # "ACTIVE" /\ Rollback(c, "not_found")
  <2>1. Inventory!RefuseRelease(c)
    BY <1>1, <1>2 DEF Inventory!RefuseRelease, Req, Pending, Rollback, Finish, committed
  <2> QED BY <2>1 DEF Inventory!Next, Inventory!Decide
<1>3. CASE HoldReservation(c, Req(c).booking)
  BY <1>3 DEF HoldReservation, committed, Inventory!vars
<1> QED BY <1>2, <1>3 DEF LockReservation, NoRow, Inventory!NoRow

\* A commit is the abstract operation, taking effect at once.
LEMMA CommitReserves ==
  ASSUME IInv, NEW c \in Caller, Commit(c), Req(c).op = "reserve"
  PROVE  Inventory!Reserve(c)
<1>1. Pending(c) /\ pc[c] = "written"
  BY DEF Commit
<1>2. ReserveInv(c) /\ Req(c).flight \in Flight /\ Req(c).booking \in Booking
  BY <1>1, PendingCall DEF IInv, CallerInv
<1>3. PICK r \in Inventory!ReserveRequest : r = Req(c)
  BY <1>1, PendingCall DEF IInv
<1>4. /\ newFlight[c].flight = r.flight
      /\ newFlight[c].available = available[r.flight] - r.seats
      /\ newFlight[c].version = version[r.flight] + 1
      /\ newRow[c] = Inventory!Row(r.flight, r.seats, "ACTIVE")
  BY <1>1, <1>2, <1>3 DEF ReserveInv
<1>5. /\ available' = [available EXCEPT ![r.flight] = available[r.flight] - r.seats]
      /\ version' = [version EXCEPT ![r.flight] = version[r.flight] + 1]
      /\ reservation' = [reservation EXCEPT ![r.booking] = Inventory!Row(r.flight, r.seats, "ACTIVE")]
      /\ \E a \in {"ok", "error"} : Inventory!Answer(c, a)
  BY <1>3, <1>4 DEF Commit, Finish
<1>6. Inventory!Take(c, r)
  BY <1>5 DEF Inventory!Take
<1>7. /\ r.flight \in Scheduled /\ available[r.flight] >= r.seats
      /\ reservation[r.booking] = Inventory!NoRow
  BY <1>1, <1>2, <1>3 DEF ReserveInv, NoRow
<1> QED BY <1>1, <1>3, <1>6, <1>7 DEF Inventory!Reserve, Req, Pending

\* The same for ReleaseReservation.
LEMMA CommitReleases ==
  ASSUME IInv, NEW c \in Caller, Commit(c), Req(c).op = "release"
  PROVE  Inventory!Release(c)
<1>1. Pending(c) /\ pc[c] = "written"
  BY DEF Commit
<1>2. ReleaseInv(c)
  BY <1>1, SeenRow
<1>3. PICK b \in Booking : b = Req(c).booking
  BY <1>1, PendingCall DEF IInv
<1>4. PICK row \in Inventory!Rows : row = reservation[b] /\ row = seen[c] /\ row.status = "ACTIVE"
  BY <1>1, <1>2, <1>3, SeenRow DEF ReleaseInv
<1>5. /\ newFlight[c].flight = row.flight
      /\ newFlight[c].available = available[row.flight] + row.seats
      /\ newFlight[c].version = version[row.flight] + 1
      /\ newRow[c] = [row EXCEPT !.status = "RELEASED"]
  BY <1>1, <1>2, <1>4 DEF ReleaseInv
<1>6. /\ available' = [available EXCEPT ![row.flight] = available[row.flight] + row.seats]
      /\ version' = [version EXCEPT ![row.flight] = version[row.flight] + 1]
      /\ reservation' = [reservation EXCEPT ![b] = [row EXCEPT !.status = "RELEASED"]]
      /\ \E a \in {"ok", "error"} : Inventory!Answer(c, a)
  BY <1>3, <1>5 DEF Commit, Finish
<1>7. Inventory!GiveBack(c, b)
  BY <1>4, <1>6 DEF Inventory!GiveBack
<1> QED BY <1>1, <1>3, <1>4, <1>7 DEF Inventory!Release, Req, Pending

\* store.go implements SeatInventory: interleaved with any other statements, rolled
\* back or committed, acknowledged or not, a call behaves as one indivisible step.
THEOREM Refines == Spec => ImplementsInventory
<1>1. Init => Inventory!Init
  BY DEF Init
<1>2. ASSUME IInv, [Next]_vars
      PROVE  [Inventory!Next]_(Inventory!vars)
  <2>1. ASSUME NEW c \in Caller, NEW r \in Inventory!Request, Invoke(c, r)
        PROVE  Inventory!Next
    BY <2>1 DEF Invoke, Inventory!Next
  <2>2. ASSUME NEW c \in Caller, Return(c)
        PROVE  Inventory!Next
    BY <2>2 DEF Return, Inventory!Next
  <2>3. ASSUME NEW c \in Caller, Abort(c)
        PROVE  Inventory!Next
    BY <2>3, RollbackFails DEF Abort
  <2>4. ASSUME NEW c \in Caller, LockFlight(c) \/ CheckBooking(c) \/ LockReservation(c)
        PROVE  Inventory!Next \/ UNCHANGED Inventory!vars
    BY <1>2, <2>4, RefusedReserve, RefusedRelease
  <2>5. ASSUME NEW c \in Caller, TakeSeats(c) \/ GiveSeatsBack(c) \/ MarkReleased(c)
        PROVE  UNCHANGED Inventory!vars
    BY <2>5 DEF TakeSeats, GiveSeatsBack, MarkReleased, UpdateFlight, committed, Inventory!vars
  <2>6. ASSUME NEW c \in Caller, InsertReservation(c)
        PROVE  Inventory!Next \/ UNCHANGED Inventory!vars
    <3>1. CASE Pending(c) /\ Rollback(c, "error")
      BY <3>1, RollbackFails
    <3>2. CASE UNCHANGED <<committed, call>>
      BY <3>2 DEF committed, Inventory!vars
    <3> QED BY <2>6, <3>1, <3>2 DEF InsertReservation, At
  <2>7. ASSUME NEW c \in Caller, Commit(c)
        PROVE  Inventory!Next
    <3>1. Req(c).op \in {"reserve", "release"}
      BY <1>2, <2>7, PendingCall DEF Commit, IInv
    <3>2. Inventory!Reserve(c) \/ Inventory!Release(c)
      BY <1>2, <2>7, <3>1, CommitReserves, CommitReleases
    <3> QED BY <3>2 DEF Inventory!Next, Inventory!Decide
  <2>8. CASE UNCHANGED vars
    BY <2>8 DEF vars, committed, Inventory!vars
  <2> QED BY <1>2, <2>1, <2>2, <2>3, <2>4, <2>5, <2>6, <2>7, <2>8 DEF Next, Statement
<1>3. Spec /\ []IInv => Inventory!Spec
  BY <1>1, <1>2, PTL DEF Spec, Inventory!Spec
<1> QED BY <1>3, Inductive, PTL DEF ImplementsInventory
-----------------------------------------------------------------------------
(* Deadlock freedom *)

\* Who may hold a lock: IInv says which locks a caller holds, this that it holds no
\* others.
Holds(c) ==
  /\ \A f \in Flight : flightLock[f] = c =>
       /\ Pending(c)
       /\ \/ Req(c).op = "reserve" /\ pc[c] # "start"
          \/ Req(c).op = "release" /\ pc[c] \in {"updated", "written"}
  /\ \A b \in Booking : rowLock[b] = c =>
       /\ Pending(c)
       /\ b = Req(c).booking
       /\ \/ Req(c).op = "reserve" /\ pc[c] = "written"
          \/ Req(c).op = "release" /\ pc[c] # "start"

LockInv == IInv /\ \A c \in Caller : Holds(c)

\* A caller whose own state is left alone and that is given no lock.
LEMMA HoldsFrame ==
  ASSUME NEW d \in Caller, Holds(d), pc'[d] = pc[d], call'[d] = call[d],
         \A f \in Flight : flightLock'[f] = d => flightLock[f] = d,
         \A b \in Booking : rowLock'[b] = d => rowLock[b] = d
  PROVE  Holds(d)'
<1>1. Req(d)' = Req(d) /\ (Pending(d)' <=> Pending(d))
  BY DEF Req, Pending, Inventory!Pending
<1> QED BY <1>1 DEF Holds

\* A transaction that ends holds nothing.
LEMMA FinishHolds ==
  ASSUME LockInv, NEW c \in Caller, NEW a \in Inventory!Answers, Finish(c, a), NEW d \in Caller
  PROVE  Holds(d)'
<1>1. CASE d = c
  <2>1. /\ \A f \in Flight : flightLock'[f] # c
        /\ \A b \in Booking : rowLock'[b] # c
    BY DEF Finish, Unlocked, LockInv, IInv, TypeOK
  <2> QED BY <1>1, <2>1 DEF Holds
<1>2. CASE d # c
  <2>1. pc'[d] = pc[d] /\ call'[d] = call[d]
    BY <1>2 DEF Finish, Inventory!Answer, LockInv, IInv, TypeOK, Inventory!TypeOK
  <2>2. /\ \A f \in Flight : flightLock'[f] = d => flightLock[f] = d
        /\ \A b \in Booking : rowLock'[b] = d => rowLock[b] = d
    BY <1>2 DEF Finish, Unlocked, LockInv, IInv, TypeOK
  <2> QED BY <2>1, <2>2, HoldsFrame DEF LockInv
<1> QED BY <1>1, <1>2

\* A statement that ends no transaction moves its caller on, with at most a lock
\* more.
LEMMA StatementHolds ==
  ASSUME LockInv, NEW c \in Caller, UNCHANGED call,
         NEW s \in {"locked", "checked", "updated", "written"}, pc' = [pc EXCEPT ![c] = s],
         Pending(c), pc[c] # s,
         \/ Req(c).op = "reserve" /\ <<pc[c], s>> \in {<<"start", "locked">>, <<"locked", "checked">>,
                                  <<"checked", "updated">>, <<"updated", "written">>}
         \/ Req(c).op = "release" /\ <<pc[c], s>> \in {<<"start", "checked">>,
                                  <<"checked", "updated">>, <<"updated", "written">>},
         \/ UNCHANGED flightLock
         \/ \E f \in Flight : flightLock' = [flightLock EXCEPT ![f] = c] /\ s \in {"locked", "updated"},
         \/ UNCHANGED rowLock
         \/ /\ rowLock' = [rowLock EXCEPT ![Req(c).booking] = c]
            /\ \/ Req(c).op = "reserve" /\ s = "written"
               \/ Req(c).op = "release" /\ s = "checked",
         NEW d \in Caller
  PROVE  Holds(d)'
<1>1. pc'[c] = s /\ Req(c)' = Req(c) /\ Pending(c)'
  BY DEF Req, Pending, Inventory!Pending, LockInv, IInv, TypeOK
<1>2. CASE d # c
  <2>1. pc'[d] = pc[d] /\ call'[d] = call[d]
    BY <1>2 DEF LockInv, IInv, TypeOK
  <2>2. \A f \in Flight : flightLock'[f] = d => flightLock[f] = d
    BY <1>2 DEF LockInv, IInv, TypeOK
  <2>3. \A b \in Booking : rowLock'[b] = d => rowLock[b] = d
    BY <1>2 DEF LockInv, IInv, TypeOK
  <2> QED BY <2>1, <2>2, <2>3, HoldsFrame DEF LockInv
<1>3. CASE d = c
  <2>1. ASSUME NEW f \in Flight, flightLock'[f] = c
        PROVE  \/ Req(c).op = "reserve" /\ s # "start"
               \/ Req(c).op = "release" /\ s \in {"updated", "written"}
    <3>1. CASE flightLock[f] = c
      BY <3>1 DEF LockInv, Holds
    <3>2. CASE flightLock[f] # c
      <4>1. s \in {"locked", "updated"}
        BY <2>1, <3>2 DEF LockInv, IInv, TypeOK
      <4> QED BY <4>1
    <3> QED BY <3>1, <3>2
  <2>2. ASSUME NEW b \in Booking, rowLock'[b] = c
        PROVE  /\ b = Req(c).booking
               /\ \/ Req(c).op = "reserve" /\ s = "written"
                  \/ Req(c).op = "release" /\ s # "start"
    <3>1. CASE rowLock[b] = c
      BY <3>1 DEF LockInv, Holds
    <3>2. CASE rowLock[b] # c
      BY <2>2, <3>2 DEF LockInv, IInv, TypeOK
    <3> QED BY <3>1, <3>2
  <2>3. Holds(c)'
    BY <1>1, <2>1, <2>2 DEF Holds
  <2> QED BY <1>3, <2>3
<1> QED BY <1>2, <1>3

\* A caller that is called or answered holds nothing.
LEMMA CallBoundaryHolds ==
  ASSUME LockInv, NEW c \in Caller, NEW d \in Caller,
         (\E r \in Inventory!Request : Invoke(c, r)) \/ Return(c)
  PROVE  Holds(d)'
<1>1. UNCHANGED <<pc, flightLock, rowLock>>
  BY DEF Invoke, Return, locks
<1>2. \A e \in Caller \ {c} : call'[e] = call[e]
  BY DEF Invoke, Return, Inventory!Invoke, Inventory!Return, LockInv, IInv, TypeOK, Inventory!TypeOK
<1>3. ~Pending(c)
  BY DEF Invoke, Return, Inventory!Invoke, Inventory!Return, Pending, Inventory!Pending,
         Inventory!Idle, Inventory!Answers
<1>4. CASE d = c
  <2>1. Holds(c)
    BY DEF LockInv
  <2>2. /\ \A f \in Flight : flightLock[f] # c
        /\ \A b \in Booking : rowLock[b] # c
    BY <1>3, <2>1 DEF Holds
  <2> QED BY <1>1, <1>4, <2>2 DEF Holds
<1>5. CASE d # c
  BY <1>1, <1>2, <1>5, HoldsFrame DEF LockInv
<1> QED BY <1>4, <1>5

\* Every step keeps the invariant of the locks.
LEMMA LockInvPreserved ==
  ASSUME LockInv, [Next]_vars
  PROVE  LockInv'
<1>1. IInv'
  BY InvPreserved DEF LockInv
<1>2. ASSUME NEW d \in Caller
      PROVE  Holds(d)'
  <2>1. ASSUME NEW c \in Caller, \E a \in Inventory!Answers : Finish(c, a)
        PROVE  Holds(d)'
    BY <2>1, FinishHolds
  <2>2. ASSUME NEW c \in Caller, LockFlight(c)
        PROVE  Holds(d)'
    <3>1. CASE \E a \in Inventory!Answers : Rollback(c, a)
      BY <2>1, <3>1 DEF Rollback
    <3>2. CASE /\ flightLock' = [flightLock EXCEPT ![Req(c).flight] = c]
               /\ pc' = [pc EXCEPT ![c] = "locked"]
               /\ UNCHANGED <<committed, call, rowLock, writes>>
      <4>1. Pending(c) /\ Req(c).op = "reserve" /\ pc[c] = "start" /\ Req(c).flight \in Flight
        BY <2>2, PendingCall DEF LockFlight, At, LockInv, IInv
      <4> QED BY <3>2, <4>1, StatementHolds
    <3> QED BY <2>2, <3>1, <3>2 DEF LockFlight, Inventory!Answers
  <2>3. ASSUME NEW c \in Caller, CheckBooking(c)
        PROVE  Holds(d)'
    <3>1. CASE \E a \in Inventory!Answers : Rollback(c, a)
      BY <2>1, <3>1 DEF Rollback
    <3>2. CASE pc' = [pc EXCEPT ![c] = "checked"] /\ UNCHANGED <<committed, call, locks, writes>>
      <4>1. Pending(c) /\ Req(c).op = "reserve" /\ pc[c] = "locked"
        BY <2>3 DEF CheckBooking, At
      <4> QED BY <3>2, <4>1, StatementHolds DEF locks
    <3> QED BY <2>3, <3>1, <3>2 DEF CheckBooking, Inventory!Answers
  <2>4. ASSUME NEW c \in Caller, TakeSeats(c)
        PROVE  Holds(d)'
    <3>1. Pending(c) /\ Req(c).op = "reserve" /\ pc[c] = "checked" /\ Req(c).flight \in Flight
      BY <2>4, PendingCall DEF TakeSeats, At, LockInv, IInv
    <3> QED BY <2>4, <3>1, StatementHolds DEF TakeSeats, UpdateFlight
  <2>5. ASSUME NEW c \in Caller, InsertReservation(c)
        PROVE  Holds(d)'
    <3>1. CASE \E a \in Inventory!Answers : Rollback(c, a)
      BY <2>1, <3>1 DEF Rollback
    <3>2. CASE /\ rowLock' = [rowLock EXCEPT ![Req(c).booking] = c]
               /\ pc' = [pc EXCEPT ![c] = "written"]
               /\ UNCHANGED <<committed, call, flightLock, seen, newFlight>>
      <4>1. Pending(c) /\ Req(c).op = "reserve" /\ pc[c] = "updated"
        BY <2>5 DEF InsertReservation, At
      <4> QED BY <3>2, <4>1, StatementHolds
    <3> QED BY <2>5, <3>1, <3>2 DEF InsertReservation, Inventory!Answers
  <2>6. ASSUME NEW c \in Caller, LockReservation(c)
        PROVE  Holds(d)'
    <3>1. CASE \E a \in Inventory!Answers : Rollback(c, a)
      BY <2>1, <3>1 DEF Rollback
    <3>2. CASE HoldReservation(c, Req(c).booking)
      <4>1. Pending(c) /\ Req(c).op = "release" /\ pc[c] = "start"
        BY <2>6 DEF LockReservation, At
      <4> QED BY <3>2, <4>1, StatementHolds DEF HoldReservation
    <3> QED BY <2>6, <3>1, <3>2 DEF LockReservation, Inventory!Answers
  <2>7. ASSUME NEW c \in Caller, GiveSeatsBack(c)
        PROVE  Holds(d)'
    <3>1. Pending(c) /\ Req(c).op = "release" /\ pc[c] = "checked" /\ seen[c].flight \in Flight
      BY <2>7, SeenRow DEF GiveSeatsBack, At, LockInv
    <3> QED BY <2>7, <3>1, StatementHolds DEF GiveSeatsBack, UpdateFlight
  <2>8. ASSUME NEW c \in Caller, MarkReleased(c)
        PROVE  Holds(d)'
    <3>1. Pending(c) /\ Req(c).op = "release" /\ pc[c] = "updated"
      BY <2>8 DEF MarkReleased, At
    <3> QED BY <2>8, <3>1, StatementHolds DEF MarkReleased, locks
  <2>9. ASSUME NEW c \in Caller, Commit(c)
        PROVE  Holds(d)'
    BY <2>1, <2>9 DEF Commit, Inventory!Answers
  <2>10. ASSUME NEW c \in Caller, Abort(c)
         PROVE  Holds(d)'
    BY <2>1, <2>10 DEF Abort, Rollback, Inventory!Answers
  <2>11. CASE UNCHANGED vars
    BY <2>11, HoldsFrame DEF LockInv, vars, locks
  <2> QED BY <2>2, <2>3, <2>4, <2>5, <2>6, <2>7, <2>8, <2>9, <2>10, <2>11, CallBoundaryHolds
          DEF Next, Statement
<1> QED BY <1>1, <1>2 DEF LockInv

\* A transaction that waits, waits for the holder of a lock.
LEMMA WaitsForHolder ==
  ASSUME LockInv, NEW c \in Caller, NEW d \in WaitsFor(c)
  PROVE  /\ d # c /\ d \in Caller /\ Pending(c) /\ Pending(d) /\ pc[d] # "start"
         /\ \/ At(c, "reserve", "start")
            \/ At(c, "release", "start")
            \/ /\ At(c, "reserve", "updated")
               /\ pc[d] = "written" /\ Req(d).op = "reserve"
            \/ /\ At(c, "release", "checked")
               /\ \/ Req(d).op = "reserve"
                  \/ Req(d).op = "release" /\ pc[d] \in {"updated", "written"}
<1> DEFINE heldBy(l) == {l} \ {Free, c}
<1>1. CASE At(c, "reserve", "start")
  <2>1. Pending(c) /\ Req(c).flight \in Flight /\ d \in heldBy(flightLock[Req(c).flight])
    BY <1>1, PendingCall DEF WaitsFor, At, LockInv, IInv
  <2>2. d # c /\ d \in Caller /\ flightLock[Req(c).flight] = d
    BY <2>1 DEF LockInv, IInv, TypeOK
  <2> QED BY <1>1, <2>1, <2>2 DEF LockInv, Holds
<1>2. CASE At(c, "reserve", "checked")
  <2>1. /\ Pending(c) /\ Req(c).flight \in Flight /\ ReserveInv(c)
        /\ d \in heldBy(flightLock[Req(c).flight])
    BY <1>2, PendingCall DEF WaitsFor, At, LockInv, IInv, CallerInv
  <2> QED BY <2>1 DEF ReserveInv
<1>3. CASE At(c, "reserve", "updated")
  <2>1. /\ Pending(c) /\ Req(c).booking \in Booking /\ reservation[Req(c).booking] = NoRow
        /\ d \in heldBy(rowLock[Req(c).booking])
    BY <1>3, PendingCall DEF WaitsFor, At, LockInv, IInv
  <2>2. d # c /\ d \in Caller /\ rowLock[Req(c).booking] = d
    BY <2>1 DEF LockInv, IInv, TypeOK
  <2>3. /\ Pending(d) /\ Req(d).booking = Req(c).booking
        /\ \/ Req(d).op = "reserve" /\ pc[d] = "written"
           \/ Req(d).op = "release" /\ pc[d] # "start"
    BY <2>1, <2>2 DEF LockInv, Holds
  <2>4. ~(Req(d).op = "release" /\ pc[d] # "start")
    <3> SUFFICES ASSUME Req(d).op = "release", pc[d] # "start" PROVE FALSE
      OBVIOUS
    <3>1. ReleaseInv(d) /\ seen[d] \in Inventory!Rows
      BY <2>2, <2>3, SeenRow DEF LockInv
    <3> QED BY <2>1, <2>3, <3>1 DEF ReleaseInv, NoRow, Inventory!NoRow
  <2> QED BY <1>3, <2>1, <2>2, <2>3, <2>4
<1>4. CASE At(c, "release", "start")
  <2>1. Pending(c) /\ Req(c).booking \in Booking /\ d \in heldBy(rowLock[Req(c).booking])
    BY <1>4, PendingCall DEF WaitsFor, At, LockInv, IInv
  <2>2. d # c /\ d \in Caller /\ rowLock[Req(c).booking] = d
    BY <2>1 DEF LockInv, IInv, TypeOK
  <2> QED BY <1>4, <2>1, <2>2 DEF LockInv, Holds
<1>5. CASE At(c, "release", "checked")
  <2>1. Pending(c) /\ seen[c].flight \in Flight /\ d \in heldBy(flightLock[seen[c].flight])
    BY <1>5, SeenRow DEF WaitsFor, At, LockInv
  <2>2. d # c /\ d \in Caller /\ flightLock[seen[c].flight] = d
    BY <2>1 DEF LockInv, IInv, TypeOK
  <2> QED BY <1>5, <2>1, <2>2 DEF LockInv, Holds
<1> QED BY <1>1, <1>2, <1>3, <1>4, <1>5 DEF WaitsFor

\* A circle has no reserve beyond its first lock, hence no release beyond its
\* first one, hence nobody that holds a lock.
LEMMA NoCircle ==
  ASSUME LockInv
  PROVE  NoDeadlock
<1> SUFFICES ASSUME NEW S \in SUBSET Caller, \A c \in S : WaitsFor(c) \intersect S # {}
             PROVE  S = {}
  BY DEF NoDeadlock
<1>1. ASSUME NEW c \in S
      PROVE  \E d \in S :
               /\ pc[d] # "start"
               /\ \/ At(c, "reserve", "start")
                  \/ At(c, "release", "start")
                  \/ At(c, "reserve", "updated") /\ pc[d] = "written"
                  \/ /\ At(c, "release", "checked")
                     /\ \/ Req(d).op = "reserve"
                        \/ Req(d).op = "release" /\ pc[d] \in {"updated", "written"}
  <2>1. PICK d \in S : d \in WaitsFor(c)
    OBVIOUS
  <2> QED BY <2>1, WaitsForHolder
<1>2. \A c \in S : pc[c] # "written"
  BY <1>1 DEF At
<1>3. \A c \in S : Req(c).op = "reserve" => pc[c] = "start"
  BY <1>1, <1>2 DEF At
<1>4. \A c \in S : Req(c).op = "release" => pc[c] # "updated"
  BY <1>1 DEF At
<1>5. \A c \in S : pc[c] = "start"
  BY <1>1, <1>2, <1>3, <1>4 DEF At
<1> QED BY <1>1, <1>5

\* No circle of transactions waits for itself: the opposite lock orders of
\* ReserveSeats and ReleaseReservation never make PostgreSQL break a deadlock.
THEOREM DeadlockFree == Spec => []NoDeadlock
<1>1. Init => LockInv
  <2> SUFFICES ASSUME Init PROVE LockInv
    OBVIOUS
  <2>1. IInv
    BY InitInv
  <2>2. \A c \in Caller : Holds(c)
    BY StoreAssumption DEF Init, Holds
  <2> QED BY <2>1, <2>2 DEF LockInv
<1>2. LockInv /\ [Next]_vars => LockInv'
  BY LockInvPreserved
<1>3. LockInv => NoDeadlock
  BY NoCircle
<1> QED BY <1>1, <1>2, <1>3, PTL DEF Spec
=============================================================================
