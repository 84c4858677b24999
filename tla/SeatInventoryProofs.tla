------------------------ MODULE SeatInventoryProofs ------------------------
(* The safety properties of SeatInventory, for every set of flights,       *)
(* bookings and callers.                                                   *)
EXTENDS SeatInventory, FiniteSetTheorems, TLAPS

USE InventoryAssumption

\* Every step of the specification keeps the types of the variables: no guard of
\* ReserveSeats lets available_seats become negative.
LEMMA TypePreserved ==
  ASSUME TypeOK, [Next]_vars
  PROVE  TypeOK'
<1> USE DEF TypeOK
<1>1. ASSUME NEW c \in Caller, NEW r \in Request, Invoke(c, r)
      PROVE  TypeOK'
  BY <1>1 DEF Invoke, Calls, Idle
<1>2. ASSUME NEW c \in Caller, NEW a \in Answers, call[c] \in [req : Request, answer : Answers \union {"pending"}],
             Answer(c, a)
      PROVE  call' \in [Caller -> Calls]
  BY <1>2 DEF Answer, Calls
<1>3. ASSUME NEW c \in Caller, Pending(c)
      PROVE  /\ call[c] \in [req : Request, answer : Answers \union {"pending"}]
             /\ call[c].req \in Request
  BY <1>3 DEF Pending, Calls, Idle
<1>4. ASSUME NEW c \in Caller, Fail(c) \/ RefuseReserve(c) \/ RefuseRelease(c)
      PROVE  TypeOK'
  BY <1>2, <1>3, <1>4 DEF Fail, RefuseReserve, RefuseRelease, Answers
<1>5. ASSUME NEW c \in Caller, Reserve(c)
      PROVE  TypeOK'
  <2> DEFINE r == call[c].req
  <2>1. r \in ReserveRequest
    BY <1>3, <1>5 DEF Reserve, Request, ReserveRequest, ReleaseRequest
  <2>2. /\ r.flight \in Flight /\ r.booking \in Booking /\ r.seats \in PartySize
        /\ available[r.flight] \in Nat /\ r.seats \in Nat /\ available[r.flight] >= r.seats
    BY <2>1, <1>5 DEF ReserveRequest, Reserve
  <2>3. available' \in [Flight -> Nat] /\ version' \in [Flight -> Nat]
    BY <2>2, <1>5 DEF Reserve, Take
  <2>4. reservation' \in [Booking -> Rows \union {NoRow}]
    BY <2>2, <1>5 DEF Reserve, Take, Row, Rows
  <2>5. call' \in [Caller -> Calls]
    BY <1>2, <1>3, <1>5 DEF Reserve, Take, Answers
  <2> QED BY <2>3, <2>4, <2>5
<1>6. ASSUME NEW c \in Caller, Release(c)
      PROVE  TypeOK'
  <2> DEFINE b == call[c].req.booking
  <2>1. b \in Booking
    BY <1>3, <1>6 DEF Release, Request, ReserveRequest, ReleaseRequest
  <2>2. reservation[b] \in Rows
    BY <2>1, <1>6 DEF Release, Rows, NoRow
  <2>3. available' \in [Flight -> Nat] /\ version' \in [Flight -> Nat]
    BY <2>2, <1>6 DEF Release, GiveBack, Rows
  <2>4. reservation' \in [Booking -> Rows \union {NoRow}]
    BY <2>1, <2>2, <1>6 DEF Release, GiveBack, Rows
  <2>5. call' \in [Caller -> Calls]
    BY <1>2, <1>3, <1>6 DEF Release, GiveBack, Answers
  <2> QED BY <2>3, <2>4, <2>5
<1>7. ASSUME NEW c \in Caller, Return(c)
      PROVE  TypeOK'
  BY <1>7 DEF Return, Calls, Idle
<1>8. CASE UNCHANGED vars
  BY <1>8 DEF vars
<1> QED BY <1>1, <1>4, <1>5, <1>6, <1>7, <1>8 DEF Next, Decide

\* Type correctness of the inventory, available_seats >= 0 included.
THEOREM TypeCorrect == Spec => []TypeOK
<1>1. Init => TypeOK
  BY DEF Init, TypeOK, Calls
<1> QED BY <1>1, TypePreserved, PTL DEF Spec
-----------------------------------------------------------------------------
(* Seat accounting *)

\* The seats of a new reservation are added to those of its flight, and to no other.
LEMMA TakenAfterTake ==
  ASSUME TypeOK, NEW b \in Booking, NEW f \in Flight, NEW n \in PartySize,
         reservation[b] = NoRow,
         reservation' = [reservation EXCEPT ![b] = Row(f, n, "ACTIVE")]
  PROVE  /\ Taken(f)' = Taken(f) \union ({b} \X (1 .. n))
         /\ Taken(f) \intersect ({b} \X (1 .. n)) = {}
         /\ \A g \in Flight \ {f} : Taken(g)' = Taken(g)
<1>1. b \notin ActiveOn(f) /\ \A g \in Flight : b \notin ActiveOn(g)
  BY DEF ActiveOn, NoRow
<1>2. ActiveOn(f)' = ActiveOn(f) \union {b}
  BY DEF ActiveOn, TypeOK, Row, NoRow
<1>3. \A g \in Flight \ {f} : ActiveOn(g)' = ActiveOn(g)
  BY DEF ActiveOn, TypeOK, Row, NoRow
<1>4. reservation'[b].seats = n /\ \A x \in Booking \ {b} : reservation'[x] = reservation[x]
  BY DEF TypeOK, Row
<1>5. \A g : ActiveOn(g) \subseteq Booking
  BY DEF ActiveOn
<1> QED BY <1>1, <1>2, <1>3, <1>4, <1>5 DEF Taken

\* Releasing a reservation takes its seats, and no others, out of its flight.
LEMMA TakenAfterGiveBack ==
  ASSUME TypeOK, NEW b \in Booking, NEW f \in Flight, NEW n \in PartySize,
         reservation[b] = Row(f, n, "ACTIVE"),
         reservation' = [reservation EXCEPT ![b].status = "RELEASED"]
  PROVE  /\ Taken(f) = Taken(f)' \union ({b} \X (1 .. n))
         /\ Taken(f)' \intersect ({b} \X (1 .. n)) = {}
         /\ \A g \in Flight \ {f} : Taken(g)' = Taken(g)
<1>1. reservation'[b].status = "RELEASED" /\ \A x \in Booking \ {b} : reservation'[x] = reservation[x]
  BY DEF TypeOK, Row
<1>2. ActiveOn(f) = ActiveOn(f)' \union {b} /\ b \notin ActiveOn(f)'
  BY <1>1 DEF ActiveOn, Row
<1>3. \A g \in Flight \ {f} : ActiveOn(g)' = ActiveOn(g) /\ b \notin ActiveOn(g)
  BY <1>1 DEF ActiveOn, Row
<1>4. \A g : ActiveOn(g) \subseteq Booking /\ ActiveOn(g)' \subseteq Booking
  BY DEF ActiveOn
<1>5. \A g \in Flight : Taken(g)' = UNION {{x} \X (1 .. reservation[x].seats) : x \in ActiveOn(g)'}
  BY <1>1, <1>2, <1>3, <1>4 DEF Taken
<1>6. reservation[b].seats = n
  BY DEF Row
<1> QED BY <1>2, <1>3, <1>4, <1>5, <1>6 DEF Taken

\* The inductive invariant: counting needs the seats taken to be finitely many,
\* which holds of any set of bookings, as reservations are made one by one.
FiniteSeats == \A f \in Flight : IsFiniteSet(Taken(f))
IInv == TypeOK /\ FiniteSeats /\ SeatAccounting

\* Adding n fresh seats of a booking to a finite set of seats adds n to its size.
LEMMA AddSeats ==
  ASSUME NEW S, IsFiniteSet(S), NEW b, NEW n \in Nat, S \intersect ({b} \X (1 .. n)) = {},
         NEW T, T = S \union ({b} \X (1 .. n))
  PROVE  /\ IsFiniteSet(T)
         /\ Cardinality(S) \in Nat
         /\ Cardinality(T) = Cardinality(S) + n
<1> DEFINE P == {b} \X (1 .. n)
           pair == [i \in 1 .. n |-> <<b, i>>]
<1>1. IsFiniteSet(1 .. n) /\ Cardinality(1 .. n) = n
  BY FS_Interval
<1>2. pair \in Bijection(1 .. n, P)
  <2>1. pair \in [1 .. n -> P]
    OBVIOUS
  <2>2. \A i, j \in 1 .. n : pair[i] = pair[j] => i = j
    OBVIOUS
  <2>3. \A x \in P : \E i \in 1 .. n : pair[i] = x
    OBVIOUS
  <2> HIDE DEF pair, P
  <2> QED BY <2>1, <2>2, <2>3 DEF Bijection, Injection, Surjection, IsInjective
<1>3. ExistsBijection(1 .. n, P)
  BY <1>2 DEF ExistsBijection
<1> HIDE DEF P, pair
<1>4. IsFiniteSet(P) /\ Cardinality(P) = n
  BY <1>1, <1>3, FS_Bijection
<1>5. Cardinality(S) \in Nat
  BY FS_CardinalityType
<1>6. S \intersect P = {}
  BY DEF P
<1>7. Cardinality(S \intersect P) = 0
  BY <1>6, FS_EmptySet
<1>8. /\ IsFiniteSet(S \union P)
      /\ Cardinality(S \union P) = Cardinality(S) + Cardinality(P) - Cardinality(S \intersect P)
  BY <1>4, FS_Union
<1>9. Cardinality(S \union P) = Cardinality(S) + n
  BY <1>4, <1>5, <1>7, <1>8
<1> QED BY <1>5, <1>8, <1>9 DEF P

\* Reserving n seats takes n from the free seats and adds n to the taken ones.
LEMMA ReserveKeepsInv ==
  ASSUME IInv, NEW c \in Caller, Reserve(c)
  PROVE  FiniteSeats' /\ SeatAccounting'
<1>1. call[c].req \in ReserveRequest
  BY DEF IInv, TypeOK, Reserve, Pending, Calls, Idle, Request, ReserveRequest, ReleaseRequest
<1>2. PICK f \in Flight, b \in Booking, n \in PartySize :
        call[c].req.flight = f /\ call[c].req.booking = b /\ call[c].req.seats = n
  BY <1>1 DEF ReserveRequest
<1>3. /\ reservation[b] = NoRow
      /\ available' = [available EXCEPT ![f] = @ - n]
      /\ reservation' = [reservation EXCEPT ![b] = Row(f, n, "ACTIVE")]
      /\ n \in Nat
  BY <1>2 DEF Reserve, Take
<1>4. /\ Taken(f)' = Taken(f) \union ({b} \X (1 .. n))
      /\ Taken(f) \intersect ({b} \X (1 .. n)) = {}
      /\ \A g \in Flight \ {f} : Taken(g)' = Taken(g)
  BY <1>3, TakenAfterTake DEF IInv
<1>5. /\ IsFiniteSet(Taken(f)')
      /\ Cardinality(Taken(f)) \in Nat /\ Cardinality(Taken(f)') = Cardinality(Taken(f)) + n
  <2>1. IsFiniteSet(Taken(f))
    BY DEF IInv, FiniteSeats
  <2>2. n \in Nat
    BY <1>3
  <2>3. Taken(f)' = Taken(f) \union ({b} \X (1 .. n)) /\ Taken(f) \intersect ({b} \X (1 .. n)) = {}
    BY <1>4
  <2> QED BY <2>1, <2>2, <2>3, AddSeats
<1>6. available'[f] = available[f] - n /\ \A g \in Flight \ {f} : available'[g] = available[g]
  BY <1>3 DEF IInv, TypeOK
<1>7. FiniteSeats'
  BY <1>4, <1>5 DEF IInv, FiniteSeats
<1>8. available'[f] + Cardinality(Taken(f)') = Capacity[f]
  BY <1>3, <1>5, <1>6 DEF IInv, TypeOK, SeatAccounting
<1>9. SeatAccounting'
  BY <1>4, <1>6, <1>8 DEF IInv, SeatAccounting
<1> QED BY <1>7, <1>9

\* Releasing a reservation gives back exactly the seats it holds.
LEMMA ReleaseKeepsInv ==
  ASSUME IInv, NEW c \in Caller, Release(c)
  PROVE  FiniteSeats' /\ SeatAccounting'
<1>1. call[c].req \in ReleaseRequest
  BY DEF IInv, TypeOK, Release, Pending, Calls, Idle, Request, ReserveRequest, ReleaseRequest
<1>2. PICK b \in Booking : call[c].req.booking = b
  BY <1>1 DEF ReleaseRequest
<1>3. reservation[b] \in Rows /\ reservation[b].status = "ACTIVE"
  BY <1>2 DEF Release, IInv, TypeOK, NoRow
<1>4. PICK f \in Flight, n \in PartySize : reservation[b] = Row(f, n, "ACTIVE") /\ n \in Nat
  BY <1>3 DEF Rows, Row
<1>5. /\ available' = [available EXCEPT ![f] = @ + n]
      /\ reservation' = [reservation EXCEPT ![b].status = "RELEASED"]
  BY <1>2, <1>4 DEF Release, GiveBack, Row
<1>6. /\ Taken(f) = Taken(f)' \union ({b} \X (1 .. n))
      /\ Taken(f)' \intersect ({b} \X (1 .. n)) = {}
      /\ \A g \in Flight \ {f} : Taken(g)' = Taken(g)
  BY <1>4, <1>5, TakenAfterGiveBack DEF IInv
<1>7. IsFiniteSet(Taken(f)')
  BY <1>6, FS_Subset DEF IInv, FiniteSeats
<1>8. Cardinality(Taken(f)') \in Nat /\ Cardinality(Taken(f)) = Cardinality(Taken(f)') + n
  <2>1. n \in Nat
    BY <1>4
  <2>2. Taken(f) = Taken(f)' \union ({b} \X (1 .. n)) /\ Taken(f)' \intersect ({b} \X (1 .. n)) = {}
    BY <1>6
  <2> QED BY <1>7, <2>1, <2>2, AddSeats
<1>9. available'[f] = available[f] + n /\ \A g \in Flight \ {f} : available'[g] = available[g]
  BY <1>5 DEF IInv, TypeOK
<1>10. FiniteSeats'
  BY <1>6, <1>7 DEF IInv, FiniteSeats
<1>11. available'[f] + Cardinality(Taken(f)') = Capacity[f]
  BY <1>4, <1>8, <1>9 DEF IInv, TypeOK, SeatAccounting
<1>12. SeatAccounting'
  BY <1>6, <1>9, <1>11 DEF IInv, SeatAccounting
<1> QED BY <1>10, <1>12

\* The flights and the reservations decide the accounting.
LEMMA AccountingUnchanged ==
  ASSUME IInv, UNCHANGED <<available, reservation>>
  PROVE  FiniteSeats' /\ SeatAccounting'
<1>1. \A f \in Flight : Taken(f)' = Taken(f)
  BY DEF Taken, ActiveOn
<1> QED BY <1>1 DEF IInv, FiniteSeats, SeatAccounting

\* The inductive invariant holds at first and is kept by every step.
LEMMA Inductive == Spec => []IInv
<1>1. Init => IInv
  <2> SUFFICES ASSUME Init
               PROVE  IInv
    OBVIOUS
  <2>1. TypeOK
    BY DEF Init, TypeOK, Calls
  <2>2. \A f \in Flight : Taken(f) = {}
    BY DEF Init, Taken, ActiveOn, NoRow
  <2>3. \A f \in Flight : IsFiniteSet(Taken(f)) /\ Cardinality(Taken(f)) = 0
    BY <2>2, FS_EmptySet
  <2>4. \A f \in Flight : available[f] = Capacity[f] /\ Capacity[f] \in Nat
    BY DEF Init
  <2> QED BY <2>1, <2>3, <2>4 DEF IInv, FiniteSeats, SeatAccounting
<1>2. IInv /\ [Next]_vars => IInv'
  <2> SUFFICES ASSUME IInv, [Next]_vars
               PROVE  IInv'
    OBVIOUS
  <2>1. TypeOK'
    BY TypePreserved DEF IInv
  <2>2. ASSUME NEW c \in Caller, Reserve(c) \/ Release(c)
        PROVE  FiniteSeats' /\ SeatAccounting'
    BY <2>2, ReserveKeepsInv, ReleaseKeepsInv
  <2>3. ASSUME NEW c \in Caller, \/ \E r \in Request : Invoke(c, r)
                                \/ RefuseReserve(c) \/ RefuseRelease(c)
                                \/ Fail(c) \/ Return(c)
        PROVE  FiniteSeats' /\ SeatAccounting'
    BY <2>3, AccountingUnchanged DEF Invoke, RefuseReserve, RefuseRelease, Fail, Return
  <2>4. ASSUME UNCHANGED vars
        PROVE  FiniteSeats' /\ SeatAccounting'
    <3>1. UNCHANGED <<available, reservation>>
      BY <2>4 DEF vars
    <3> QED BY <3>1, AccountingUnchanged
  <2> QED BY <2>1, <2>2, <2>3, <2>4 DEF IInv, Next, Decide
<1> QED BY <1>1, <1>2, PTL DEF Spec

\* Whatever is retried, refused or answered with an error, the free seats and the
\* ACTIVE reservations of every flight make up its capacity, for any number of
\* flights, bookings and concurrent calls.
THEOREM SeatsAccountedFor == Spec => []SeatAccounting
<1>1. IInv => SeatAccounting
  BY DEF IInv
<1> QED BY <1>1, Inductive, PTL
-----------------------------------------------------------------------------
\* A step changes a reservation by inserting it ACTIVE or by releasing it, and in
\* no other way: a RELEASED reservation stays RELEASED.
THEOREM ReservationsLiveOnce == Spec => ReservationLifecycle
<1> DEFINE Alive(b) ==
      reservation'[b] # reservation[b] =>
        \/ reservation[b] = NoRow /\ reservation'[b].status = "ACTIVE"
        \/ /\ reservation[b].status = "ACTIVE"
           /\ reservation'[b] = [reservation[b] EXCEPT !.status = "RELEASED"]
<1>1. ASSUME TypeOK, NEW c \in Caller, Reserve(c), NEW b \in Booking
      PROVE  Alive(b)
  BY <1>1 DEF Reserve, Take, TypeOK, Row
<1>2. ASSUME TypeOK, NEW c \in Caller, Release(c), NEW b \in Booking
      PROVE  Alive(b)
  BY <1>2 DEF Release, GiveBack, TypeOK
<1>3. ASSUME NEW c \in Caller, NEW b \in Booking,
             \/ \E r \in Request : Invoke(c, r)
             \/ RefuseReserve(c) \/ RefuseRelease(c)
             \/ Fail(c) \/ Return(c)
      PROVE  Alive(b)
  BY <1>3 DEF Invoke, RefuseReserve, RefuseRelease, Fail, Return
<1>4. TypeOK /\ [Next]_vars => [\A b \in Booking : Alive(b)]_vars
  BY <1>1, <1>2, <1>3 DEF Next, Decide
<1> QED BY <1>4, TypeCorrect, PTL DEF Spec, ReservationLifecycle
=============================================================================
