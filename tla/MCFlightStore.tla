--------------------------- MODULE MCFlightStore ---------------------------
(* Two callers with every request, on two flights for sale and one that is  *)
(* not.                                                                     *)
EXTENDS FlightStore

CONSTANTS f1, f2, f3, b1, b2, c1, c2

MCFlights == {f1, f2, f3}
MCTwoFlights == {f1, f2}
MCBooking == {b1, b2}
MCTwoCallers == {c1, c2}
MCCapacity == [f \in Flight |-> IF f = f1 THEN 3 ELSE 2]
MCParties == {1, 2}
=============================================================================
