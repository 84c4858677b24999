-------------------------- MODULE MCSeatInventory --------------------------
(* Two flights for sale and one that is not, two bookings, two callers. *)
EXTENDS SeatInventory, TLC

CONSTANTS f1, f2, f3, b1, b2, c1, c2

MCFlight == {f1, f2, f3}
MCScheduled == {f1, f2}
MCBooking == {b1, b2}
MCCaller == {c1, c2}
MCCapacity == [f \in MCFlight |-> IF f = f1 THEN 3 ELSE 2]
MCPartySize == {1, 2}
=============================================================================
