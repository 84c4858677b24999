--------------------------- MODULE MCFlightCache ---------------------------
(* Handlers of a route with one flight (as in the seed data) or two.       *)
EXTENDS FlightCache

CONSTANTS f1, f2, s1, s2

MCOneFlight == {f1}
MCTwoFlights == {f1, f2}
MCTwoServers == {s1, s2}
=============================================================================
