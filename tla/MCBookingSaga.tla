--------------------------- MODULE MCBookingSaga ---------------------------
(* Two bookings and two cancellations on small flights.                    *)
EXTENDS BookingSaga, TLC

CONSTANTS f1, f2, p1, p2, x1, x2

MCOneFlight == {f1}
MCTwoFlights == {f1, f2}
MCTwoCreators == {p1, p2}
MCOneCanceller == {x1}
MCTwoCancellers == {x1, x2}
MCCapacity == [f \in Flight |-> 2]

MCSeatCounts == {0, 1, 2}
MCParties == {1, 2}
MCTwoSeats == {2}

MCUsers == {"uuid", "text"}
MCUuids == {"uuid"}

Scenario(f, h, r) == [faults |-> f, handlers |-> h, bodies |-> r]

TwoSeats == [kind : {"create"}, flight : Scheduled, seats : {2}, user : {"uuid"}]

\* Nothing fails but the insert of a bad user id: every body, two requests of
\* each kind.  And, for one booking and two cancellations: lost and late replies,
\* failing statements and clients that disconnect, two of them at a time; for one
\* cancellation, all of them.  And two creations that compete for the seats beside
\* a cancellation, with late attempts and crashes.
MCFaultScenarios ==
  {Scenario({}, Handler, CreateRequest),
   Scenario({"net", "db"}, {p1} \union Canceller, TwoSeats),
   Scenario({"net", "disconnect"}, {p1} \union Canceller, TwoSeats),
   Scenario({"db", "disconnect"}, {p1} \union Canceller, TwoSeats)}
     \union {Scenario({"net", "db", "disconnect"}, {p1, x}, TwoSeats) : x \in Canceller}
     \union {Scenario({"net", "crash"}, Creator \union {x}, TwoSeats) : x \in Canceller}

\* Late attempts and crashes: for two creations that compete for the seats, and
\* for one that is cancelled.
MCLateScenarios ==
  {Scenario({"net", "crash"}, Creator, TwoSeats),
   Scenario({"net", "crash"}, {p1, x1}, TwoSeats)}

MCSymmetry == Permutations(Canceller)
=============================================================================
