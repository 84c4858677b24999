SPECIFICATION Spec
CONSTANTS
  f1 = f1
  f2 = f2
  p1 = p1
  p2 = p2
  x1 = x1
  x2 = x2
  Scheduled <- MCOneFlight
  Capacity <- MCCapacity
  Creator <- MCTwoCreators
  Flight <- MCTwoFlights
  Canceller <- MCTwoCancellers
  SeatCount <- MCSeatCounts
  PartySize <- MCParties
  User <- MCUsers
  MaxAttempts = 2
  Scenarios <- MCFaultScenarios
SYMMETRY MCSymmetry
INVARIANTS BookingIsReserved DivergenceIsReported SeatsMatchBookings NeverOverbooked
PROPERTY NotFoundHoldsNoSeats
CHECK_DEADLOCK FALSE
