SPECIFICATION FairSpec
CONSTANTS
  f1 = f1
  f2 = f2
  p1 = p1
  p2 = p2
  x1 = x1
  x2 = x2
  Scheduled <- MCOneFlight
  Capacity <- MCCapacity
  Creator <- MCTwoCreators
  Flight <- MCOneFlight
  Canceller <- MCOneCanceller
  SeatCount <- MCTwoSeats
  PartySize <- MCTwoSeats
  User <- MCUuids
  MaxAttempts = 3
  Scenarios <- MCLateScenarios
INVARIANTS BookingIsReserved DivergenceIsReported
PROPERTY RequestsAreAnswered
CHECK_DEADLOCK FALSE
