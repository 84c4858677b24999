SPECIFICATION Spec
CONSTANTS
  f1 = f1
  f2 = f2
  f3 = f3
  b1 = b1
  b2 = b2
  c1 = c1
  c2 = c2
  Flight <- MCFlight
  Scheduled <- MCScheduled
  Booking <- MCBooking
  Caller <- MCCaller
  Capacity <- MCCapacity
  PartySize <- MCPartySize
INVARIANTS TypeOK SeatAccounting
PROPERTY ReservationLifecycle
