SPECIFICATION FairSpec
CONSTANTS
  f1 = f1
  f2 = f2
  f3 = f3
  b1 = b1
  b2 = b2
  c1 = c1
  c2 = c2
  Free = Free
  Booking <- MCBooking
  Capacity <- MCCapacity
  Scheduled <- MCTwoFlights
  Flight <- MCFlights
  Caller <- MCTwoCallers
  PartySize <- MCParties
INVARIANTS WritesAreCurrent NoDeadlock
PROPERTIES ImplementsInventory CallsAreAnswered
