SPECIFICATION Spec
CONSTANTS
  f1 = f1
  f2 = f2
  s1 = s1
  s2 = s2
  Flight <- MCTwoFlights
  Server <- MCTwoServers
  MaxWrites = 1
  CallsFail = FALSE
PROPERTY SearchNeverRegresses
