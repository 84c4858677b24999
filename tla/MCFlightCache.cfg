SPECIFICATION FairSpec
CONSTANTS
  f1 = f1
  f2 = f2
  s1 = s1
  s2 = s2
  Flight <- MCOneFlight
  Server <- MCTwoServers
  MaxWrites = 2
  CallsFail = TRUE
INVARIANTS KeyGuardsValue StaleOnlyByRaceOrFailure
PROPERTIES NeverRegresses CacheBecomesCurrent
