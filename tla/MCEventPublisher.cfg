SPECIFICATION FairSpec
CONSTANTS
  h1 = h1
  h2 = h2
  Handler <- MCHandler
  MaxAttempts = 2
  KeyIsMovie = FALSE
  MaxProgress = 9000
  Scenarios <- MCScenarios
INVARIANTS TypeOK AcknowledgedIsStored DuplicatesNeedFailures SessionInOrder
PROPERTY PublishEnds
CHECK_DEADLOCK FALSE
