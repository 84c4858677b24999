SPECIFICATION Spec
CONSTANTS
  h1 = h1
  h2 = h2
  Handler <- MCHandler
  MaxAttempts = 2
  KeyIsMovie = FALSE
  MaxProgress = 9000
  Scenarios <- MCScenarios
INVARIANT AcknowledgedIsKept
CHECK_DEADLOCK FALSE
