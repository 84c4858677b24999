SPECIFICATION FairSpec
CONSTANTS
  g1 = g1
  g2 = g2
  g3 = g3
  Caller <- MCCaller
  FailureThreshold = 3
  OpenTimeout = 7
  MaxAttempts = 3
  AttemptTime = 2
  OtherErrors <- MCAnyCall
PROPERTY RejectionIsTemporary
