SPECIFICATION Spec
CONSTANTS
  MaxRounds = 1
  MaxRetries = 1
  Rounds <- CallRounds
  MaxCorrections = 2
  MaxRequests = 1
  MaxInvocations = 1
INVARIANT
  LoopSurvivesInterrupt
CHECK_DEADLOCK FALSE
