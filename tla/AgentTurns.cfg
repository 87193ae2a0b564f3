SPECIFICATION Spec
CONSTANTS
  MaxRounds = 2
  MaxRetries = 1
  Rounds <- CallRounds
  MaxCorrections = 2
  MaxRequests = 5
  MaxInvocations = 2
INVARIANTS
  CallsAnswered
PROPERTIES
  NothingStartsAfterInterrupt
  LoopsComeFree
  DispatchIsAnswered
CHECK_DEADLOCK FALSE
