SPECIFICATION FairSpec
CONSTANTS
  Plan <- MCPlan
  Vars <- MCVars
  InitialVars <- MCInitialVars
  MaxValue = 2
  MaxIterations = 5
  MaxEntries = 3
  NoState = NoState
INVARIANTS
  IntentSaved
  ResumePoint
  NothingSkipped
  WaitingIsAnswerable
PROPERTIES
  LastStateSaved
  ExecutionEnds
  StatusPromised
CHECK_DEADLOCK FALSE
