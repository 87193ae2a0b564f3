SPECIFICATION FairSpec
CONSTANTS
  Branches = {b1, b2}
  Asking = {b2}
  Steps = 2
  Limit = 1
  MaxRounds = 2
  MaxEntries = 3
  NoBranch = NoBranch
  NoState = NoState
INVARIANTS
  BranchesRecorded
PROPERTIES
  ProgressKept
  DoneStepsNotRedone
  GatherEnds
CHECK_DEADLOCK FALSE
