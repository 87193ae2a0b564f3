SPECIFICATION FairSpec
CONSTANTS
  Items = {k1, k2}
  Silent = {k1}
  Asking = {k2}
  Steps = 2
  Limit = 1
  MaxRounds = 2
  MaxEntries = 3
  NoItem = NoItem
  NoState = NoState
INVARIANTS
  EveryItemAccounted
PROPERTIES
  SavesMoveForward
  MapEnds
CHECK_DEADLOCK FALSE
