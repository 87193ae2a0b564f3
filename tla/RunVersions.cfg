SPECIFICATION Spec
CONSTANTS
  MaxVersions = 4
  MaxRequests = 6
INVARIANTS
  StatesKeptInOrder
  NewestWithinReach
  VersionsWhole
CHECK_DEADLOCK FALSE
