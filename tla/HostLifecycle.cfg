SPECIFICATION FairHostSpec
CONSTANTS
  Workspaces = {w1, w2}
  NoWorkspace = NoWorkspace
  MaxLives = 3
  MaxCommands = 3
INVARIANTS
  HostTypeOK
  OneWorkspace
  RuntimeIsOwned
  HistoryKept
PROPERTIES
  CleanupOrdered
  EverythingEnds
CHECK_DEADLOCK FALSE
