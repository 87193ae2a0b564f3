SPECIFICATION Spec
CONSTANTS
  Connections = {c1}
  Messages = {m1}
  Channels = {"content"}
  Tokens = {t1}
  ReplayCapacity = 2
  ClientCapacity = 1
  MaxEvents = 2
  MaxEpochs = 1
INVARIANT NothingDropped
CHECK_DEADLOCK FALSE
