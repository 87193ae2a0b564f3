SPECIFICATION FairSpec
CONSTANTS
  Connections = {c1}
  Messages = {m1, m2}
  Channels = {"content"}
  Tokens = {t1}
  ReplayCapacity = 3
  ClientCapacity = 2
  MaxEvents = 4
  MaxEpochs = 2
INVARIANTS TypeOK StreamUnbroken
PROPERTY EveryEventArrives
CHECK_DEADLOCK FALSE
