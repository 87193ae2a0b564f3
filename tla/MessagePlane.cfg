SPECIFICATION Spec
CONSTANTS
  Chat = {1, 3}
  Typed = {2}
  Sessions = {s1, s2}
  MaxPieces = 2
  Capacity = 1
  MaxCommands = 2
INVARIANTS
  TypeOK
  RecordedInOrder
  OneSession
  AttemptStreamsEnd
PROPERTY
  EveryMessageRecorded
CHECK_DEADLOCK FALSE
