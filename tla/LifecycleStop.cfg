CONSTANTS
  Runs = {r1}
  Execs = {e1, e2}
  NoExec = NoExec
  MaxAuto = 1
  MaxOps = 2
SPECIFICATION Spec
PROPERTY StopIsFinal
CHECK_DEADLOCK FALSE
