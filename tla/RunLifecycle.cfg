CONSTANTS
  Runs = {r1, r2}
  Execs = {e1, e2, e3}
  NoExec = NoExec
  MaxAuto = 1
  MaxOps = 2
SPECIFICATION FairSpec
INVARIANTS OneExecution QuiescedIsIdle AutoResumesBounded
PROPERTIES LockReturned StopsAreReported
CHECK_DEADLOCK FALSE
