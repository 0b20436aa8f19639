SPECIFICATION Spec
CONSTANTS
  p1 = p1
  p2 = p2
  t1 = t1
  t2 = t2
  t3 = t3
  NoProc = NoProc
  NoThread = NoThread
  Procs <- MCProcs
  Threads <- MCTwoThreads
  ProcOf <- MCTwoProcOf
  WaitModes <- BoundedWait
  LookupMayFail = FALSE
  MaxCalls = 1
  MaxStarts = 2
  MaxFaults = 0
CHECK_DEADLOCK FALSE
INVARIANTS InterruptionLeavesNoLock
