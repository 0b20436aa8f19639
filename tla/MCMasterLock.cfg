SPECIFICATION FairSpec
CONSTANTS
  p1 = p1
  p2 = p2
  t1 = t1
  t2 = t2
  t3 = t3
  NoProc = NoProc
  NoThread = NoThread
  Procs <- MCProcs
  Threads <- MCTwoThreads
  ProcOf <- MCTwoProcOf
  WaitModes <- AnyWait
  LookupMayFail = TRUE
  MaxCalls = 2
  MaxStarts = 2
  MaxFaults = 1
CHECK_DEADLOCK FALSE
INVARIANTS MutualExclusion FileProtocol 
PROPERTIES CallsReturn EvidenceKept ImplementsFailStopLock
