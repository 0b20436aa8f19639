SPECIFICATION Spec
CONSTANTS
  p1 = p1
  p2 = p2
  p3 = p3
  NoProc = NoProc
  Procs <- ThreeProcs
  Backends <- BothBackends
  LogNum = 2
  MaxCalls = 4
  MaxSegs = 2
  MaxDeaths = 1
  MaxLapses = 1
SYMMETRY Perms
CHECK_DEADLOCK FALSE
INVARIANTS NoWildAccess LoadedIsBuilt MasterKeepsSession  
