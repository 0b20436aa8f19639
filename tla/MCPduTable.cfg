SPECIFICATION Spec
CONSTANTS
  a1 = a1
  a2 = a2
  k1 = k1
  k2 = k2
  Assets = {a1, a2}
  Conductor = conductor
  Keys = {k1, k2}
  NoKey = nokey
  NoProc = noproc
  SizeOf <- MCSizeOf
  ChannelMax = 2
  Direct = {1}
  InOrder = TRUE
  MaxStarts = 2
  MaxDeaths = 1
SYMMETRY Perms
INVARIANTS
  TableConsistent
  LayoutHolds
  
  DeclaredIsFound
