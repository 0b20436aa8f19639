SPECIFICATION FairSpec
CONSTANTS
  p1 = p1
  p2 = p2
  p3 = p3
  Procs = {p1, p2, p3}
  NoProc = noproc
  Keys = {"first", "second"}
  Origins = {"none", "legacy", "v1", "orphan"}
  MayDie = {p1, p2, p3}
  Impatient = {p1, p2, p3}
  MaxUps = 2
INVARIANTS
  ReturnsInitialized
  LegacyUntouched
  HeldLockIsRecorded
  SweepExcludesHolder
PROPERTIES
  InterruptedStaysUntouched
  CreateReturns
CHECK_DEADLOCK FALSE
