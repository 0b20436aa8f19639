SPECIFICATION Spec
CONSTANTS
  r1 = r1
  ext = ext
  Writer = Writer
  Readers <- OneReader
  External <- NoExternal
  VersionModulus = 4
  MaxWrites = 1
  MaxReads = 1
  StoresDelay = TRUE
  MaxDisturbances = 1
  MaxDeaths = 0
CHECK_DEADLOCK FALSE
INVARIANTS MutualExclusion
