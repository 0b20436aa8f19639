SPECIFICATION FairSpec
CONSTANTS
  r1 = r1
  ext = ext
  Writer = Writer
  Readers <- TwoReaders
  External <- OneExternal
  VersionModulus = 2
  MaxWrites = 2
  MaxReads = 1
  StoresDelay = TRUE
  MaxDisturbances = 1
  MaxDeaths = 1
CHECK_DEADLOCK FALSE
INVARIANTS FlagsExclude NoTornRead NotDirtyMeansNewest
PROPERTIES CallsReturn ImplementsRegister
