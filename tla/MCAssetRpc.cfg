SPECIFICATION FairRpcSpec
CONSTANTS
  a1 = a1
  a2 = a2
  c1 = c1
  NoAsset = NoAsset
  Assets <- TwoAssets
  Cmds <- OneCmd
  MaxAssets = 2
  MaxEvents = 4
  Slow <- None
  Answers <- OnlyOk
  JoinLate = TRUE
  AssetsLeave = TRUE
  CmdsDie = FALSE
  InMaster <- OneInMaster
  MasterCmds <- OneCmd
  Orderly = TRUE
CHECK_DEADLOCK FALSE
INVARIANTS CallbacksOnly WakeupNotLost 
PROPERTIES  StopCompletes
