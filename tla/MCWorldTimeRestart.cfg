SPECIFICATION FairTimeSpec
CONSTANTS
  a1 = a1
  a2 = a2
  c1 = c1
  NoAsset = NoAsset
  Assets <- TwoAssets
  Cmds <- OneCmd
  MaxAssets = 2
  MaxEvents = 3
  Slow <- NoneSlow
  Answers <- OnlyOk
  JoinLate = FALSE
  AssetsLeave = FALSE
  CmdsDie = FALSE
  StepOf <- Steps
  Delta = 1
  MaxDelay = 1
  MaxTime = 1
CHECK_DEADLOCK FALSE
PROPERTIES AssetsExchange
