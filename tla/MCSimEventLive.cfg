SPECIFICATION FairSimSpec
CONSTANTS
  a1 = a1
  a2 = a2
  c1 = c1
  c2 = c2
  NoAsset = NoAsset
  Assets <- TwoAssets
  Cmds <- OneCmd
  MaxAssets = 2
  MaxEvents = 2
  Slow <- AllSlow
  Answers <- AnyAnswer
  JoinLate = FALSE
  AssetsLeave = TRUE
  CmdsDie = TRUE
CHECK_DEADLOCK FALSE
INVARIANTS TableConsistent
 
