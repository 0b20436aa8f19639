SPECIFICATION SimSpec
CONSTANTS
  a1 = a1
  a2 = a2
  c1 = c1
  c2 = c2
  NoAsset = NoAsset
  Assets <- TwoAssets
  Cmds <- TwoCmds
  MaxAssets = 2
  MaxEvents = 4
  Slow <- NoneSlow
  Answers <- AnyAnswer
  JoinLate = FALSE
  AssetsLeave = TRUE
  CmdsDie = TRUE
CHECK_DEADLOCK FALSE
INVARIANTS RunningIsConfirmed
PROPERTIES TransitionsConfirmed ImplementsLifeCycle
