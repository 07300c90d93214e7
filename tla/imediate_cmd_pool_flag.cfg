SPECIFICATION Spec
CONSTANTS
  c1 = c1
  c2 = c2
  c3 = c3
  Cmds <- TwoCmds
  PoolCanReset = FALSE
INVARIANTS
  ResetOnlyIfAllowed
