SPECIFICATION Spec
CONSTANTS
  c1 = c1
  c2 = c2
  c3 = c3
  Cmds <- ThreeCmds
  PoolCanReset = TRUE
INVARIANTS
  TypeOK
  MisuseOnlyAfterGivingUp
  DoneMeansDone
