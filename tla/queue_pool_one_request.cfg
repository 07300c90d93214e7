SPECIFICATION FairSpec
CONSTANTS
  t1 = t1
  t2 = t2
  t3 = t3
  h1 = h1
  h2 = h2
  h3 = h3
  graphics = graphics
  compute = compute
  transfer = transfer
  Null = Null
  NoRequest = NoRequest
  NoThread = NoThread
  N = 2
  Threads <- ThreeThreads
  Handles <- TwoHandles
  Flags <- AllFlags
  Caps <- TransferCaps
  Requests <- OneRequest
  OverwritesHeld = FALSE
INVARIANTS
  WakeupUnderWay
PROPERTIES
  NoStrandedWaiter
