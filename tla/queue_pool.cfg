SPECIFICATION Spec
CONSTANTS
  t1 = t1
  t2 = t2
  t3 = t3
  h1 = h1
  h2 = h2
  h3 = h3
  graphics = graphics
  compute = compute
  transfer = transfer
  Null = Null
  NoRequest = NoRequest
  NoThread = NoThread
  N = 3
  Threads <- ThreeThreads
  Handles <- ThreeHandles
  Flags <- AllFlags
  Caps <- DeviceCaps
  Requests <- MixedRequests
  OverwritesHeld = FALSE
INVARIANTS
  TypeOK
  ExclusiveHolder
  OwnedIsInUse
  UnreachableNotReached
  NoLostQueue
PROPERTIES
  Implements
