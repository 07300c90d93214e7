SPECIFICATION Spec
CONSTANTS
  p1 = p1
  p2 = p2
  p3 = p3
  i1 = i1
  i2 = i2
  i3 = i3
  Device = Device
  Null = Null
  Places <- ThreePlaces
  Ids <- ThreeIds
  Counts <- ThreeCounts
  ElementSize = 2
  SizeRange = 8
  LastTurn = 3
  MaxSpan = 4
INVARIANTS
  TypeOK
  EveryObjectOwned
  SoleOwner
  HandlesExist
  MisuseExplained
  InBounds
  HandedOver
PROPERTIES
  HandoverEnds
