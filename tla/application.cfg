SPECIFICATION AppSpec
CONSTANTS
  Surfaces = {s1, s2}
  Windows = {w1, w2}
  Backends = {b1, b2}
  Ids = {i1, i2, i3}
  KeptPools = {i3}
  Null = Null
SYMMETRY Symmetry
INVARIANTS
  AppTypeOK
  OneInstance
  WindowsOwned
  FlagReleased
  EveryObjectOwned
  SoleOwner
  InstanceOutlives
  HandlesStayValid
  WindowOutlivesSurface
