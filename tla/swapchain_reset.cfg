SPECIFICATION Spec
CONSTANTS
  b1 = b1
  b2 = b2
  p1 = p1
  p2 = p2
  Null = Null
  MaxImages = 3
  SurfaceMin = 2
  Builds <- TwoBuilds
  Places <- TwoPlaces
INVARIANTS
  MinImageCountAllowed
