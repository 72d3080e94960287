SPECIFICATION Spec
CONSTANTS
  Content = {c1}
  Thin = {}
  Small <- SmallPieces
  NumParts = 1
  Uuid = {u1, u2, u3, u4}
  Request = {r1, r2}
  MaxFaults = 0
  None = None
  Blank = Blank
SYMMETRY Symmetry
PROPERTIES
  BucketRaceHarmless
CHECK_DEADLOCK FALSE
