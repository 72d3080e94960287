SPECIFICATION Spec
CONSTANTS
  Content = {c1, c2}
  Thin = {c2}
  Small <- SmallPieces
  NumParts = 2
  Uuid = {u1, u2, u3, u4}
  Request = {r1, r2}
  MaxFaults = 1
  None = None
  Blank = Blank
SYMMETRY Symmetry
CONSTRAINTS
  OneFileInChunks
  OneTrouble
INVARIANTS
  TypeOK
  RowsResolve
  PromisesKept
  OneRowPerObject
  DuplicatesOverlap
  NoOrphanWithoutFault
PROPERTIES
  RefusedForCause
  ImplementsStore
CHECK_DEADLOCK FALSE
