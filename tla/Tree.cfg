SPECIFICATION Spec
CONSTANTS
  User = {a, b}
  Node = {n1, n2}
  Name = {x, y}
  Request = {r1, r2}
  Root = Root
  None = None
SYMMETRY Symmetry
CONSTRAINT RowsLeft
INVARIANTS
  TypeOK
  CheckedNamesDistinct
PROPERTIES
  ChangedByOwner
  MovesStayInOwnTree
