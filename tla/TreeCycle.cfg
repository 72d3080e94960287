SPECIFICATION Spec
CONSTANTS
  User = {a}
  Node = {n1, n2}
  Name = {x, y}
  Request = {r1}
  Root = Root
  None = None
SYMMETRY Symmetry
CONSTRAINT ParentsThere
PROPERTIES
  NeverMovedIntoItself
