SPECIFICATION Spec
CONSTANTS
  Account = {a1, a2}
  Email = {e1}
  Name = {x, y}
  Code = {c1}
  Request = {r1}
  CodeExpire = 1
  None = None
SYMMETRY Symmetry
INVARIANTS
  OneAccountPerEmail
