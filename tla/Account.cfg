SPECIFICATION Spec
CONSTANTS
  Account = {a1, a2}
  Email = {e1, e2}
  Name = {x}
  Code = {c1, c2}
  Request = {r1, r2}
  CodeExpire = 2
  None = None
SYMMETRY Symmetry
INVARIANTS
  TypeOK
  EmailProved
  NamesDistinct
