SPECIFICATION Spec
CONSTANTS
  Account = {a1, a2}
  Credential = {c1, c2}
  Request = {r1, r2}
  TokenExpire = 1
  RefreshTokenExpire = 2
  None = None
SYMMETRY Symmetry
INVARIANTS
  TypeOK
  RefreshNeverShortens
PROPERTIES
  ImplementsLease
