SPECIFICATION ListSpec
CONSTANTS
  User = {a}
  Node = {n1, n2, n3}
  Name = {x}
  Request = {r1}
  Root = Root
  None = None
  Walk = {w1}
  MaxDepth = 3
  Reader = {v1}
  PageSize = 1
SYMMETRY Symmetry
VIEW ReadView
CONSTRAINT OneReader
INVARIANTS
  ListTypeOK
  SteadyFilesFound
  FoundOnce
  OverflowForCause
  SteadyEntriesListed
  ListedTwiceForCause
  StrayForCause
