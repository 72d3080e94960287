SPECIFICATION Spec
CONSTANTS
  Call = {c1, c2}
  Timer = {t1, t2}
  Region = {east, west}
  Default = east
  MaxRetry = 2
  MaxParts = 1
  LastPart = 2
  MaxMoves = 1
  MaxFaults = 2
  None = None
SYMMETRY Symmetry
CONSTRAINT FewTroubles
INVARIANTS
  TypeOK
  NeverEmptyHanded
  RegionLearned
  PartsListed
  NoTimerStranded
