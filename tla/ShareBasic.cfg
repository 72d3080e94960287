SPECIFICATION Spec
CONSTANTS
  Identity = {i1, i2}
  Content = {c1, c2}
  Node = {n1, n2}
  Share = {s1}
  Request = {r1, r2}
  Lasting = {0, 1}
  MaxAge = 2
  MaxList = 2
  MaxViews = 2
  MaxFaults = 1
  Cut = Cut
  None = None
SYMMETRY Symmetry
CONSTRAINT DownloadsAlone
INVARIANTS
  TypeOK
  EntriesLeadToMeant
  SharesLeadToMeant
  DownloadsDeliverMeant
  ArchiveComplete
  ShownInTime
  ClicksCounted
