SPECIFICATION ContainerSpec
CONSTANTS
  ac = ac
  u1 = u1
  n1 = n1
  n2 = n2
  mixed = mixed
  bad = bad
  UUIDs = {u1, f1}
  Foreign = {f1}
  NoUUID = NoUUID
  Metas = {m1}
  NoMeta = NoMeta
  BadMeta = BadMeta
  Paths = {}
  NoPath = NoPath
  Names = {n1, n2}
  ACNames = {ac}
  NoName = NoName
  SanitizeACName <- MCSanitizeACName
  Attempts = {0, 1}
  OddApps = {odd}
  Internal = {}
  Strays = {mixed, bad}
  StrayIds <- MCStrayIds
  Dirs = {d1}
  Creators = {k1, k2}
  CreateRequests <- MCCreateRequests
  MaxCalls = 2
  Listers = {l1}
  CtrFilters <- MCCtrFilters
  CmdFaults = TRUE
INVARIANTS
  ContainerTypeOK
  ListComplete
  ListSound
  MountsReady
  CreateReturnsOwn
SYMMETRY CallSymmetry
PROPERTY RequestHitsHandedOut
