SPECIFICATION Spec
CONSTANTS
  UUIDs = {u1, u2, f1}
  Foreign = {f1}
  NoUUID = NoUUID
  Metas = {m1}
  NoMeta = NoMeta
  BadMeta = BadMeta
  Paths = {p1, p2}
  NoPath = NoPath
  Calls = {c1, c2}
  MaxPolls = 2
  Filters <- MCFilters
  Faulty = TRUE
  CanCrash = TRUE
  TmpFails = TRUE
SYMMETRY Symm
INVARIANTS
  TypeOK
  RunReturnsOwnSandbox
  DistinctSandboxes
  StopTakesEffect
  ForeignUntouched
  UUIDFileRemoved
  SandboxRecoverable
PROPERTY ImplementsCri
