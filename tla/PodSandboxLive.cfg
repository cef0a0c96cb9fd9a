SPECIFICATION LiveSpec
CONSTANTS
  UUIDs = {u1}
  Foreign = {}
  NoUUID = NoUUID
  Metas = {m1}
  NoMeta = NoMeta
  BadMeta = BadMeta
  Paths = {p1}
  NoPath = NoPath
  Calls = {c1, c2}
  MaxPolls = 3
  Filters <- OnlyNoFilter
  Faulty = FALSE
  CanCrash = FALSE
  TmpFails = FALSE
PROPERTIES
  EveryCallReturns
  SandboxReclaimed
