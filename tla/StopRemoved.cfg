SPECIFICATION Spec
CONSTANTS
  UUIDs = {u1}
  Foreign = {}
  NoUUID = NoUUID
  Metas = {m1}
  NoMeta = NoMeta
  BadMeta = BadMeta
  Paths = {p1}
  NoPath = NoPath
  Calls = {c1}
  MaxPolls = 1
  Filters <- OnlyNoFilter
  Faulty = FALSE
  CanCrash = FALSE
  TmpFails = FALSE
PROPERTY StopOfRemovedSucceeds
