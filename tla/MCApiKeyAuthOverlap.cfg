SPECIFICATION Spec
CONSTANTS
  u1 = u1
  Users <- MCUsers
  Owner <- MCOwner
  Keys = {k1}
  Requests = {}
  Admins = {a1, a2}
  Ops = {"block", "rotate", "update"}
  Limits = {1, 2}
  Graces = {0, 1}
  Lifetimes = {}
  CacheTTL = 2
  CacheSize = 1
  MaxFill = 1
  MaxHash = 3
  MaxTime = 2
  Never = 9
  NoHash = NoHash
  NoRow = NoRow
  GoneRow = GoneRow
  NoObject = NoObject
  NoEntry = NoEntry
PROPERTIES
  GraceIsKept
  BlockIsNotOverwritten
CHECK_DEADLOCK FALSE
