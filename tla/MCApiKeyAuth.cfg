SPECIFICATION Spec
CONSTANTS
  u1 = u1
  Users <- MCUsers
  Owner <- MCOwner
  Keys = {k1}
  Requests = {r1}
  Admins = {a1}
  Ops = {"block", "unblock", "rotate", "reactivate", "update", "delete"}
  Limits = {1}
  Graces = {1}
  Lifetimes = {1}
  CacheTTL = 2
  CacheSize = 1
  MaxFill = 1
  MaxHash = 2
  MaxTime = 4
  Never = 9
  NoHash = NoHash
  NoRow = NoRow
  GoneRow = GoneRow
  NoObject = NoObject
  NoEntry = NoEntry
INVARIANTS
  TypeOK
  BoundedStaleness
  ExpiryIsImmediate
  BlockClearsCurrentHash
CHECK_DEADLOCK FALSE
