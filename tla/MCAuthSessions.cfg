SPECIFICATION Spec
CONSTANTS
  Requests = {r1, r2, r3, r4}
  Users = {u1}
  Passwords = {p1, p2}
  MaxLoginAttempts = 2
  Lockout = 1
  RefreshLife = 1
  ResetLife = 1
  MaxTime = 1
  NoPassword = NoPassword
  NoToken = NoToken
  None = None
SYMMETRY Symmetry
INVARIANTS
  TypeOK
  SpentOnceUnlessOverlapping
  LogoutEndsSessions
  FailuresAreCounted
CHECK_DEADLOCK FALSE
