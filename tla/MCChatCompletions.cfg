SPECIFICATION Spec
CONSTANTS
  c1 = c1  c2 = c2  c3 = c3
  k1 = k1
  Calls = {c1, c2, c3}
  Keys = {k1}
  Asks <- GuardAsks
  Row <- GuardRow
  Configured = {"openai"}
  Errors = {}
  Window = 2
  MaxConns = 3
  MaxTime = 2
  MaxHash = 2
  MaxChunks = 0
  Unset = Unset
SYMMETRY Symmetry
INVARIANT LimitsAreExact
CHECK_DEADLOCK FALSE
