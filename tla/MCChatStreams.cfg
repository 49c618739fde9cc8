SPECIFICATION FairSpec
CONSTANTS
  c1 = c1  c2 = c2  c3 = c3
  k1 = k1
  Calls = {c1, c2}
  Keys = {}
  Asks <- StreamAsks
  Row <- GuardRow
  Configured = {"openai", "anthropic"}
  Errors = {403, 429, 503}
  Window = 1
  MaxConns = 1
  MaxTime = 0
  MaxHash = 1
  MaxChunks = 2
  Unset = Unset
INVARIANTS TypeOK ClientIsTold LogIsTrue ConnectionsAreReturned
PROPERTY CallsEnd
CHECK_DEADLOCK FALSE
