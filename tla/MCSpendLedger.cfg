SPECIFICATION FairSpec
CONSTANTS
  h1 = h1
  h2 = h2
  u1 = u1
  t1 = t1
  m1 = m1
  c1 = c1
  c2 = c2
  c3 = c3
  c4 = c4
  c5 = c5
  Calls = {c1, c2, c3, c4}
  Models = {m1}
  Entities <- MCEntities
  Payers <- MCPayers
  ModelOf <- MCModelOf
  Cost <- MCCost
  Budget <- MCBudget
  Streams = {c2}
  MaxInFlight = 4
  MaxLogging = 4
  MaxDay = 1
  NoBudget = NoBudget
  NoRow = NoRow
  Nobody = Nobody
INVARIANTS
  TypeOK
  CountedCallsAreLogged
  LostOnlyToOverlap
  FailsOnlyToOverlap
PROPERTY
  LogSpendEnds
CHECK_DEADLOCK FALSE
