SPECIFICATION Spec
CONSTANTS
  h1 = h1
  h2 = h2
  u1 = u1
  t1 = t1
  m1 = m1
  c1 = c1
  c2 = c2
  c3 = c3
  c4 = c4
  c5 = c5
  Calls = {c1, c2, c3, c4, c5}
  Models = {m1}
  Entities <- MCEntities
  Payers <- KeyPayers
  ModelOf <- MCModelOf
  Cost <- MCCost
  Budget <- KeyBudget
  Streams = {c2}
  MaxInFlight = 2
  MaxLogging = 2
  MaxDay = 2
  NoBudget = NoBudget
  NoRow = NoRow
  Nobody = Nobody
SYMMETRY Alike
INVARIANT
  OverspendIsInFlight
PROPERTY
  ImplementsAtomicLedger
CHECK_DEADLOCK FALSE
