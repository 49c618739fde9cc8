SPECIFICATION MCSpec
CONSTANTS
  None = None  Malformed = Malformed  Account = Account
  r1 = r1  r2 = r2  r3 = r3
  o1 = o1  o2 = o2  ann = ann  bob = bob  home = home  away = away
  g1 = g1  g2 = g2  g3 = g3  g4 = g4  t1 = t1  t2 = t2
  Requests = {r1, r2}
  Orgs = {o1, o2}
  Emails = {ann, bob}
  Groups = {g1, g2, g3, g4}
  Teams = {t1, t2}
  Domains = {home, away}
  DomainOf <- MCDomainOf
  Configs <- MCConfigs
  GroupLists <- MCGroupLists
  MaxStates = 2
  Gifts <- MCGifts
  Removed = {o1, t2}
INVARIANTS TypeOK TokensMeanProvisioned FailsForAReason LinkedUsersBelong
PROPERTY LoginEnds
CHECK_DEADLOCK FALSE
