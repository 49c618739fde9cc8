SPECIFICATION Spec
CONSTANTS
  Keys = {rpm, tpm}
  Limits <- MCLimits
  Increments <- MCIncrements
  Window = 3
  MaxTime = 5
  MaxCalls = 4
INVARIANTS
  TypeOK
  PruningIsExact
  EveryWindowWithinLimit
  RetryAfterSuffices
PROPERTY
  ImplementsLaw
CHECK_DEADLOCK FALSE
