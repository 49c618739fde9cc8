SPECIFICATION FairSpec
CONSTANTS
  None = None
  Requests = {r1, r2}
  Universe <- AllRows
  Populations <- AllStarts
INVARIANT TypeOK
PROPERTIES
  ImplementsDirectory
  EveryRequestEnds
CHECK_DEADLOCK FALSE
