SPECIFICATION Spec
CONSTANTS
  None = None
  Requests = {r1, r2, r3}
  Universe <- CoreRows
  Populations <- CoreStarts
SYMMETRY Symmetry
INVARIANTS
  CascadeFailsOnlyOnNewRows
  DeletedWhenAnswered
  CirclesNeedACascade
PROPERTIES
  ImplementsDirectory
CHECK_DEADLOCK FALSE
