SPECIFICATION Spec
CONSTANTS
  N = 3
  Visited <- Everything
  FaultPoints <- AllFaults
INVARIANTS
  AllOrNothing
  DebtIsExact
PROPERTIES
  ForeignFilesStay
