SPECIFICATION Spec
CONSTANTS
  NoTree = NoTree
  Visited = {b1, b2}
  Builders = {b1, b2}
  MaxVersion = 2
  MaxRetired = 1
  FaultPoints <- AllFaults
SYMMETRY Interchangeable
INVARIANTS
  PublishedIsAuthorised
  VisibleIsAuthorised
  FailureLeavesNothing
  StolenTreeIsReturned
PROPERTIES
  NeverOverwritten
