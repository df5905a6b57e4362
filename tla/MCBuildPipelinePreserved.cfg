SPECIFICATION Spec
CONSTANTS
  Recordings = {r1, r2}
  MaxWorkers = 2
  WritesFail = TRUE
  CleanupsFail = FALSE
SYMMETRY Interchangeable
INVARIANTS
  PreservedTreesStay
