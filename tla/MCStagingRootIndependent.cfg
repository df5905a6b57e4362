SPECIFICATION Spec
CONSTANTS
  NoOne = NoOne
  Recordings = {r1, r2}
  MaxWorkers = 2
  FaultPoints <- ExtractionFaults
INVARIANTS
  RecordingsAreIndependent
