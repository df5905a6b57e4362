SPECIFICATION FairSpec
CONSTANTS
  NoOne = NoOne
  Recordings = {r1, r2, r3}
  MaxWorkers = 2
  FaultPoints <- KindsOfFaults
INVARIANTS
  NothingIsLost
PROPERTIES
  EveryRecordingEnds
