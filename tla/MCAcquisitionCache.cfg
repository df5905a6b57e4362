SPECIFICATION FairSpec
CONSTANTS
  Callers = {c1, c2, c3}
  MaxLosses = 2
INVARIANTS
  ReturnedIsExpected
PROPERTIES
  NoNeedlessDownload
  EveryAcquisitionEnds
