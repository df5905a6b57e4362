SPECIFICATION FairSpec
CONSTANTS
  Recordings = {r1, r2, r3}
  MaxWorkers = 2
  WritesFail = TRUE
  CleanupsFail = TRUE
INVARIANTS
  PublicationIsAuthorised
  ExportReadsLiveTrees
  NoUnaccountedTree
  PublishedKeepsQuarantine
PROPERTIES
  BuildEnds
