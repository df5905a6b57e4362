SPECIFICATION Spec
CONSTANTS
  NoOne = NoOne
  Writers = {w1, w2, w3}
  Readers = {r1}
  Inodes = {i1, i2, i3}
  NoInode = NoInode
  ImageCount = 1
  FaultPoints <- AllFaults
SYMMETRY Interchangeable
INVARIANTS
  HitIsOneGeneration
  FinalIsComplete
  NothingLeftBehind
PROPERTIES
  NoGapNoReturn
  ImplementsRegister
