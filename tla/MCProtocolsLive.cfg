SPECIFICATION MCSpec
CONSTANTS
  NoTree = NoTree
  Visited = {b1, b2}
  Builders = {b1, b2}
  MaxVersion = 1
  MaxRetired = 0
  FaultPoints <- PhaseFaults
  NoOne = NoOne
  Writers = {w1, w2}
  Readers = {r1}
  Inodes = {i1, i2, i3}
  NoInode = NoInode
  ImageCount = 2
  StoreFaults <- RefreshFaults
PROPERTIES
  BuildsEnd
  ImplementsAtomic
  CacheCallsEnd
