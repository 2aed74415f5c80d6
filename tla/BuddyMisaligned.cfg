SPECIFICATION FairSpec
CONSTANTS
  MAX_ORDER = 2
  BlockSize <- MCBlockSize
  RegionBase = 3
  RegionPages = 8
  Requests = {0, 1, 2, 3, 4, 9}
INVARIANTS
  IInv
  NoOverlap
  FreeCount
PROPERTIES
  LossOnlyAtCap
  ImplementsLossyAllocator
  CallsReturn
