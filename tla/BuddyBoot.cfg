SPECIFICATION FairCheckSpec
CONSTANTS
  MAX_ORDER = 2
  BlockSize <- MCBlockSize
  RegionBase = 4
  RegionPages = 10
  Requests = {1, 2, 3, 4, 8}
  Sizes = {1, 3, 4, 8}
  N = 4
  Rounds = 2
  CAP = 12
INVARIANTS
  CheckPasses
  EagerCoalescing
  CoalesceBack
PROPERTIES
  ImplementsAllocator
  Boots
