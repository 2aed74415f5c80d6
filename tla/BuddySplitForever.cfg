SPECIFICATION Spec
CONSTANTS
  MAX_ORDER = 2
  BlockSize <- MCBlockSize
  RegionBase = 3
  RegionPages = 4
  Requests = {1, 3}
INVARIANTS
  CoalesceBack
