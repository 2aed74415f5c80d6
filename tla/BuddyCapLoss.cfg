SPECIFICATION CheckSpec
CONSTANTS
  MAX_ORDER = 3
  BlockSize <- MCBlockSize
  RegionBase = 16
  RegionPages = 16
  Requests = {1, 2, 3, 4, 8}
  Sizes = {1}
  N = 1
  Rounds = 1
  CAP = 1
INVARIANTS
  CheckPasses
