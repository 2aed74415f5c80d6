SPECIFICATION Spec
CONSTANTS
  PGSIZE = 16
  HeaderSize = 4
  SLUB_NCACHE = 3
  ObjSize <- MCObjSize
  Region = {0, 1}
  Sizes = {8, 16}
INVARIANTS
  ObjectAtHand
