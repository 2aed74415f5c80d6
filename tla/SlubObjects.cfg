SPECIFICATION FairSpec
CONSTANTS
  PGSIZE = 16
  HeaderSize = 4
  SLUB_NCACHE = 3
  ObjSize <- MCObjSize
  Region = {0, 1, 2}
  Sizes = {0, 3, 8, 17}
INVARIANTS
  IInv
  ObjectsApart
  ObjectsConserved
  GrowsOnlyWhenFull
PROPERTIES
  ImplementsHeap
  KmallocReturns
