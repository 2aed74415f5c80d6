SPECIFICATION FairSpec
CONSTANTS
  RegionBase = 3
  RegionPages = 5
  Requests = {1, 4}
  Managers = {"default_pmm_manager", "best_fit_pmm_manager"}
  TailFrees = FALSE
INVARIANTS
  IInv
  WellLinked
  Accounted
  Coalesced
  GrantedUnlinked
  SearchExact
PROPERTIES
  ImplementsAllocator
  CallsReturn
