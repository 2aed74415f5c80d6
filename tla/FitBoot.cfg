SPECIFICATION FairCheckSpec
CONSTANTS
  RegionBase = 3
  RegionPages = 6
  Requests = {1}
  Managers = {"default_pmm_manager", "best_fit_pmm_manager"}
  TailFrees = FALSE
INVARIANTS
  CheckPasses
PROPERTIES
  Boots
  CheckThenAllocate
