SPECIFICATION Spec
CONSTANTS
  RegionBase = 3
  RegionPages = 4
  Requests = {1, 2}
  Managers = {"best_fit_pmm_manager"}
  TailFrees = TRUE
INVARIANTS
  GrantedUnlinked
