CONSTANTS
  p1 = p1
  p2 = p2
  Proc <- MCProc
  MaxDepth = 3
  MaxInc = 2
  MaxBoot = 0
  LinkWorks = {TRUE}
  Qualified = TRUE
  Decidable <- MCProc
  Reclaimers <- MCProc
  Faults = {}
  Leftovers <- MCStale
  None = None
SPECIFICATION LiveSpec
PROPERTIES
  StaleLockEvicted
