CONSTANTS
  p1 = p1
  p2 = p2
  Proc <- MCProc
  MaxDepth = 1
  MaxInc = 1
  MaxBoot = 0
  LinkWorks = {TRUE}
  Qualified = TRUE
  Decidable <- MCProc
  Reclaimers <- MCProc
  Faults = {"verify"}
  Leftovers <- MCLeftovers
  None = None
SPECIFICATION Spec
INVARIANTS
  ReleasedOnFailure
