CONSTANTS
  p1 = p1
  p2 = p2
  Proc <- MCProc
  MaxDepth = 1
  MaxInc = 2
  MaxBoot = 1
  LinkWorks = {TRUE, FALSE}
  Qualified = TRUE
  Decidable <- MCProc
  Reclaimers <- MCProc
  Faults = {"publish", "write", "unstage", "verify", "sync", "recovery", "unlink"}
  Leftovers <- MCLeftovers
  None = None
SYMMETRY Perms
SPECIFICATION Spec
INVARIANTS
  MutualExclusion
PROPERTIES
  LiveRecordKept
  ImplementsLockService
