CONSTANTS
  p1 = p1
  p2 = p2
  Proc <- MCProc
  MaxDepth = 2
  MaxInc = 2
  MaxBoot = 1
  LinkWorks = {TRUE, FALSE}
  Qualified = TRUE
  Decidable <- MCProc
  Reclaimers <- MCProc
  Faults = {}
  Leftovers <- MCLeftovers
  None = None
SYMMETRY Perms
SPECIFICATION Spec
INVARIANTS
  TypeOK
  MutualExclusion
  RecoverySerialized
PROPERTIES
  LiveRecordKept
  QuarantinedFirst
  ImplementsLockService
