CONSTANTS
  p1 = p1
  p2 = p2
  Proc <- MCProc
  LeaseMs = 2
  MaxStall = 1
  MaxCrash = 2
  None = None
SPECIFICATION LiveSpec
INVARIANTS
  TypeOK
  CreateIsExclusive
PROPERTIES
  LoopKeepsTicking
