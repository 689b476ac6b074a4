CONSTANTS
  w1 = w1
  w2 = w2
  a1 = a1
  a2 = a2
  t1 = t1
  Writer = {w1, w2}
  Agg = {a1, a2}
  Token = {t1}
  Commands <- MCCommands
  Foreign <- MCForeign
  Faults = {"crash", "newline"}
  MaxId = 3
  MaxMerge = 0
  NoToken = NoToken
  Reseal = Reseal
  None = None
CHECK_DEADLOCK FALSE
SYMMETRY Perms
SPECIFICATION Spec
INVARIANTS
  AckedKept
