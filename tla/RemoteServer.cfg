CONSTANTS
  p1 = p1
  p2 = p2
  i1 = i1
  k1 = k1
  s1 = s1
  e1 = e1
  e2 = e2
  x1 = x1
  Proc = {p1, p2}
  Inst = {i1}
  Key = {k1}
  RegKeys <- MCRegKeys
  Agents = {i1}
  Sub = {s1}
  Parent <- MCParent
  Env = {e1, e2}
  MsgId = {x1}
  Id <- MCId
  MaxKeyLog = 2
  MaxAudit = 2
  None = None
  Remote = {e1, e2}
  Signer <- MCSigner
  SignKey <- MCSignKey
  Created <- MCCreated
  To <- MCTo
  MaxAge = 1
  MaxSkew = 0
  MaxNow = 2
  MaxRestarts = 1
CHECK_DEADLOCK FALSE
SYMMETRY Perms
SPECIFICATION Spec
INVARIANTS
  TypeOK
  OffboardComplete
  RevokedOnce
  AcceptedOnce
  RememberedDelivered
  LateRoutesOnly
PROPERTIES
  NoAcceptAfterOffboard
