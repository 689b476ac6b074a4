CONSTANTS
  c1 = c1
  c2 = c2
  n1 = n1
  n2 = n2
  a1 = a1
  a2 = a2
  h1 = h1
  h2 = h2
  path = path
  ka1 = ka1
  ka2 = ka2
  Client <- MCClient
  Nego = {n1, n2}
  Actor <- MCActor
  Required = {a1, a2}
  Hash <- MCHash
  Path = {path}
  PathOf <- MCPathOf
  Authorized <- MCAuthorized
  Key = {ka1, ka2}
  RegKeys <- MCRegKeys
  Loads <- MCLoads
  Statuses = {"proposed"}
  InitJournal <- MCInitJournal
  MaxLen = 4
  Revocable <- MCRevocable
  None = None
  Torn = Torn
SYMMETRY Perms
CHECK_DEADLOCK FALSE
SPECIFICATION Spec
INVARIANTS
  TypeOK
  JournalChained
  StabilizedByQuorum
  AnnouncedOnDisk
  StateFollowsJournal
  WriteNotStale
PROPERTIES
  ArtifactWriteOnce
