CONSTANTS
  p1 = p1
  p2 = p2
  p3 = p3
  far = far
  m1 = m1
  m2 = m2
  c1 = c1
  c2 = c2
  c3 = c3
  Proc <- MCProc
  Machine <- MCMachine
  Host <- MCHost
  Boot <- MCBoot
  Ns <- MCNs
  Pid <- MCPid
  TimeNs <- MCTimeNs
  Source <- MCSource
  Blind <- MCBlind
  Linux <- MCProc
  MaxRounds = 2
  MaxChain = 2
  MaxTok <- MCMaxTok
  Faults = {"publish", "retire", "release", "purge"}
  None = None
CHECK_DEADLOCK FALSE
SPECIFICATION Spec
INVARIANTS
  TypeOK
  AtMostOneHolder
  NoFalseDeath
  UniqueSuccessor
PROPERTIES
  ChainKept
  TargetedUnlink
