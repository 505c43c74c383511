SPECIFICATION MioFairSpec
CONSTANTS
  Clients = {c1, c2}
  SERVER = SERVER
  MaxPieces = 2
  SendBuffer = 1
INVARIANTS
  NeverUnreachable
  EchoFaithful
PROPERTIES
  ClosedForAReason
  EveryoneEchoed
CHECK_DEADLOCK FALSE
