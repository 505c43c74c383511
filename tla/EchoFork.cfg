SPECIFICATION FairSpec
CONSTANTS
  Clients = {c1, c2}
  None = None
  LISTEN = 1
  MAXCLIENTS = 1
  MaxLines = 2
  Polite = FALSE
INVARIANTS
  NothingLeftOpen
PROPERTIES
  ZombiesReaped
  LinesAnswered
CHECK_DEADLOCK FALSE
