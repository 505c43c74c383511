SPECIFICATION FairSpec
CONSTANTS
  Clients = {c1, c2}
  None = None
  LISTEN = 1
  MAXCLIENTS = 3
  MaxLines = 2
  Polite = TRUE
PROPERTIES
  EveryoneAttended
CHECK_DEADLOCK FALSE
