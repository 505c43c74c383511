SPECIFICATION Spec
CONSTANTS
  Clients = {c1, c2}
  None = None
  LISTEN = 1
  MAXCLIENTS = 3
  MaxLines = 1
  Polite = FALSE
INVARIANTS
  OnlySigIntStops
CHECK_DEADLOCK FALSE
