SPECIFICATION Spec
CONSTANTS
  Clients = {c1, c2, c3}
  None = None
  LISTEN = 1
  MAXCLIENTS = 2
  MaxLines = 1
  Polite = FALSE
SYMMETRY ClientSymmetry
INVARIANTS
  FirstReadReady
PROPERTIES
  ImplementsService
CHECK_DEADLOCK FALSE
