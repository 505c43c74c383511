SPECIFICATION McastSpec
CONSTANTS
  near = near
  far = far
  server = server
  McastClients <- MCClients
  Servers <- MCServers
  Setups <- MCSetups
  TextLen <- MCTextLen
  BUFFER = 4
  FAULTS = 2
  Other = Other
  NUL = NUL
  Junk = Junk
  MaxPackets = 2
  MaxEnters = 1
  MaxDups = 1
  MaxEmpty = 1
INVARIANTS
  OwnText
  PacketsAccounted
CHECK_DEADLOCK FALSE
