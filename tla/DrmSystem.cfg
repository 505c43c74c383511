SPECIFICATION FairSpec
CONSTANTS
  CrtcClients = {c1}
  PlaneClients = {p1}
  NoClient = NoClient
  MAXCLIENTS = 1
  MaxFaults = 1
INVARIANTS
  ReadNeverBlocks
  InfoIsOwn
  LeftAsFound
  CleanupExact
PROPERTIES
  ClientsEnd
CHECK_DEADLOCK FALSE
