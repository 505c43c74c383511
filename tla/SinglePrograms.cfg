SPECIFICATION AllSpec
CONSTANTS
  NULL = NULL
  None = None
  Buffers = {b1, b2, b3}
  FRAMES = 4
  TURNS = 8
  NoneQueued = NoneQueued
  Setups <- MCSetups
  Console = Console
  Off = Off
  Null = Null
  MaxSessions = 3
  MaxFaults = 3
  MaxTyped = 3
  RoomA = 2
  RoomB = 1
INVARIANTS
  ConfRight
  FlipOwnership
  CleanupSafe
  SinkSafe
  DrawnBehind
PROPERTIES
  LinesGoOut
  BothCarried
CHECK_DEADLOCK FALSE
