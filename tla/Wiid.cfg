SPECIFICATION WiidSpec
CONSTANTS
  Mapped = {a}
  Held = {{a}, {a, one}}
  LEDS = 2
  RATE = 1
  Tilts = {{"REL_X", "REL_Z"}, {}}
  MaxConns = 2
  MaxMsgs = 2
  MaxTime = 2
  MaxFaults = 1
INVARIANTS ClicksComplete SamplesApart
PROPERTIES LossNoticed
CHECK_DEADLOCK FALSE
