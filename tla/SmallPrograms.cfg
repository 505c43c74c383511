SPECIFICATION AllSpec
CONSTANTS
  Main = Main
  ROUNDS = 2
  NoData = NoData
  Racers = {t1, t2}
  Demos = {t1, t2, t3}
  LOOPS = 2
  SEC = 2
  SHOT = 2
  FIRST = 1
  PERIOD = 3
  TIMEOUT = 1
  PROMPT = 1
  SLOW = 7
  MaxMissed = 2
  MaxLines = 3
  Callers = {c1, c2, c3}
  MaxServers = 2
  PipeSize = 3
INVARIANTS
  RightThread
  SignalsCounted
  RacesBounded
PROPERTIES
  BarriersHold
  AllServed
  LinesComeBack
  NobodyWaits
CHECK_DEADLOCK FALSE
