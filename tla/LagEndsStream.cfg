\* A client that lags: its stream ends although the daemon is up.
SPECIFICATION Spec
CONSTANTS
  a = a
  b = b
  Names = {a, b}
  NoName = NoName
  Subscribers = {s1}
  Topics = {"log"}
  Kill = "kill"
  Asks <- MCAsks
  MaxId = 0
  Cap = 2
  WireCap = 1
  MaxEvents = 4
INVARIANT
  LagOnlyDrops
CHECK_DEADLOCK FALSE
