\* One connection with a ring of two events and a socket of one frame.
SPECIFICATION FairSpec
CONSTANTS
  a = a
  b = b
  Names = {a, b}
  NoName = NoName
  Subscribers = {s1}
  Topics = {"log"}
  Kill = "kill"
  Asks <- MCAsks
  MaxId = 0
  Cap = 2
  WireCap = 1
  MaxEvents = 4
INVARIANTS
  NothingLostSilently
  ForeignAfterReuse
PROPERTIES
  DeadSubscribersLeave
  Forwarded
CHECK_DEADLOCK FALSE
