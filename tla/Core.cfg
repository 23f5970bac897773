\* Three concurrent operations on a row that comes and goes.
SPECIFICATION Spec
CONSTANTS
  Tasks = {t1, t2, t3}
  Sups = {s1, s2, s3}
  NoTask = NoTask
  NoSup = NoSup
  Kinds = {"stop", "restart", "delete"}
  ChanCap = 1
  Autostart = TRUE
  Autorestart = TRUE
  MaxRestarts = 2
  Delayed = TRUE
  Watch = TRUE
SYMMETRY Symmetry
INVARIANTS
  TypeOK
  SingleSupervisor
  OneChild
  PidIsOwned
  ReplyIsOwed
PROPERTIES
  DeleteSticks
