\* No symmetry: the property is temporal.
SPECIFICATION FairSpec
CONSTANTS
  Tasks = {t1, t2}
  Sups = {s1, s2}
  NoTask = NoTask
  NoSup = NoSup
  Kinds = {"stop", "restart", "delete", "kill"}
  ChanCap = 1
  Autostart = TRUE
  Autorestart = TRUE
  MaxRestarts = 1
  Delayed = FALSE
  Watch = FALSE
CHECK_DEADLOCK FALSE
PROPERTIES
  OperationsReturn
