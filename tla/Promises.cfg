\* Every operation, with the daemon's shutdown; the daemon ends, so the
\* behaviours do.
SPECIFICATION PromiseSpec
CONSTANTS
  Tasks = {t1, t2}
  Sups = {s1, s2}
  NoTask = NoTask
  NoSup = NoSup
  Kinds = {"stop", "restart", "delete", "kill"}
  ChanCap = 1
  Autostart = TRUE
  Autorestart = TRUE
  MaxRestarts = 2
  Delayed = TRUE
  Watch = TRUE
SYMMETRY Symmetry
CHECK_DEADLOCK FALSE
INVARIANTS
  DropsNeedARace
  StuckNeedsARace
  OrphansAreLate
  StatusIsReal
PROPERTIES
  OneLifeCycle
  StopWins
  RestartTakesEffect
