\* Two instances of an app, two pumps.
SPECIFICATION FairSpec
CONSTANTS
  Pumps = {p1, p2}
  MaxRows = 2
  MaxRemovers = 1
INVARIANTS
  StaleIsNoticed
  QuietIsFlushed
PROPERTY
  DeletedIsRecovered
CHECK_DEADLOCK FALSE
