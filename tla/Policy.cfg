CONSTANTS
  MinUptime = 2
  MaxRestarts = 3
  RestartDelay = 1
  Bases = {0, 1, 2, 7}
  Cap = 5
  ResetAfter = 3

SPECIFICATION Spec

INVARIANT GiveUpIsEarned
INVARIANT BackoffBounded
PROPERTY CrashLoopEnds
PROPERTY BackoffEndsByStability
