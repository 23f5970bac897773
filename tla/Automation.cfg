\* Every kind of restart at once.
SPECIFICATION Spec
CONSTANTS
  Agents = {a1, a2, a3}
  NoAgent = NoAgent
  Configs = {{"cron", "watch"}, {"health", "watch"}, {"cron", "health", "memory"}}
  MaxFails = 2
SYMMETRY Symmetry
INVARIANTS
  WatchArmed
PROPERTIES
  RevivalIsStale
  ForeignIsLate
