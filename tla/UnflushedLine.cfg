\* A pump that waits with a complete line unwritten.
SPECIFICATION Spec
CONSTANTS
  Pumps = {p1, p2}
  MaxRows = 2
  MaxRemovers = 1
INVARIANT
  PromptWhenQuiet
CHECK_DEADLOCK FALSE
