CONSTANTS
  Job = {j1, j2}
  Limit = 1
  MaxIndex = 2
  None = None
  Capacity = 3
  Parallel = 2
  MaxTasks = 2
  MaxRuns = 2
  MaxClients = 1
SYMMETRY Symmetry
SPECIFICATION Spec
INVARIANTS TrackersBounded TrackerFollows ClientFollows
CHECK_DEADLOCK FALSE
