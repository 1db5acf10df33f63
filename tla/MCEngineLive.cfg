CONSTANTS
  Path = {p1, p2}
  Writer = {w1}
  Stream = {s1}
  NoPath = NoPath
  MaxFailures = 2
  Delay <- MCDelay
  MaxCounter = 3
  MaxTime = 2
  MaxRestarts = 0
SPECIFICATION FairSpec
PROPERTIES DirtyPathHandled
CHECK_DEADLOCK FALSE
