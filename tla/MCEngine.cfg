CONSTANTS
  Path = {p1, p2}
  Writer = {w1, w2}
  Stream = {s1}
  NoPath = NoPath
  MaxFailures = 2
  Delay <- MCDelay
  MaxCounter = 3
  MaxTime = 2
  MaxRestarts = 1
SYMMETRY Symmetry
SPECIFICATION Spec
INVARIANTS TypeOK TablesAgree NoLostWork NoSkippedJob NoHiddenRetry
PROPERTIES ReportClearsOwnMark
CHECK_DEADLOCK FALSE
