CONSTANTS
  Path = {p1}
  Hash = {h1, h2}
  None = None
  Parts = 2
  File = {f1, f2, f3}
  Task = {t1}
  MaxBlob = 1
  MaxChanges = 2
  MaxCrashes = 1
SYMMETRY Symmetry
SPECIFICATION Spec
INVARIANTS TypeOK BlobsOwned AvailableUnlessHarmed VerifiedUnlessHarmed 
CHECK_DEADLOCK FALSE
