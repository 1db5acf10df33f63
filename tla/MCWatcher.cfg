CONSTANTS
  Path = {p1}
  Dir = dir
  Excludable = {p1}
  Content = {c1, c2}
  Empty = Empty
  Garbled = Garbled
  None = None
  MaxOps = 3
  MaxStarts = 2
  MaxUpdates = 2
SPECIFICATION Spec
INVARIANTS IndexedHashRight RemovesOnlyReplaced
PROPERTY IndexCatchesUp
CHECK_DEADLOCK FALSE
