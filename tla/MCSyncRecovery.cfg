CONSTANTS
  Peer = {q1}
  Path = {p1}
  Hash = {h1, h2}
  None = None
  Writer = {w1}
  MaxHistory = 3
  MaxUuid = 2
  MaxDrops = 1
  ChannelSize = 2
  BatchMax = 2
  MaxDisconnects = 2
  MaxLeftovers = 0
SYMMETRY Symmetry
SPECIFICATION Spec
INVARIANTS ProgressMeaningful
CHECK_DEADLOCK FALSE
