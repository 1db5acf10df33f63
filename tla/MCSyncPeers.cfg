CONSTANTS
  Peer = {q1, q2}
  Path = {p1}
  Hash = {h1, h2}
  None = None
  Writer = {w1}
  MaxHistory = 2
  MaxUuid = 1
  MaxDrops = 1
  ChannelSize = 1
  BatchMax = 1
  MaxDisconnects = 1
  MaxLeftovers = 1
SYMMETRY Symmetry
SPECIFICATION Spec
CONSTRAINT DropOrDisconnect
INVARIANTS VisibleIffHeld ShownIsAvailable
CHECK_DEADLOCK FALSE
