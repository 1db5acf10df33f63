CONSTANTS
  Peer = {q1}
  Path = {p1, p2}
  Hash = {h1, h2}
  None = None
  Writer = {w1}
  MaxHistory = 3
  MaxUuid = 1
  MaxDrops = 0
  ChannelSize = 1
  BatchMax = 1
  MaxDisconnects = 1
  MaxLeftovers = 0
SPECIFICATION FairSpec
INVARIANTS TypeOK HistoryExplainsIndex 
PROPERTY EventuallyInSync
CHECK_DEADLOCK FALSE
