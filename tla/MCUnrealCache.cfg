CONSTANTS
  a1 = a1
  a2 = a2
  Arena = {a1, a2}
  ArenaPath <- MCArenaPath
  Path <- MCPath
  Peer = {q1, q2}
  Hash = {h1, h2}
  None = None
  MaxHistory = 1
  MaxUuid = 1
  GlobalRange = 2
  ArenaRange = 2
  Budget <- MCBudget
SYMMETRY Symmetry
SPECIFICATION ArenaSpec
INVARIANTS TreeSound InodesOwned ArenaShown ListedAll
PROPERTIES JobsReachEngine PathCacheSpec
CHECK_DEADLOCK FALSE
