CONSTANTS
  Peer = {p1, p2}
  Op = {o1}
  Chunks = 1
  MaxTrackers = 2
  MaxBreaks = 1
  MaxErrors = 1
SPECIFICATION Spec
INVARIANTS ClientTracked CompleteOrError
PROPERTIES KeptConnected OpsAnswered
CHECK_DEADLOCK FALSE
