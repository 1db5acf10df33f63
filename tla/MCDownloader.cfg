CONSTANTS
  HashSize = 2
  Radix = 3
  Unset = Unset
  Invalid = Invalid
  Size = 5
  MinChunk = 2
  MaxChunk = 4
  BufSize = {0, 1, 3}
  MaxReads = 5
SPECIFICATION ReaderSpec
INVARIANTS  MemoryIsStored
 
CHECK_DEADLOCK FALSE
