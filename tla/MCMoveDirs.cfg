CONSTANTS
  Data = {a}
  MaxSize = 2
  Zero = Zero
  ZeroHash = ZeroHash
  None = None
  Mover = {m1}
  MaxSaves = 1
  MaxFails = 1
  MaxLate = 1
SPECIFICATION Spec
 
PROPERTY EventuallyMoved
CHECK_DEADLOCK FALSE
