SPECIFICATION MCSpec
CONSTANTS
  Procs = {p1, p2}
  p1 = p1
  p2 = p2
  Blocks = {b1, b2, b3}
  b1 = b1
  b2 = b2
  b3 = b3
  d1 = d1
  Data = {d0, d1}
  Zero = d0
  None = None
  LogSize = 3
  NLog = 3
  MaxOpBlocks = 1
  OpBlocks = 1
INVARIANT NoPanic
