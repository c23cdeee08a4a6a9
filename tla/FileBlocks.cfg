SPECIFICATION Spec
CONSTANTS
  Procs = {p, q}
  Files <- MCFiles
  BSIZE = 2
  NDIRECT = 1
  NINDIRECT = 2
  FSSIZE = 13
  BPB = 10
  MAXOPBLOCKS = 6
  UintMod = 32
  Counts = {1, 5}
  Sizes <- MCSizes
  Opened = {2, 3}
  MaxCalls = 3
SYMMETRY MCSymmetry
INVARIANT FilesSound
PROPERTY ImplementsFiles
CHECK_DEADLOCK FALSE
