SPECIFICATION MCSpec
CONSTANTS
  Bufs = {v1, v2, v3}
  Data = {d0, d1}
  NUM = 7
  Wrap = 7
  None = None
  Intr = Intr
  Procs = {v1, v2, v3}
  Blocks = {v1, v2, v3}
  Buffers = {c0, c1}
  Contents = {c0, c1}
  Nobody = Nobody
  Sectors = {0, 1}
  Queue = 4
  Uint16 = 4
  MaxTests = 3
  MaxKeys = 2
INVARIANTS DriverSound CacheSound KernelSound
PROPERTIES ImplementsBlockDevice ImplementsBlockStore ImplementsOneBlock
SYMMETRY MCSymmetry
