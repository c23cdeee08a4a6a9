SPECIFICATION MCSpec
CONSTANTS
  Procs = {p1, p2}
  Names = {a, b}
  NInodes = 4
  Slots = {s1, s2, s3}
  Calls <- MCCalls
  None = None
  NPROC = 3
  CPUs = {c1, c2}
  MaxPid = 3
  KillPids = {2}
  NoCpu = NoCpu
INVARIANTS FsSound LocksOrdered TableSound LockHoldersMove
PROPERTIES RemovedRight ImplementsProcTree
SYMMETRY MCSymmetry
