SPECIFICATION MCSpec
CONSTANTS
  ByteBits = 1
  NReg = 2
  ResetPC = 0
  Programs <- MCPrograms
  InitRegs <- MCRegs
  InitRam <- MCRam
  InitVec <- MCVec
  Latencies = {0, 2, 3}
  Irqs = {7}
PROPERTIES BothImplementRV32 KeepsRetiring
CHECK_DEADLOCK FALSE
