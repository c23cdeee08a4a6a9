SPECIFICATION AllSpec
CONSTANTS
  ByteBits = 1
  NReg = 2
  ResetPC = 0
  Programs <- AllPrograms
  InitRegs <- MCRegs
  InitRam <- MCRam
  InitVec <- MCVec
  Latencies = {0, 1, 2, 3}
  Irqs = {7}
PROPERTY BothImplementRV32
CHECK_DEADLOCK FALSE
