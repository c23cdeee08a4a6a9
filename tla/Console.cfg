SPECIFICATION FairSpec
CONSTANTS
  Readers = {r1, r2}
  Writers = {w1, w2}
  INPUT_BUF = 3
  UART_TX_BUF_SIZE = 1
  FifoSize = 2
  RxSize = 1
  UintMod = 6
  Starts = {5}
  MaxRead = 2
  Loads <- MCLoads
INVARIANT SleepersHaveCause
PROPERTIES ImplementsTerminal OutputInOrder OutputDrains
CHECK_DEADLOCK FALSE
