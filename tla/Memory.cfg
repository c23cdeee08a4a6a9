SPECIFICATION MCSpec
CONSTANTS
  NPages = 16
  Processes = {1, 2}
  Values = {0, 1}
  Programs <- MCPrograms
  Increments <- MCIncrements
  MaxPages = 4
  MaxCalls = 5
  PAGE_SIZE = 4
  NumPages = 8
  PageSizes = {1, 5, 8, 9, 12}
  HeaderSize = 2
  MoreUnits = 4
  MaxHeap = 13
  Sizes = {0, 3, 5}
  Slots = {a, b, c}
  NoBlock = none
INVARIANTS MemoryExact NothingLost Accounted
PROPERTIES ImplementsAddressSpaces HeapsImplementAllocator TestsPass
CHECK_DEADLOCK FALSE
