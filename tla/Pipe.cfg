SPECIFICATION MCSpec
CONSTANTS
  Writers = {w1}
  Readers = {r1, r2}
  Data = {d0, d1}
  PipeSize = 2
  Wrap = 4
  Lengths = {1, 3}
  Killable = {r1, w1}
  None = None
  Slots = {1, 2, 3, 4, 5, 6, 7}
  NOFILE = 6
  NFILE = 9
  Pipes = {1, 2, 3}
  PipeCap = 1
  FileNames = {"f", "g", "h"}
  Trees <- MCTrees
  Typos <- MCTypos
  MaxLines = 2
  Others <- MCOthers
  Patterns <- MCPatterns
  Inputs <- MCInputs
  BufSize = 5
  DIRSIZ = 3
  FullNames <- MCNames
INVARIANTS FreedLast SleepersNotified LinesMean GrepRight
PROPERTIES EOFOnlyWhenClosed ImplementsByteStream PromptReturns
CHECK_DEADLOCK FALSE
