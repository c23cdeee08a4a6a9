SPECIFICATION MCSpec
CONSTANTS
  NHart = 2
  NPROC = 2
  MaxSleep = 1
  Killable = {0}
  Devices = {uart}
INVARIANTS HartsSafe
PROPERTIES ImplementsUninterrupted SleepEnds 
CHECK_DEADLOCK FALSE
