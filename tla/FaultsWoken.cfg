SPECIFICATION FaultsSpec
CONSTANTS
  Threads = {t1, t2}
  Objects = {"x", "y"}
  Start <- MCStart
  ObjectSize <- MCSize
  PageSize = 3
  MaxFaults = 2
  MaxTracked = 1
  Configs <- MCHangs
  NoThread = NoThread
PROPERTIES
  Woken
CHECK_DEADLOCK FALSE
