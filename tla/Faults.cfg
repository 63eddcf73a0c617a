SPECIFICATION FaultsSpec
CONSTANTS
  Threads = {t1, t2}
  Objects = {"x", "y"}
  Start <- MCStart
  ObjectSize <- MCSize
  PageSize = 3
  MaxFaults = 2
  MaxTracked = 1
  Configs <- MCConfigs
  NoThread = NoThread
INVARIANTS
  OpenedAreRecorded
  DeadlockNeedsClosedPages
PROPERTIES
  DeliveredOnce
  Served
CHECK_DEADLOCK FALSE
