SPECIFICATION PartsSpec
CONSTANTS
  Size = 3
  Keys <- MCKeys
  Values = {zero, a, b}
  Zero = zero
  Hash <- MCAdjacent
  Free = Free
  None = None
  Removable = {}
  Ptrs = {1, 2}
  NoPtr = 0
  MaxAge = 2
  MaxTold = 2
  Pages = {0, 1, 2}
  Frames = {"f", "g", "h"}
  SizeOf <- MCObjectSize
  Address <- MCAddress
  Generations = {1, 2}
  PAGE_SIZE = 4
  MaxIntervals = 3
  MaxAllocated = 9
  Mappings <- MCMappings
  VecSize = 3
  VecValues = {1, 2}
  Unset = 0
  TextSize = 6
  Half = 100
  Precision = 10
  MaxNumber = 120
  Letters = {" ", "%", "d", "x"}
  Titles <- MCTitles
  OtherTitle = "D"
  CellValues = {"x"}
  RowLimit = 2
  MaxReports = 3
  BkThreads = {"t1", "t2", "t3"}
  NameThreads = {"t1", "t3"}
  CpuOf <- MCCpuOf
  MainCpu = 1
  MainThreadUseGlobal = TRUE
  MaxHeaps = 4
  TableKeys = {"a", "b", "c"}
  TableHash <- MCTableHash
  ht_prime_sizes <- MCPrimes
  NoValue = NoValue
CHECK_DEADLOCK FALSE
INVARIANTS
   PageRowsExact  GenerationsRight
  OperationsExact FileReadsBack
  SlotHeapsShared NamesKeepHeaps
PROPERTIES
  ImplementsMap
  VecIsSequence
