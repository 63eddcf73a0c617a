SPECIFICATION Spec
CONSTANTS
  NrClasses = 1
  MaxSlots = 2
  RegionSlots = 1
  ChunkEnd = 7
  SlotBase = 8
  BlockUnits = 16
  PageUnits = 4
  Threads = {t1, t2}
  Heaps = {u}
  UserHeaps = {u}
  Blocks = {b1, b2, b3}
  Requests = {1, 9}
  Aligns = {1, 4}
  BigZero = 2
  MaxReuse = 32
  DecommitAfter = 1
  ReleaseAfter = 2
  FreeThreshold = 0
  Policies = {"failure", "free_threshold"}
  MaxLive = 2
  None = None
SYMMETRY Symmetry
INVARIANTS  CountsExact BlocksPlaced ReuseCounted  CallocClean
PROPERTIES ImplementsAllocator
