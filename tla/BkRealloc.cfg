SPECIFICATION Spec
CONSTANTS
  NrClasses = 4
  MaxSlots = 1
  RegionSlots = 1
  ChunkEnd = 10
  SlotBase = 16
  BlockUnits = 40
  PageUnits = 8
  Threads = {t1}
  Heaps = {g}
  UserHeaps = {}
  Blocks = {b1, b2}
  Requests = {5, 8}
  Aligns = {1}
  BigZero = 9
  MaxReuse = 40
  DecommitAfter = 1
  ReleaseAfter = 2
  FreeThreshold = 1
  Policies = {"failure"}
  MaxLive = 5
  None = None
SYMMETRY Symmetry
INVARIANTS UsableApart
