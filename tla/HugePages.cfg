SPECIFICATION Spec
CONSTANTS
  Threads = {t1, t2}
  Mappers = {t1}
  Blocks = {1, 2, 3}
  Capacity = 3
  Home <- MCHome
  MaxIntervals = 2
  MaxHooks = 4
  Wrap = 8
  NoBlock = 0
INVARIANTS
  LivesetExact
  MissesBounded
  AgesFollow
  CrashesNeedRelease
CHECK_DEADLOCK FALSE
