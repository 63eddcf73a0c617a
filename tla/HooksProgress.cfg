SPECIFICATION FairSpec
CONSTANTS
  Threads = {t1, t2}
  HeapPtrs = {1}
  MapPtrs = {2}
  Sites = {s1}
  MaxSites = 1
  SiteSize = 2
  PtrHash <- MCInjective
  CanExit = TRUE
  CanQuit = FALSE
  MaxAge = 1
  MaxCalls = 1
  NoThread = NoThread
  NoPtr = NoPtr
INVARIANTS
  StrayUnlockHarmless
PROPERTIES
  BkReleased
  AllocReturns
  ExitEnds
