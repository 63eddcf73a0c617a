SPECIFICATION Spec
CONSTANTS
  Threads = {t1}
  HeapPtrs = {1, 2}
  MapPtrs = {}
  Sites = {s1}
  MaxSites = 1
  SiteSize = 3
  PtrHash <- MCColliding
  CanExit = FALSE
  CanQuit = FALSE
  MaxAge = 1
  MaxCalls = 1
  NoThread = NoThread
  NoPtr = NoPtr
PROPERTIES
  FreeAnnounced
