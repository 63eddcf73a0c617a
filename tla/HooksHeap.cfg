SPECIFICATION Spec
CONSTANTS
  Threads = {t1, t2}
  HeapPtrs = {1, 2}
  MapPtrs = {}
  Sites = {s1, s2, s3}
  MaxSites = 2
  SiteSize = 2
  PtrHash <- MCInjective
  CanExit = FALSE
  CanQuit = FALSE
  MaxAge = 1
  MaxCalls = 2
  NoThread = NoThread
  NoPtr = NoPtr
SYMMETRY Symmetry
CONSTRAINT MissedNotReused
INVARIANTS
  TrackedLive
  AnnouncedTracked
  SiteNeverFull
  AgeNeverAhead
  SitesExclusive
PROPERTIES
  ImplementsEvents
  MissedAreLast
