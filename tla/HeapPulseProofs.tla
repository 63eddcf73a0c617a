-------------------------- MODULE HeapPulseProofs --------------------------
(***************************************************************************)
(* Proofs about the hooks and the suite, for every number of threads,      *)
(* pointers and sites.  Those about locks and flags hold as long as the    *)
(* program does not exit: the last interval of an exiting program takes no *)
(* lock, and TLC shows what that breaks.  Those about the data, that it is *)
(* well typed and that no site's map ever fills up, hold of every program. *)
(***************************************************************************)
EXTENDS HeapPulseProps, FiniteSetTheorems, TLAPS

\* The types of what the control of the hooks depends on.
ControlOK ==
  /\ pc \in [Threads -> Labels]
  /\ call \in [Threads -> Calls]
  /\ bk_lock \in Threads \cup {NoThread}
  /\ hooks_lock \in Threads \cup {NoThread}
  /\ hook_lock \in Threads \cup {NoThread}
  /\ WORKING_THREAD_ID \in Threads \cup {NoThread}

NoExit == \A t \in Threads : call[t].kind # "exit"

\* Only a free or a munmap takes the way to Hooks::hook_lock.
FreesOnly ==
  \A t \in Threads : pc[t] \in {"pre_check", "walk", "lock_bk", "pre_enter", "lock_hooks"} =>
                       call[t].kind \in {"free", "munmap"}

\* Where a thread that holds Hooks::hook_lock can be: between its lock() in
\* pre_free and its unlock() there.
HooksLabels == {"schedule", "begin", "run", "end", "clear", "unlock_suite",
                "lock_suite", "remove", "unlock_hooks"}

HooksHeld ==
  \A t \in Threads : hooks_lock = t => /\ pc[t] \in HooksLabels
                                       /\ call[t].kind \in {"free", "munmap"}

\* The inductive invariant behind the theorems on the locks and the flags.
LockInv ==
  ControlOK /\ NoExit /\ FreesOnly /\ LocksHeld /\ HooksHeld /\ FlagsFollowInterval

\* It holds of the initial state.
LEMMA LockInvInit == Init => LockInv
  BY ThreadsAssumption
  DEF Init, LockInv, ControlOK, NoExit, FreesOnly, LocksHeld, HooksHeld, FlagsFollowInterval, NoCall,
      Calls, Kinds, Labels, BkLabels, SuiteLabels, HooksLabels, InInterval

\* A step of the program itself takes no lock and sets no flag.
LEMMA LockInvProgram ==
  ASSUME CanExit = FALSE, LockInv, NEW t \in Threads, Program(t) \/ PeriodElapses
  PROVE  LockInv'
  <1> USE ThreadsAssumption
      DEF LockInv, ControlOK, NoExit, FreesOnly, LocksHeld, HooksHeld, FlagsFollowInterval, InInterval,
          Calls, Kinds, Labels, BkLabels, SuiteLabels, HooksLabels, Ptrs, Enter, Goto,
          locks, flags
  <1>1. CASE malloc(t)
    BY <1>1 DEF malloc
  <1>2. CASE mmap(t)
    BY <1>2 DEF mmap
  <1>3. CASE free(t)
    BY <1>3 DEF free
  <1>4. CASE munmap(t)
    BY <1>4 DEF munmap
  <1>5. CASE PeriodElapses
    BY <1>5 DEF PeriodElapses
  <1> QED BY <1>1, <1>2, <1>3, <1>4, <1>5 DEF Program, Exit

\* No step of a hook breaks it.
LEMMA LockInvHook ==
  ASSUME LockInv, NEW t \in Threads, Hook(t)
  PROVE  LockInv'
  <1> USE ThreadsAssumption
      DEF LockInv, ControlOK, NoExit, FreesOnly, LocksHeld, HooksHeld, FlagsFollowInterval, InInterval,
          Calls, Kinds, Labels, BkLabels, SuiteLabels, HooksLabels, Goto, locks, flags
  <1>1. CASE PostCheck(t)
    BY <1>1 DEF PostCheck, Return, NoCall
  <1>2. CASE TryBk(t)
    BY <1>2 DEF TryBk, Return, NoCall, Unlocked
  <1>3. CASE PostEnter(t)
    BY <1>3 DEF PostEnter
  <1>4. CASE Update(t)
    BY <1>4 DEF Update, LeaveUpdate, Unlocked
  <1>5. CASE Record(t)
    <2>1. CASE SiteMap!Full(SiteWith(call[t].site, call[t].ptr))
      BY <1>5, <2>1 DEF Record, LeaveUpdate
    <2>2. CASE ~SiteMap!Full(SiteWith(call[t].site, call[t].ptr))
      BY <1>5, <2>2 DEF Record, PutSite
    <2> QED BY <2>1, <2>2
  <1>6. CASE UnlockStray(t)
    BY <1>6 DEF UnlockStray
  <1>7. CASE Schedule(t)
    BY <1>7 DEF Schedule, LeaveSchedule, LeaveUpdate, Unlocked
  <1>8. CASE Begin(t)
    BY <1>8 DEF Begin
  <1>9. CASE Run(t)
    BY <1>9 DEF Run
  <1>10. CASE End(t)
    BY <1>10 DEF End
  <1>11. CASE Clear(t)
    BY <1>11 DEF Clear
  <1>12. CASE UnlockSuite(t)
    BY <1>12 DEF UnlockSuite, LeaveSchedule, LeaveUpdate
  <1>13. CASE PreCheck(t)
    BY <1>13 DEF PreCheck
  <1>14. CASE LockBk(t)
    BY <1>14 DEF LockBk, Unlocked
  <1>15. CASE PreEnter(t)
    BY <1>15 DEF PreEnter
  <1>16. CASE LockHooks(t)
    BY <1>16 DEF LockHooks, Unlocked
  <1>17. CASE LockSuite(t)
    BY <1>17 DEF LockSuite, Unlocked
  <1>18. CASE RemoveRecord(t)
    BY <1>18 DEF RemoveRecord
  <1>19. CASE UnlockHooks(t)
    BY <1>19 DEF UnlockHooks
  <1>20. CASE UnlockBk(t)
    BY <1>20 DEF UnlockBk, Return, NoCall
  <1>21. CASE Release(t)
    BY <1>21 DEF Release, Return, NoCall
  <1>22. CASE Count(t)
    BY <1>22 DEF Count
  <1>23. CASE Walk(t)
    BY <1>23 DEF Walk
  <1> QED
    BY <1>1, <1>2, <1>3, <1>4, <1>5, <1>6, <1>7, <1>8, <1>9, <1>10, <1>11, <1>12, <1>13, <1>14, <1>15, <1>16, <1>17, <1>18, <1>19, <1>20, <1>21,
       <1>22, <1>23
    DEF Hook

\* The inductive invariant holds in every behaviour.
THEOREM LocksInductive ==
  ASSUME CanExit = FALSE
  PROVE  Spec => []LockInv
  <1>1. LockInv /\ [Next]_vars => LockInv'
    <2>1. ASSUME LockInv, UNCHANGED vars
          PROVE  LockInv'
      BY <2>1 DEF LockInv, ControlOK, NoExit, FreesOnly, LocksHeld, HooksHeld, FlagsFollowInterval,
                  InInterval, vars, locks, flags
    <2>2. ASSUME LockInv, Next
          PROVE  LockInv'
      <3>1. CASE PeriodElapses
        BY <2>2, <3>1 DEF PeriodElapses, LockInv, ControlOK, NoExit, FreesOnly, LocksHeld, HooksHeld,
                          FlagsFollowInterval, InInterval, locks, flags
      <3>2. CASE \E t \in Threads : Program(t) \/ Hook(t)
        BY <2>2, <3>2, LockInvProgram, LockInvHook
      <3> QED BY <2>2, <3>1, <3>2 DEF Next
    <2> QED BY <2>1, <2>2
  <1> QED BY <1>1, LockInvInit, PTL DEF Spec

\* Recording, invalidating and running an interval exclude each other,
\* however many threads allocate: update() and schedule() only try the
\* suite's lock, but none of them goes on without it.
THEOREM SitesAreExclusive ==
  ASSUME CanExit = FALSE
  PROVE  Spec => []SitesExclusive
  <1>1. LockInv => SitesExclusive
    BY ThreadsAssumption DEF LockInv, LocksHeld, SitesExclusive, OnSites, SuiteLabels
  <1> QED BY <1>1, LocksInductive, PTL

\* Every path through a hook, the early returns included, gives back
\* exactly the locks it took.
THEOREM LocksAreHeld ==
  ASSUME CanExit = FALSE
  PROVE  Spec => []LocksHeld
  <1>1. LockInv => LocksHeld
    BY DEF LockInv
  <1> QED BY <1>1, LocksInductive, PTL

\* The flags that tell the hooks to stay out are set exactly while some
\* thread runs an interval.
THEOREM FlagsAreExact ==
  ASSUME CanExit = FALSE
  PROVE  Spec => []FlagsFollowInterval
  <1>1. LockInv => FlagsFollowInterval
    BY DEF LockInv
  <1> QED BY <1>1, LocksInductive, PTL

\* No allocation is recorded during an interval.
THEOREM NoUpdates ==
  ASSUME CanExit = FALSE
  PROVE  Spec => []NoUpdateInInterval
  <1>1. LockInv => NoUpdateInInterval
    BY ThreadsAssumption
    DEF LockInv, LocksHeld, NoUpdateInInterval, InInterval, SuiteLabels
  <1> QED BY <1>1, LocksInductive, PTL

\* The unlock in post_mmap, undefined behaviour on paper, never frees a
\* lock that a thread holds: whoever holds it also holds bk_lock.
THEOREM StrayUnlockIsHarmless ==
  ASSUME CanExit = FALSE
  PROVE  Spec => []StrayUnlockHarmless
  <1>1. LockInv => StrayUnlockHarmless
    BY ThreadsAssumption
    DEF LockInv, ControlOK, LocksHeld, HooksHeld, StrayUnlockHarmless, HooksLabels,
        BkLabels, SuiteLabels
  <1> QED BY <1>1, LocksInductive, PTL

---------------------------------------------------------------------------
(* The data                                                                *)

\* The lemmas about StackMaps, for the map of a site.
SiteLemmas == INSTANCE StackMapOpsProofs WITH
  Size <- SiteSize, Keys <- Ptrs, Values <- 0 .. MaxAge, Zero <- 0,
  Hash <- PtrHash, Free <- NoPtr

Allocating == {"malloc", "mmap"}
Freeing == {"free", "munmap"}

AllocLabels == {"post_check", "try_bk", "post_enter", "update", "record", "count", "unlock_stray"}
FreeLabels == {"pre_check", "walk", "lock_bk", "pre_enter", "lock_hooks", "lock_suite",
               "remove", "unlock_hooks", "release"}

\* Which calls come by which steps.
KindsOK ==
  \A t \in Threads :
    /\ pc[t] \in AllocLabels => call[t].kind \in Allocating
    /\ pc[t] \in FreeLabels => call[t].kind \in Freeing
    /\ pc[t] \in {"schedule", "unlock_suite", "unlock_bk"} =>
         call[t].kind \in Allocating \cup Freeing
    /\ pc[t] \in {"begin", "run", "end", "clear"} =>
         call[t].kind \in Allocating \cup Freeing \cup {"exit"}
    /\ call[t].kind \in Allocating => call[t].ptr \in Ptrs /\ call[t].site \in Sites
    /\ call[t].kind \in Freeing => call[t].ptr \in Ptrs

\* A site's map as update() and invalidate() leave it: exact, with a slot to
\* spare.
SiteOK(m) == SiteLemmas!Exact(m) /\ m.entries < SiteSize

DataOK ==
  /\ mem \in [Ptrs -> BOOLEAN]
  /\ IS_PROTECTED \in BOOLEAN /\ is_in_interval \in BOOLEAN
  /\ due \in BOOLEAN /\ is_quitting \in BOOLEAN
  /\ known \subseteq Sites
  /\ sites \in [Sites -> SiteMap!MapType]
  /\ \A s \in Sites : SiteOK(sites[s])
  /\ slot \in [Sites -> Nat] /\ entries \in Nat
  /\ announced \in [Ptrs -> 0 .. MaxCalls]
  /\ unplaced \subseteq Ptrs /\ missed \subseteq Ptrs
  /\ survived \in [Ptrs -> 0 .. MaxAge]

SitesInv == ControlOK /\ KindsOK /\ DataOK

---------------------------------------------------------------------------
(* What the suite does to a site's map                                     *)

\* The constants of a site's map are as a StackMap's must be.
LEMMA SiteConstants ==
  /\ SiteSize \in Nat \ {0}
  /\ PtrHash \in [Ptrs -> 0 .. SiteSize - 1]
  /\ 0 \in 0 .. MaxAge
  /\ NoPtr \notin Ptrs
  BY BoundsAssumption, PtrHashAssumption, PtrsAssumption

\* The two instances of the StackMap operators are the same operators.
LEMMA SiteExactType ==
  ASSUME NEW m, SiteLemmas!Exact(m)
  PROVE  m \in SiteMap!MapType
  BY DEF SiteLemmas!Exact, SiteLemmas!MapType, SiteMap!MapType, SiteLemmas!Slots, SiteMap!Slots

LEMMA SiteEmpty == SiteOK(SiteMap!EmptyMap)
  <1>1. SiteLemmas!Exact(SiteLemmas!EmptyMap)
    BY SiteConstants, SiteLemmas!EmptyExact
  <1>2. SiteLemmas!EmptyMap = SiteMap!EmptyMap
    BY DEF SiteLemmas!EmptyMap, SiteMap!EmptyMap, SiteLemmas!Slots, SiteMap!Slots
  <1>3. SiteMap!EmptyMap.entries = 0
    BY DEF SiteMap!EmptyMap
  <1> QED BY <1>1, <1>2, <1>3, SiteConstants DEF SiteOK

LEMMA SitePut ==
  ASSUME NEW m, SiteLemmas!Exact(m), NEW p \in Ptrs
  PROVE  SiteLemmas!Exact(SiteMap!Put(m, p, 0))
  <1>1. SiteLemmas!Exact(SiteLemmas!Put(m, p, 0))
    BY SiteConstants, SiteLemmas!PutExact
  <1> QED
    BY <1>1
    DEF SiteMap!Put, SiteMap!Has, SiteMap!FoundWithin, SiteMap!Distance, SiteMap!StopsAt,
        SiteMap!At, SiteMap!ProbeBound, SiteMap!ProbeSlot, SiteMap!Full, SiteMap!Occupy,
        SiteLemmas!Put, SiteLemmas!Has, SiteLemmas!FoundWithin, SiteLemmas!Distance,
        SiteLemmas!StopsAt, SiteLemmas!At, SiteLemmas!ProbeBound, SiteLemmas!ProbeSlot,
        SiteLemmas!Full, SiteLemmas!Occupy

\* A removal leaves at least as much room.
LEMMA SiteRemove ==
  ASSUME NEW m, SiteOK(m), NEW p \in Ptrs
  PROVE  SiteOK(SiteMap!RemoveMap(m, p))
  <1>1. SiteLemmas!Exact(SiteLemmas!RemoveMap(m, p))
    BY SiteConstants, SiteLemmas!RemoveExact DEF SiteOK
  <1>2. SiteLemmas!RemoveMap(m, p) = SiteMap!RemoveMap(m, p)
    BY DEF SiteMap!RemoveMap, SiteMap!FoundWithin, SiteMap!Distance, SiteMap!StopsAt, SiteMap!At,
           SiteLemmas!RemoveMap, SiteLemmas!FoundWithin, SiteLemmas!Distance, SiteLemmas!StopsAt,
           SiteLemmas!At
  <1>3. m \in SiteMap!MapType
    BY SiteExactType DEF SiteOK
  <1>4. SiteMap!RemoveMap(m, p).entries \in {m.entries, m.entries - 1}
    BY <1>3 DEF SiteMap!RemoveMap, SiteMap!MapType
  <1> QED BY <1>1, <1>2, <1>3, <1>4, SiteConstants DEF SiteOK, SiteMap!MapType

\* Ticking the ages moves no record.
LEMMA SiteTicked ==
  ASSUME NEW m, SiteOK(m)
  PROVE  SiteOK(Ticked(m))
  <1>1. m \in SiteMap!MapType
    BY SiteExactType DEF SiteOK
  <1>2. Ticked(m) \in SiteMap!MapType
    BY <1>1, BoundsAssumption DEF Ticked, SiteMap!MapType, Least
  <1>3. Ticked(m).key = m.key /\ Ticked(m).entries = m.entries
    BY <1>1 DEF Ticked, SiteMap!MapType
  <1> QED
    BY <1>2, <1>3 DEF SiteOK, SiteLemmas!Exact, SiteLemmas!Occupied, SiteLemmas!MapType,
        SiteMap!MapType, SiteLemmas!Slots, SiteMap!Slots

---------------------------------------------------------------------------
(* The invariant                                                           *)

LEMMA SitesInvInit == Init => SitesInv
  <1> SUFFICES ASSUME Init PROVE SitesInv
    OBVIOUS
  <1>1. ControlOK
    BY DEF Init, ControlOK, NoCall, Calls, Kinds, Labels
  <1>2. KindsOK
    BY DEF Init, KindsOK, NoCall, AllocLabels, FreeLabels, Allocating, Freeing
  <1>3. SiteOK(SiteMap!EmptyMap) /\ SiteMap!EmptyMap \in SiteMap!MapType
    BY SiteEmpty, SiteExactType DEF SiteOK
  <1>4. DataOK
    <2>1. \A s \in Sites : sites[s] = SiteMap!EmptyMap
      BY DEF Init
    <2>2. \A s \in Sites : SiteOK(sites[s])
      BY <1>3, <2>1
    <2>3. sites \in [Sites -> SiteMap!MapType]
      BY <1>3 DEF Init
    <2>4. /\ mem \in [Ptrs -> BOOLEAN]
          /\ announced \in [Ptrs -> 0 .. MaxCalls] /\ survived \in [Ptrs -> 0 .. MaxAge]
      BY BoundsAssumption DEF Init
    <2>5. /\ IS_PROTECTED \in BOOLEAN /\ is_in_interval \in BOOLEAN
          /\ due \in BOOLEAN /\ is_quitting \in BOOLEAN
          /\ known \subseteq Sites /\ unplaced \subseteq Ptrs /\ missed \subseteq Ptrs
          /\ slot \in [Sites -> Nat] /\ entries \in Nat
      BY DEF Init
    <2> QED BY <2>2, <2>3, <2>4, <2>5 DEF DataOK
  <1> QED BY <1>1, <1>2, <1>4 DEF SitesInv

\* Control stays well typed, and calls keep to their steps.
LEMMA ControlProgram ==
  ASSUME SitesInv, NEW t \in Threads, Program(t) \/ PeriodElapses
  PROVE  (ControlOK /\ KindsOK)'
  <1> USE DEF SitesInv, ControlOK, KindsOK, Calls, Kinds, Labels, AllocLabels, FreeLabels,
              Allocating, Freeing, Ptrs, Enter, Goto, locks, flags
  <1>1. CASE malloc(t)
    BY <1>1 DEF malloc
  <1>2. CASE mmap(t)
    BY <1>2 DEF mmap
  <1>3. CASE free(t)
    BY <1>3 DEF free
  <1>4. CASE munmap(t)
    BY <1>4 DEF munmap
  <1>5. CASE Exit(t)
    BY <1>5 DEF Exit
  <1>6. CASE PeriodElapses
    BY <1>6 DEF PeriodElapses
  <1> QED BY <1>1, <1>2, <1>3, <1>4, <1>5, <1>6 DEF Program

LEMMA ControlHook ==
  ASSUME SitesInv, NEW t \in Threads, Hook(t)
  PROVE  (ControlOK /\ KindsOK)'
  <1> USE DEF SitesInv, ControlOK, KindsOK, Calls, Kinds, Labels, AllocLabels, FreeLabels,
              Allocating, Freeing, Goto, locks, flags
  <1>1. CASE PostCheck(t)
    BY <1>1 DEF PostCheck, Return, NoCall
  <1>2. CASE TryBk(t)
    BY <1>2 DEF TryBk, Return, NoCall
  <1>3. CASE PostEnter(t)
    BY <1>3 DEF PostEnter
  <1>4. CASE Update(t)
    BY <1>4 DEF Update, LeaveUpdate
  <1>5. CASE Record(t)
    BY <1>5 DEF Record, LeaveUpdate, PutSite
  <1>6. CASE UnlockStray(t)
    BY <1>6 DEF UnlockStray
  <1>7. CASE Schedule(t)
    BY <1>7 DEF Schedule, LeaveSchedule, LeaveUpdate
  <1>8. CASE Begin(t)
    BY <1>8 DEF Begin
  <1>9. CASE Run(t)
    BY <1>9 DEF Run
  <1>10. CASE End(t)
    BY <1>10 DEF End
  <1>11. CASE Clear(t)
    BY <1>11 DEF Clear
  <1>12. CASE UnlockSuite(t)
    BY <1>12 DEF UnlockSuite, LeaveSchedule, LeaveUpdate
  <1>13. CASE PreCheck(t)
    BY <1>13 DEF PreCheck
  <1>14. CASE LockBk(t)
    BY <1>14 DEF LockBk
  <1>15. CASE PreEnter(t)
    BY <1>15 DEF PreEnter
  <1>16. CASE LockHooks(t)
    BY <1>16 DEF LockHooks
  <1>17. CASE LockSuite(t)
    BY <1>17 DEF LockSuite
  <1>18. CASE RemoveRecord(t)
    BY <1>18 DEF RemoveRecord
  <1>19. CASE UnlockHooks(t)
    BY <1>19 DEF UnlockHooks
  <1>20. CASE UnlockBk(t)
    BY <1>20 DEF UnlockBk, Return, NoCall
  <1>21. CASE Release(t)
    BY <1>21 DEF Release, Return, NoCall
  <1>22. CASE Count(t)
    BY <1>22 DEF Count
  <1>23. CASE Walk(t)
    BY <1>23 DEF Walk
  <1> QED
    BY <1>1, <1>2, <1>3, <1>4, <1>5, <1>6, <1>7, <1>8, <1>9, <1>10, <1>11, <1>12, <1>13, <1>14, <1>15, <1>16, <1>17, <1>18, <1>19, <1>20, <1>21,
       <1>22, <1>23
    DEF Hook

\* Only recording, invalidating and the end of an interval touch the sites.
LEMMA DataProgram ==
  ASSUME SitesInv, NEW t \in Threads, Program(t) \/ PeriodElapses
  PROVE  DataOK'
  <1> USE DEF SitesInv, DataOK, locks, flags, tracker, history
  <1>1. CASE malloc(t)
    BY <1>1, BoundsAssumption DEF malloc, Ptrs
  <1>2. CASE mmap(t)
    BY <1>2, BoundsAssumption DEF mmap, Ptrs
  <1>3. CASE free(t)
    BY <1>3 DEF free
  <1>4. CASE munmap(t)
    BY <1>4 DEF munmap, Ptrs
  <1>5. CASE Exit(t)
    BY <1>5 DEF Exit
  <1>6. CASE PeriodElapses
    BY <1>6 DEF PeriodElapses
  <1> QED BY <1>1, <1>2, <1>3, <1>4, <1>5, <1>6 DEF Program

LEMMA DataRecord ==
  ASSUME SitesInv, NEW t \in Threads, Record(t)
  PROVE  DataOK'
  <1> DEFINE p == call[t].ptr
             s == call[t].site
             new == SiteWith(s, p)
             room == s \in known \/ entries < MaxSites
  <1>1. p \in Ptrs /\ s \in Sites
    BY DEF SitesInv, KindsOK, Record, AllocLabels
  <1>2. SiteOK(SiteCopy(s))
    BY <1>1, SiteEmpty DEF SitesInv, DataOK, SiteCopy
  <1>3. SiteLemmas!Exact(new) /\ new \in SiteMap!MapType
    BY <1>1, <1>2, SitePut, SiteExactType DEF SiteOK, SiteWith
  <1> HIDE DEF p, s, new
  <1>4. CASE SiteMap!Full(new)
    BY <1>4 DEF SitesInv, DataOK, Record, flags, tracker, new, p, s
  <1>5. CASE ~SiteMap!Full(new)
    <2>1. SiteOK(new)
      BY <1>3, <1>5, SiteConstants DEF SiteOK, SiteMap!Full, SiteMap!MapType
    <2>2. /\ known' = IF room THEN known \cup {s} ELSE known
          /\ sites' = IF room THEN [sites EXCEPT ![s] = new] ELSE sites
          /\ announced' = IF is_quitting THEN announced
                          ELSE [announced EXCEPT ![p] = Least(@ + 1, MaxCalls)]
          /\ unplaced' = IF room THEN unplaced \ {p} ELSE unplaced \cup {p}
          /\ UNCHANGED <<mem, flags, due, is_quitting, entries, survived, missed>>
      BY <1>5 DEF Record, PutSite, new, p, s
    <2>3. known' \subseteq Sites /\ unplaced' \subseteq Ptrs
      BY <1>1, <2>2 DEF SitesInv, DataOK
    <2>4. sites' \in [Sites -> SiteMap!MapType] /\ \A x \in Sites : SiteOK(sites'[x])
      BY <1>1, <1>3, <2>1, <2>2 DEF SitesInv, DataOK
    <2>5. announced' \in [Ptrs -> 0 .. MaxCalls]
      BY <1>1, <2>2, BoundsAssumption DEF SitesInv, DataOK, Least
    <2>6. slot' \in [Sites -> Nat]
      <3>1. UNCHANGED slot \/ \E i \in FreeSlots : slot' = [slot EXCEPT ![s] = i]
        BY <1>5 DEF Record, PutSite, new, p, s
      <3>2. FreeSlots \subseteq Nat
        BY DEF FreeSlots
      <3> QED BY <1>1, <3>1, <3>2 DEF SitesInv, DataOK
    <2> QED BY <2>2, <2>3, <2>4, <2>5, <2>6 DEF SitesInv, DataOK, flags
  <1> QED BY <1>4, <1>5

LEMMA DataRemove ==
  ASSUME SitesInv, NEW t \in Threads, RemoveRecord(t)
  PROVE  DataOK'
  <1>1. call[t].ptr \in Ptrs
    BY DEF SitesInv, KindsOK, RemoveRecord, FreeLabels
  <1>2. CASE UNCHANGED <<sites, announced>>
    BY <1>2 DEF SitesInv, DataOK, RemoveRecord, flags
  <1>3. ASSUME NEW s \in known, sites' = [sites EXCEPT ![s] = SiteMap!RemoveMap(@, call[t].ptr)],
               announced' = IF is_quitting THEN announced
                            ELSE [announced EXCEPT ![call[t].ptr] = 0]
        PROVE  DataOK'
    <2>1. s \in Sites /\ SiteOK(SiteMap!RemoveMap(sites[s], call[t].ptr))
      BY <1>1, SiteRemove DEF SitesInv, DataOK
    <2>2. SiteMap!RemoveMap(sites[s], call[t].ptr) \in SiteMap!MapType
      BY <2>1, SiteExactType DEF SiteOK
    <2>3. sites' \in [Sites -> SiteMap!MapType] /\ \A x \in Sites : SiteOK(sites'[x])
      BY <1>3, <2>1, <2>2 DEF SitesInv, DataOK
    <2>4. announced' \in [Ptrs -> 0 .. MaxCalls]
      BY <1>1, <1>3, BoundsAssumption DEF SitesInv, DataOK
    <2> QED BY <2>3, <2>4 DEF SitesInv, DataOK, RemoveRecord, flags
  <1> QED BY <1>2, <1>3 DEF RemoveRecord

LEMMA DataEnd ==
  ASSUME SitesInv, NEW t \in Threads, End(t)
  PROVE  DataOK'
  <1>1. \A s \in Sites : SiteOK(Ticked(sites[s])) /\ Ticked(sites[s]) \in SiteMap!MapType
    BY SiteTicked, SiteExactType DEF SitesInv, DataOK, SiteOK
  <1>2. sites' \in [Sites -> SiteMap!MapType] /\ \A s \in Sites : SiteOK(sites'[s])
    BY <1>1 DEF SitesInv, DataOK, End
  <1>3. survived' \in [Ptrs -> 0 .. MaxAge]
    BY BoundsAssumption DEF SitesInv, DataOK, End, Least
  <1> QED BY <1>2, <1>3 DEF SitesInv, DataOK, End

LEMMA DataHook ==
  ASSUME SitesInv, NEW t \in Threads, Hook(t)
  PROVE  DataOK'
  <1> USE DEF SitesInv, DataOK, locks, flags, tracker, history
  <1>1. CASE PostCheck(t)
    BY <1>1 DEF PostCheck
  <1>2. CASE TryBk(t)
    BY <1>2 DEF TryBk
  <1>3. CASE PostEnter(t)
    BY <1>3 DEF PostEnter
  <1>4. CASE Update(t)
    BY <1>4 DEF Update
  <1>5. CASE UnlockStray(t)
    BY <1>5 DEF UnlockStray
  <1>6. CASE Schedule(t)
    BY <1>6 DEF Schedule
  <1>7. CASE Begin(t)
    BY <1>7 DEF Begin
  <1>8. CASE Run(t)
    BY <1>8, CanAssumption DEF Run
  <1>9. CASE Clear(t)
    BY <1>9 DEF Clear
  <1>10. CASE UnlockSuite(t)
    BY <1>10 DEF UnlockSuite
  <1>11. CASE PreCheck(t)
    BY <1>11 DEF PreCheck
  <1>12. CASE LockBk(t)
    BY <1>12 DEF LockBk
  <1>13. CASE PreEnter(t)
    BY <1>13 DEF PreEnter
  <1>14. CASE LockHooks(t)
    BY <1>14 DEF LockHooks
  <1>15. CASE LockSuite(t)
    BY <1>15 DEF LockSuite
  <1>16. CASE UnlockHooks(t)
    BY <1>16 DEF UnlockHooks
  <1>17. CASE UnlockBk(t)
    BY <1>17 DEF UnlockBk
  <1>18. CASE Release(t)
    <2>1. call[t].ptr \in Ptrs
      BY <1>18 DEF KindsOK, Release, FreeLabels
    <2> QED BY <1>18, <2>1 DEF Release
  <1>19. CASE Count(t)
    BY <1>19 DEF Count
  <1>20. CASE Walk(t)
    <2>1. call[t].ptr \in Ptrs
      BY <1>20 DEF KindsOK, Walk, FreeLabels
    <2> QED BY <1>20, <2>1 DEF Walk
  <1> QED
    BY <1>1, <1>2, <1>3, <1>4, <1>5, <1>6, <1>7, <1>8, <1>9, <1>10, <1>11, <1>12, <1>13, <1>14, <1>15, <1>16, <1>17, <1>18, <1>19, <1>20,
       DataRecord, DataEnd, DataRemove
    DEF Hook

\* The inductive invariant holds in every behaviour.
THEOREM SitesInductive == Spec => []SitesInv
  <1>1. SitesInv /\ [Next]_vars => SitesInv'
    <2>1. ASSUME SitesInv, UNCHANGED vars
          PROVE  SitesInv'
      BY <2>1 DEF SitesInv, ControlOK, KindsOK, DataOK, vars, locks, flags, tracker, history
    <2>2. ASSUME SitesInv, PeriodElapses
          PROVE  SitesInv'
      BY <2>2 DEF PeriodElapses, SitesInv, ControlOK, KindsOK, DataOK, locks, flags, tracker,
                  history
    <2>3. ASSUME SitesInv, NEW t \in Threads, Program(t) \/ Hook(t)
          PROVE  SitesInv'
      <3>1. (ControlOK /\ KindsOK)'
        BY <2>3, ControlProgram, ControlHook
      <3>2. DataOK'
        BY <2>3, DataProgram, DataHook
      <3> QED BY <3>1, <3>2 DEF SitesInv
    <2> QED BY <2>1, <2>2, <2>3 DEF Next
  <1> QED BY <1>1, SitesInvInit, PTL DEF Spec

\* Every variable keeps its type; a site's record counter in particular
\* never goes below zero.
THEOREM TypeCorrect == Spec => []TypeOK
  <1>1. SitesInv => TypeOK
    BY DEF SitesInv, ControlOK, DataOK, TypeOK
  <1> QED BY <1>1, SitesInductive, PTL

\* The map of a site always has a free slot, so no probe of it runs into
\* its bound and get() never answers with the unrelated slot 0.
THEOREM SitesNeverFill == Spec => []SiteNeverFull
  <1>1. ASSUME SitesInv
        PROVE  SiteNeverFull
    <2> SUFFICES ASSUME NEW s \in known
                 PROVE  ~SiteMap!Full(sites[s])
      BY DEF SiteNeverFull
    <2>1. SiteOK(sites[s]) /\ sites[s] \in SiteMap!MapType
      BY <1>1 DEF SitesInv, DataOK
    <2> QED BY <2>1, SiteConstants DEF SiteOK, SiteMap!Full, SiteMap!MapType
  <1> QED BY <1>1, SitesInductive, PTL

(***************************************************************************)
(* Proofs about the records against the memory.  TLC finds a tracked       *)
(* allocation freed unheard when two pointers share a slot of a site's map *)
(* (HooksCollide).  Here is the other half: when every pointer has a slot  *)
(* of its own and none is mmapped, the records are exact for any number of *)
(* threads, pointers and sites, while a thread exits or the test quits     *)
(* too, but for the pointers that a free once missed; and a free misses    *)
(* only while another thread is about to count a new site (MissesAreLast). *)
(***************************************************************************)

\* No pointer is mmapped, and no two of them hash to the same slot.
Alone == MapPtrs = {} /\ \A p, q \in Ptrs : PtrHash[p] = PtrHash[q] => p = q

\* Site s has a record of p.
Held(s, p) == s \in known /\ sites[s].key[PtrHash[p]] = p

\* The age it gives.
Age(s, p) == sites[s].value[PtrHash[p]]

Home(m) == \A i \in SiteMap!Slots : m.key[i] \in Ptrs => PtrHash[m.key[i]] = i

\* Every call has a pointer to itself, which stays the program's until the
\* call is over.
CallsOwn ==
  /\ \A t \in Threads : call[t].ptr \in Ptrs => call[t].kind \in {"malloc", "free"}
  /\ \A t \in Threads : call[t].kind \in {"malloc", "free"} => mem[call[t].ptr]
  /\ \A t, u \in Threads : call[t].ptr = call[u].ptr /\ call[t].ptr \in Ptrs => t = u

\* Where a free has removed the record, or found none.
GoneLabels == {"unlock_hooks", "unlock_bk", "release"}

\* An allocation is recorded at the site that makes it, and a free that is
\* past its removal has left no record.
CallsRecords ==
  /\ \A t \in Threads : call[t].kind = "malloc" /\ call[t].ptr \notin missed =>
       \A s \in Sites : Held(s, call[t].ptr) => s = call[t].site
  /\ \A t \in Threads :
       call[t].kind = "free" /\ pc[t] \in GoneLabels /\ call[t].ptr \notin missed =>
         \A s \in Sites : ~Held(s, call[t].ptr)

\* What a record says is so: its memory is the program's, its age no more
\* than the truth, it is the only one, and the tests know of it.
RecordsTrue ==
  \A s \in Sites, p \in Ptrs \ missed : Held(s, p) =>
    /\ mem[p] /\ Age(s, p) <= survived[p]
    /\ \A r \in Sites : Held(r, p) => r = s
    /\ announced[p] > 0 /\ p \notin unplaced

\* The tests know of nothing else.
ToldHeld ==
  \A p \in Ptrs \ missed :
    announced[p] > 0 <=> (p \in unplaced \/ \E s \in Sites : Held(s, p))

Records ==
  /\ \A s \in Sites : Home(sites[s])
  /\ CallsOwn /\ CallsRecords /\ RecordsTrue /\ ToldHeld

RecordsInv == SitesInv /\ (~is_quitting => Records)

---------------------------------------------------------------------------
(* A map in which every key is at home                                     *)

\* A probe ends where it starts.
LEMMA ProbeIsHome ==
  ASSUME Alone, NEW m \in SiteMap!MapType, Home(m), NEW p \in Ptrs, NEW bound \in Nat
  PROVE  /\ SiteMap!Distance(m, p, bound) = 0
         /\ SiteMap!At(p, 0) = PtrHash[p]
         /\ PtrHash[p] \in SiteMap!Slots
  <1>1. PtrHash[p] \in SiteMap!Slots /\ SiteMap!At(p, 0) = PtrHash[p]
    BY SiteConstants DEF SiteMap!Slots, SiteMap!At
  <1>2. SiteMap!StopsAt(m, p, 0)
    BY <1>1 DEF Alone, Home, SiteMap!StopsAt, SiteMap!MapType
  <1>3. 0 \in 0 .. bound /\ 0 .. 0 - 1 = {}
    OBVIOUS
  <1>4. \A d \in 0 .. bound : (\A e \in 0 .. d - 1 : ~SiteMap!StopsAt(m, p, e)) => d = 0
    BY <1>2
  <1>5. SiteMap!Distance(m, p, bound) = 0
    BY <1>2, <1>3, <1>4 DEF SiteMap!Distance
  <1> QED BY <1>1, <1>5

\* A map that is exact counts a record that it has.
LEMMA HomeCounted ==
  ASSUME NEW m, SiteOK(m), NEW p \in Ptrs, m.key[PtrHash[p]] = p
  PROVE  m.entries > 0
  <1>1. SiteLemmas!Exact(m) /\ PtrHash[p] \in SiteLemmas!Slots /\ m.key[PtrHash[p]] # NoPtr
    BY SiteConstants DEF SiteOK, SiteLemmas!Slots
  <1>2. m.entries \in Nat /\ m.entries # 0
    BY <1>1, SiteConstants, SiteLemmas!KeyIsCounted
  <1> QED BY <1>2

\* has() looks at one slot.
LEMMA HasIsHome ==
  ASSUME Alone, NEW m, SiteOK(m), Home(m), NEW p \in Ptrs
  PROVE  SiteMap!Has(m, p) <=> m.key[PtrHash[p]] = p
  <1>1. m \in SiteMap!MapType /\ m.entries \in Nat
    BY SiteExactType DEF SiteOK, SiteMap!MapType
  <1>2. /\ SiteMap!Distance(m, p, m.entries * 2) = 0
        /\ SiteMap!At(p, 0) = PtrHash[p]
    BY <1>1, ProbeIsHome
  <1>3. SiteMap!Has(m, p) <=> 0 < m.entries * 2 /\ m.key[PtrHash[p]] = p
    BY <1>2 DEF SiteMap!Has, SiteMap!FoundWithin, SiteMap!ProbeBound
  <1> QED BY <1>1, <1>3, HomeCounted

\* put() writes one slot.
LEMMA PutIsHome ==
  ASSUME Alone, NEW m, SiteOK(m), Home(m), NEW p \in Ptrs
  PROVE  /\ SiteMap!Put(m, p, 0).key = [m.key EXCEPT ![PtrHash[p]] = p]
         /\ SiteMap!Put(m, p, 0).value = [m.value EXCEPT ![PtrHash[p]] = 0]
         /\ Home(SiteMap!Put(m, p, 0))
  <1> DEFINE h == PtrHash[p]
  <1>1. m \in SiteMap!MapType /\ m.entries \in Nat /\ m.entries < SiteSize
    BY SiteExactType DEF SiteOK, SiteMap!MapType
  <1>2. SiteMap!ProbeSlot(m, p) = h /\ h \in SiteMap!Slots
    <2>1. m.entries * 2 \in Nat
      BY <1>1
    <2> QED BY <1>1, <2>1, ProbeIsHome DEF SiteMap!ProbeSlot, SiteMap!ProbeBound
  <1>3. ~SiteMap!Full(m)
    BY <1>1, SiteConstants DEF SiteMap!Full
  <1>4. SiteMap!Has(m, p) <=> m.key[h] = p
    BY HasIsHome
  <1>5. /\ SiteMap!Put(m, p, 0).key = [m.key EXCEPT ![h] = p]
        /\ SiteMap!Put(m, p, 0).value = [m.value EXCEPT ![h] = 0]
    BY <1>1, <1>2, <1>3, <1>4 DEF SiteMap!Put, SiteMap!Occupy, SiteMap!MapType
  <1>6. Home(SiteMap!Put(m, p, 0))
    BY <1>1, <1>2, <1>5 DEF Home, SiteMap!MapType
  <1> QED BY <1>5, <1>6

\* remove() frees one slot.
LEMMA RemoveIsHome ==
  ASSUME Alone, NEW m, SiteOK(m), Home(m), NEW p \in Ptrs, m.key[PtrHash[p]] = p
  PROVE  /\ SiteMap!RemoveMap(m, p).key = [m.key EXCEPT ![PtrHash[p]] = NoPtr]
         /\ SiteMap!RemoveMap(m, p).value = m.value
         /\ Home(SiteMap!RemoveMap(m, p))
  <1>1. m \in SiteMap!MapType
    BY SiteExactType DEF SiteOK
  <1>2. SiteMap!Distance(m, p, SiteSize) = 0 /\ SiteMap!At(p, 0) = PtrHash[p]
        /\ PtrHash[p] \in SiteMap!Slots
    BY <1>1, SiteConstants, ProbeIsHome
  <1>3. SiteMap!FoundWithin(m, p, SiteSize)
    BY <1>2, SiteConstants DEF SiteMap!FoundWithin
  <1>4. /\ SiteMap!RemoveMap(m, p).key = [m.key EXCEPT ![PtrHash[p]] = NoPtr]
        /\ SiteMap!RemoveMap(m, p).value = m.value
    BY <1>1, <1>2, <1>3 DEF SiteMap!RemoveMap, SiteMap!MapType
  <1>5. Home(SiteMap!RemoveMap(m, p))
    BY <1>1, <1>2, <1>4, SiteConstants DEF Home, SiteMap!MapType
  <1> QED BY <1>4, <1>5

\* contains() finds exactly the records.
LEMMA ContainsHeld ==
  ASSUME Alone, SitesInv, Records, NEW p \in Ptrs
  PROVE  /\ contains(p) <=> \E s \in Sites : Held(s, p)
         /\ \A s \in known : SiteMap!Has(sites[s], p) <=> Held(s, p)
  <1>1. known \subseteq Sites /\ \A s \in Sites : SiteOK(sites[s])
    BY DEF SitesInv, DataOK
  <1>2. \A s \in known : SiteMap!Has(sites[s], p) <=> Held(s, p)
    BY <1>1, HasIsHome DEF Records, Held
  <1> QED BY <1>1, <1>2 DEF contains, Held

---------------------------------------------------------------------------
(* The steps that leave the records alone                                  *)

\* What such a step does to the calls.
QuietCalls ==
  \A t \in Threads :
    /\ \/ call'[t] = NoCall
       \/ /\ call'[t].kind = call[t].kind /\ call'[t].ptr = call[t].ptr
          /\ call'[t].site = call[t].site
    /\ call'[t].kind = "free" /\ pc'[t] \in GoneLabels =>
         \/ pc[t] \in GoneLabels \/ call[t].ptr \in missed'
         \/ \A s \in Sites : ~Held(s, call[t].ptr)

\* What it does to the rest.
Quiet ==
  /\ QuietCalls
  /\ missed \subseteq missed'
  /\ UNCHANGED <<mem, known, sites, announced, unplaced, survived>>

LEMMA QuietKeeps ==
  ASSUME ControlOK, KindsOK, Records, Quiet
  PROVE  Records'
  <1> USE DEF Quiet
  <1>1. \A s \in Sites, p \in Ptrs : Held(s, p)' <=> Held(s, p)
    BY DEF Held
  <1>2. (\A s \in Sites : Home(sites[s]))' /\ RecordsTrue' /\ ToldHeld'
    <2>1. (\A s \in Sites : Home(sites[s]))'
      BY DEF Records, Home
    <2>2. RecordsTrue'
      BY <1>1 DEF Records, RecordsTrue, Age
    <2>3. ToldHeld'
      BY <1>1 DEF Records, ToldHeld
    <2> QED BY <2>1, <2>2, <2>3
  <1>3. NoCall.kind = "none" /\ NoCall.ptr \notin Ptrs
    BY PtrsAssumption DEF NoCall
  <1>4. CallsOwn'
    BY <1>3 DEF Records, CallsOwn, QuietCalls
  <1>5. CallsRecords'
    <2>1. \A t \in Threads : call[t].kind \in {"malloc", "free"} => call[t].ptr \in Ptrs
      BY DEF KindsOK, Allocating, Freeing
    <2> QED BY <1>1, <1>3, <2>1 DEF Records, CallsRecords, QuietCalls
  <1> QED BY <1>2, <1>4, <1>5 DEF Records

\* A hook's steps but recording, removing, ticking the ages and returning
\* the memory.
LEMMA QuietHook ==
  ASSUME Alone, SitesInv, Records, ~is_quitting, NEW t \in Threads, Hook(t),
         ~Record(t), ~RemoveRecord(t), ~End(t), ~Release(t)
  PROVE  Quiet
  <1> USE DEF SitesInv, ControlOK, KindsOK, Quiet, QuietCalls, AllocLabels, FreeLabels, Allocating,
              Freeing, GoneLabels, Goto, locks, flags, tracker, history
  <1>1. CASE PostCheck(t)
    BY <1>1 DEF PostCheck, Return, NoCall
  <1>2. CASE TryBk(t)
    BY <1>2 DEF TryBk, Return, NoCall
  <1>3. CASE PostEnter(t)
    BY <1>3 DEF PostEnter
  <1>4. CASE Update(t)
    BY <1>4 DEF Update, LeaveUpdate, Calls
  <1>5. CASE UnlockStray(t)
    BY <1>5 DEF UnlockStray
  <1>6. CASE Schedule(t)
    BY <1>6 DEF Schedule, LeaveSchedule, LeaveUpdate, Calls
  <1>7. CASE Begin(t)
    BY <1>7 DEF Begin
  <1>8. CASE Run(t)
    BY <1>8 DEF Run
  <1>9. CASE Clear(t)
    BY <1>9 DEF Clear
  <1>10. CASE UnlockSuite(t)
    BY <1>10 DEF UnlockSuite, LeaveSchedule, LeaveUpdate, Calls
  <1>11. CASE PreCheck(t)
    BY <1>11 DEF PreCheck, is_done
  <1>12. CASE LockBk(t)
    BY <1>12 DEF LockBk
  <1>13. CASE PreEnter(t)
    <2>1. call[t].ptr \in Ptrs
      BY <1>13 DEF PreEnter
    <2>2. contains(call[t].ptr) <=> \E s \in Sites : Held(s, call[t].ptr)
      BY <2>1, ContainsHeld
    <2> QED BY <1>13, <2>2 DEF PreEnter, is_done
  <1>14. CASE LockHooks(t)
    BY <1>14 DEF LockHooks
  <1>15. CASE LockSuite(t)
    BY <1>15 DEF LockSuite
  <1>16. CASE UnlockHooks(t)
    BY <1>16 DEF UnlockHooks
  <1>17. CASE UnlockBk(t)
    BY <1>17 DEF UnlockBk, Return, NoCall
  <1>18. CASE Count(t)
    BY <1>18 DEF Count
  <1>19. CASE Walk(t)
    <2>1. call[t].ptr \in Ptrs
      BY <1>19 DEF Walk
    <2>2. contains(call[t].ptr) <=> \E s \in Sites : Held(s, call[t].ptr)
      BY <2>1, ContainsHeld
    <2> QED BY <1>19, <2>2 DEF Walk, Calls
  <1> QED
    BY <1>1, <1>2, <1>3, <1>4, <1>5, <1>6, <1>7, <1>8, <1>9, <1>10, <1>11, <1>12, <1>13, <1>14, <1>15, <1>16, <1>17, <1>18, <1>19
    DEF Hook

\* The program's own steps start a call at memory that no call has.
LEMMA RecordsProgram ==
  ASSUME Alone, SitesInv, Records, NEW t \in Threads, Program(t)
  PROVE  Records'
  <1> USE DEF Enter, Goto, locks, flags, tracker, history
  <1>1. ControlOK /\ KindsOK /\ DataOK /\ Ptrs = HeapPtrs /\ NoCall.kind = "none"
    BY DEF SitesInv, Alone, Ptrs, NoCall
  <1>2. ASSUME NEW p \in HeapPtrs, NEW s \in Sites \cup {NoPtr}, NEW kind \in {"malloc", "free"},
               NEW label \in {"post_check", "pre_check"},
               Enter(t, kind, p, s, label), kind = "malloc" => ~mem[p],
               kind = "free" => mem[p] /\ \A u \in Threads : call[u].ptr # p,
               mem' = [mem EXCEPT ![p] = TRUE],
               survived' = IF kind = "malloc" THEN [survived EXCEPT ![p] = 0] ELSE survived,
               UNCHANGED <<known, sites, announced, unplaced, missed>>
        PROVE  Records'
    <2>1. /\ call'[t].kind = kind /\ call'[t].ptr = p /\ call'[t].site = s /\ pc'[t] = label
          /\ \A u \in Threads \ {t} : call'[u] = call[u] /\ pc'[u] = pc[u]
      BY <1>1, <1>2 DEF ControlOK
    <2>2. \A r \in Sites, q \in Ptrs : Held(r, q)' <=> Held(r, q)
      BY <1>2 DEF Held
    <2>3. kind = "malloc" /\ p \notin missed => \A r \in Sites : ~Held(r, p)
      BY <1>1, <1>2 DEF Records, RecordsTrue
    <2>4. \A u \in Threads : call[u].kind \in {"malloc", "free"} => call[u].ptr \in Ptrs
      BY <1>1 DEF KindsOK, Allocating, Freeing
    <2>5. \A u \in Threads : call[u].ptr # p
      <3>1. CASE kind = "free"
        BY <1>2, <3>1
      <3>2. CASE kind = "malloc"
        BY <1>1, <1>2, <3>2 DEF Records, CallsOwn
      <3> QED BY <3>1, <3>2
    <2>6. CallsOwn'
      BY <1>1, <1>2, <2>1, <2>4, <2>5 DEF Records, CallsOwn, DataOK
    <2>7. CallsRecords'
      BY <1>1, <1>2, <2>1, <2>2, <2>3, <2>4 DEF Records, CallsRecords, GoneLabels
    <2>8. RecordsTrue'
      <3> SUFFICES ASSUME NEW r \in Sites, NEW q \in Ptrs \ missed, Held(r, q)
                   PROVE  /\ mem'[q] /\ Age(r, q)' <= survived'[q]
                          /\ \A r2 \in Sites : Held(r2, q)' => r2 = r
                          /\ announced'[q] > 0 /\ q \notin unplaced'
        BY <1>2, <2>2 DEF RecordsTrue
      <3>1. /\ mem[q] /\ Age(r, q) <= survived[q]
            /\ \A r2 \in Sites : Held(r2, q) => r2 = r
            /\ announced[q] > 0 /\ q \notin unplaced
        BY DEF Records, RecordsTrue
      <3>2. mem'[q] /\ survived'[q] = survived[q]
        BY <1>1, <1>2, <2>3, <3>1 DEF DataOK
      <3> QED BY <1>2, <2>2, <3>1, <3>2 DEF Age
    <2>9. ToldHeld' /\ (\A r \in Sites : Home(sites[r]))'
      BY <1>2, <2>2 DEF Records, ToldHeld, Home
    <2> QED BY <2>6, <2>7, <2>8, <2>9 DEF Records
  <1>3. CASE malloc(t)
    BY <1>1, <1>2, <1>3 DEF malloc
  <1>4. CASE free(t)
    <2>1. PICK p \in HeapPtrs : /\ mem[p] /\ \A u \in Threads : call[u].ptr # p
                                /\ Enter(t, "free", p, NoPtr, "pre_check")
                                /\ UNCHANGED <<mem, locks, flags, due, is_quitting, tracker, history>>
      BY <1>4 DEF free
    <2>2. mem' = [mem EXCEPT ![p] = TRUE]
      BY <1>1, <2>1 DEF DataOK
    <2> QED BY <1>1, <1>2, <2>1, <2>2
  <1>5. CASE mmap(t) \/ munmap(t)
    BY <1>5 DEF mmap, munmap, Alone
  <1>6. CASE Exit(t)
    <2>1. /\ call'[t].kind = "exit" /\ call'[t].ptr = NoPtr
          /\ pc'[t] = "begin" /\ call[t].kind # "exit" /\ pc[t] = "idle"
          /\ \A u \in Threads \ {t} : call'[u] = call[u] /\ pc'[u] = pc[u]
          /\ UNCHANGED <<mem, known, sites, announced, unplaced, survived, missed>>
      BY <1>1, <1>6 DEF ControlOK, Exit
    <2>2. \A r \in Sites, q \in Ptrs : Held(r, q)' <=> Held(r, q)
      BY <2>1 DEF Held
    <2>3. CallsOwn'
      BY <2>1, PtrsAssumption DEF Records, CallsOwn
    <2>4. CallsRecords'
      BY <1>1, <2>1, <2>2 DEF Records, CallsRecords, KindsOK, Allocating, Freeing
    <2>5. RecordsTrue' /\ ToldHeld' /\ (\A r \in Sites : Home(sites[r]))'
      BY <2>1, <2>2 DEF Records, RecordsTrue, ToldHeld, Home, Age
    <2> QED BY <2>3, <2>4, <2>5 DEF Records
  <1> QED BY <1>3, <1>4, <1>5, <1>6 DEF Program

---------------------------------------------------------------------------
(* The steps that change the records                                       *)

\* The end of an interval makes every record one older, and everything else.
LEMMA RecordsEnd ==
  ASSUME Alone, SitesInv, Records, NEW t \in Threads, End(t)
  PROVE  Records'
  <1>1. ControlOK /\ KindsOK /\ DataOK
    BY DEF SitesInv
  <1>2. /\ known' = known /\ UNCHANGED <<mem, call, announced, unplaced, missed>>
        /\ pc' = [pc EXCEPT ![t] = "clear"]
        /\ survived' = [p \in Ptrs |-> Least(survived[p] + 1, MaxAge)]
        /\ sites' = [s \in Sites |-> IF s \in known THEN Ticked(sites[s]) ELSE sites[s]]
    BY DEF End, Goto
  <1>3. \A s \in Sites : sites[s] \in SiteMap!MapType
    BY <1>1 DEF DataOK
  <1>4. \A s \in Sites :
          /\ sites'[s].key = sites[s].key
          /\ \A i \in SiteMap!Slots :
               sites'[s].value[i] \in {sites[s].value[i], Least(sites[s].value[i] + 1, MaxAge)}
    BY <1>2, <1>3 DEF Ticked, SiteMap!MapType
  <1>5. \A s \in Sites, p \in Ptrs : Held(s, p)' <=> Held(s, p)
    BY <1>2, <1>4 DEF Held
  <1>6. RecordsTrue'
    <2> SUFFICES ASSUME NEW s \in Sites, NEW p \in Ptrs \ missed, Held(s, p)
                 PROVE  /\ mem'[p] /\ Age(s, p)' <= survived'[p]
                        /\ \A r \in Sites : Held(r, p)' => r = s
                        /\ announced'[p] > 0 /\ p \notin unplaced'
      BY <1>2, <1>5 DEF RecordsTrue
    <2>1. PICK i \in SiteMap!Slots : i = PtrHash[p]
      BY SiteConstants DEF SiteMap!Slots
    <2>2. PICK v \in 0 .. MaxAge : v = sites[s].value[i]
      BY <1>3 DEF SiteMap!MapType
    <2>3. PICK a \in 0 .. MaxAge : a = survived[p]
      BY <1>1 DEF DataOK
    <2>4. v <= a
      BY <2>1, <2>2, <2>3 DEF Records, RecordsTrue, Age
    <2>5. survived'[p] = Least(a + 1, MaxAge)
      BY <1>2, <2>3
    <2>6. sites'[s].value[i] \in {v, Least(v + 1, MaxAge)}
      BY <1>4, <2>2
    <2>7. sites'[s].value[i] <= survived'[p]
      BY <2>4, <2>5, <2>6, BoundsAssumption DEF Least
    <2> QED BY <1>2, <1>5, <2>1, <2>7 DEF Records, RecordsTrue, Age
  <1>7. (\A s \in Sites : Home(sites[s]))'
    BY <1>4 DEF Records, Home
  <1>8. CallsOwn' /\ ToldHeld'
    BY <1>2, <1>5 DEF Records, CallsOwn, ToldHeld
  <1>9. CallsRecords'
    <2>1. \A u \in Threads : call[u].kind \in {"malloc", "free"} => call[u].ptr \in Ptrs
      BY <1>1 DEF KindsOK, Allocating, Freeing
    <2>2. \A u \in Threads : pc'[u] \in GoneLabels => pc[u] \in GoneLabels
      BY <1>1, <1>2 DEF ControlOK, GoneLabels
    <2> QED BY <1>2, <1>5, <2>1, <2>2 DEF Records, CallsRecords
  <1> QED BY <1>6, <1>7, <1>8, <1>9 DEF Records

\* The memory of a free that is over has no record left, unless the free
\* missed it.
LEMMA RecordsRelease ==
  ASSUME Alone, SitesInv, Records, NEW t \in Threads, Release(t)
  PROVE  Records'
  <1>1. ControlOK /\ KindsOK /\ DataOK
    BY DEF SitesInv
  <1>2. /\ pc[t] = "release" /\ call[t].kind = "free" /\ call[t].ptr \in Ptrs
        /\ call[t].ptr \notin missed => \A s \in Sites : ~Held(s, call[t].ptr)
    BY <1>1 DEF Release, Records, CallsOwn, CallsRecords, KindsOK, FreeLabels, Freeing, GoneLabels
  <1>3. /\ mem' = [mem EXCEPT ![call[t].ptr] = FALSE]
        /\ pc' = [pc EXCEPT ![t] = "idle"] /\ call' = [call EXCEPT ![t] = NoCall]
        /\ UNCHANGED <<known, sites, announced, unplaced, survived, missed>>
    BY <1>2 DEF Release, Return, Goto, tracker, history
  <1>4. \A s \in Sites, p \in Ptrs : Held(s, p)' <=> Held(s, p)
    BY <1>3 DEF Held
  <1>5. NoCall.kind = "none" /\ NoCall.ptr \notin Ptrs
    BY PtrsAssumption DEF NoCall
  <1>6. call'[t] = NoCall /\ \A u \in Threads \ {t} : call'[u] = call[u] /\ pc'[u] = pc[u]
    BY <1>1, <1>3 DEF ControlOK
  <1>7. \A u \in Threads : call[u].kind \in {"malloc", "free"} => call[u].ptr \in Ptrs
    BY <1>1 DEF KindsOK, Allocating, Freeing
  <1>8. CallsOwn'
    BY <1>1, <1>2, <1>3, <1>5, <1>6, <1>7 DEF Records, CallsOwn, DataOK
  <1>9. CallsRecords'
    BY <1>3, <1>4, <1>5, <1>6, <1>7 DEF Records, CallsRecords
  <1>10. RecordsTrue'
    BY <1>1, <1>2, <1>3, <1>4 DEF Records, RecordsTrue, DataOK, Age
  <1>11. ToldHeld' /\ (\A s \in Sites : Home(sites[s]))'
    BY <1>3, <1>4 DEF Records, ToldHeld, Home
  <1> QED BY <1>8, <1>9, <1>10, <1>11 DEF Records

\* A removal takes the one record of the pointer away, or one of those that
\* a missed pointer has.
LEMMA RemoveHeld ==
  ASSUME Alone, SitesInv, Records, NEW p \in Ptrs, NEW s \in known, Held(s, p), known' = known,
         sites' = [sites EXCEPT ![s] = SiteMap!RemoveMap(@, p)]
  PROVE  /\ \A r \in Sites, q \in Ptrs : q # p => (Held(r, q)' <=> Held(r, q))
         /\ p \notin missed => \A r \in Sites : ~Held(r, p)'
         /\ \A r \in Sites : sites'[r].value = sites[r].value /\ Home(sites'[r])
  <1>1. DataOK
    BY DEF SitesInv
  <1>2. s \in Sites /\ SiteOK(sites[s]) /\ Home(sites[s]) /\ sites[s].key[PtrHash[p]] = p
    BY <1>1 DEF DataOK, Records, Held
  <1>3. PICK m : m = SiteMap!RemoveMap(sites[s], p)
    OBVIOUS
  <1>4. /\ m.key = [sites[s].key EXCEPT ![PtrHash[p]] = NoPtr]
        /\ m.value = sites[s].value /\ Home(m)
    BY <1>2, <1>3, RemoveIsHome
  <1>5. sites' = [sites EXCEPT ![s] = m]
    BY <1>3
  <1>6. \A r \in Sites : sites'[r].value = sites[r].value /\ (r # s => sites'[r] = sites[r])
    BY <1>1, <1>2, <1>4, <1>5 DEF DataOK
  <1>7. sites'[s].key = [sites[s].key EXCEPT ![PtrHash[p]] = NoPtr]
    BY <1>1, <1>2, <1>4, <1>5 DEF DataOK
  <1>8. \A r \in Sites : Home(sites'[r])
    BY <1>1, <1>2, <1>4, <1>5 DEF DataOK, Records
  <1>9. ASSUME NEW r \in Sites, NEW q \in Ptrs
        PROVE  /\ q # p => (Held(r, q)' <=> Held(r, q))
               /\ q = p /\ p \notin missed => ~Held(r, q)'
    <2>1. p \notin missed /\ Held(r, p) => r = s
      BY <1>2 DEF Records, RecordsTrue
    <2>2. CASE r # s
      BY <1>6, <2>1, <2>2 DEF Held
    <2>3. CASE r = s
      <3>1. sites[s].key \in [SiteMap!Slots -> Ptrs \cup {NoPtr}] /\ PtrHash[q] \in SiteMap!Slots
        BY <1>1, <1>2, SiteConstants DEF DataOK, SiteMap!MapType, SiteMap!Slots
      <3>2. CASE q = p
        BY <1>7, <2>3, <3>1, <3>2, PtrsAssumption DEF Held
      <3>3. CASE q # p
        <4>1. PtrHash[q] # PtrHash[p]
          BY <3>3 DEF Alone
        <4> QED BY <1>7, <2>3, <3>1, <3>3, <4>1 DEF Held
      <3> QED BY <3>2, <3>3
    <2> QED BY <2>2, <2>3
  <1> QED BY <1>6, <1>8, <1>9

\* What it leaves is true.
LEMMA RecordsRemove ==
  ASSUME Alone, SitesInv, Records, ~is_quitting, NEW t \in Threads, RemoveRecord(t)
  PROVE  Records'
  <1> DEFINE p == call[t].ptr
  <1>1. ControlOK /\ KindsOK /\ DataOK
    BY DEF SitesInv
  <1>2. p \in Ptrs /\ call[t].kind = "free" /\ pc[t] = "remove"
    BY <1>1 DEF RemoveRecord, KindsOK, FreeLabels, Freeing, Records, CallsOwn
  <1>3. \A s \in known : SiteMap!Has(sites[s], p) <=> Held(s, p)
    BY <1>2, ContainsHeld
  <1>4. /\ pc' = [pc EXCEPT ![t] = "unlock_hooks"]
        /\ UNCHANGED <<mem, call, known, unplaced, survived, missed>>
    BY DEF RemoveRecord, Goto
  <1>5. CASE \A s \in known : ~Held(s, p)
    <2>1. UNCHANGED <<sites, announced>>
      BY <1>3, <1>5 DEF RemoveRecord
    <2>2. QuietCalls
      BY <1>1, <1>4, <1>5 DEF QuietCalls, GoneLabels, ControlOK, Held
    <2> QED BY <1>1, <1>4, <2>1, <2>2, QuietKeeps DEF Quiet
  <1>6. ASSUME NEW s \in known, Held(s, p),
               sites' = [sites EXCEPT ![s] = SiteMap!RemoveMap(@, p)],
               announced' = [announced EXCEPT ![p] = 0]
        PROVE  Records'
    <2>1. s \in Sites
      BY <1>1 DEF DataOK
    <2>2. /\ \A r \in Sites, q \in Ptrs : q # p => (Held(r, q)' <=> Held(r, q))
          /\ p \notin missed => \A r \in Sites : ~Held(r, p)'
          /\ \A r \in Sites : sites'[r].value = sites[r].value /\ Home(sites'[r])
      BY <1>2, <1>4, <1>6, RemoveHeld
    <2>3. CallsOwn'
      BY <1>4 DEF Records, CallsOwn
    <2>4. CallsRecords'
      <3>1. \A u \in Threads : call[u].kind \in {"malloc", "free"} => call[u].ptr \in Ptrs
        BY <1>1 DEF KindsOK, Allocating, Freeing
      <3>2. \A u \in Threads : u # t => pc'[u] = pc[u] /\ call[u].ptr # p
        BY <1>1, <1>2, <1>4 DEF ControlOK, Records, CallsOwn
      <3> QED BY <1>2, <1>4, <2>2, <3>1, <3>2 DEF Records, CallsRecords
    <2>5. \A q \in Ptrs : announced'[q] = IF q = p THEN 0 ELSE announced[q]
      BY <1>1, <1>6 DEF DataOK
    <2>6. RecordsTrue'
      BY <1>4, <2>2, <2>5 DEF Records, RecordsTrue, Age
    <2>7. ToldHeld'
      <3>1. p \notin missed => p \notin unplaced
        BY <1>2, <1>6, <2>1 DEF Records, RecordsTrue
      <3> QED BY <1>2, <1>4, <2>2, <2>5, <3>1 DEF Records, ToldHeld
    <2> QED BY <2>2, <2>3, <2>4, <2>6, <2>7 DEF Records
  <1>7. CASE \E s \in known : Held(s, p)
    <2>1. PICK s \in known : /\ SiteMap!Has(sites[s], p)
                             /\ sites' = [sites EXCEPT ![s] = SiteMap!RemoveMap(@, p)]
                             /\ announced' = [announced EXCEPT ![p] = 0]
      BY <1>3, <1>7 DEF RemoveRecord
    <2>2. Held(s, p)
      BY <1>3, <2>1
    <2> QED BY <1>6, <2>1, <2>2
  <1> QED BY <1>5, <1>7

\* The copy that update() edits is exact, and has every key at home.
LEMMA CopyIsHome ==
  ASSUME SitesInv, Records, NEW s \in Sites
  PROVE  /\ SiteOK(SiteCopy(s)) /\ Home(SiteCopy(s))
         /\ \A p \in Ptrs : SiteCopy(s).key[PtrHash[p]] = p <=> Held(s, p)
  <1>1. CASE s \in known
    <2>1. SiteCopy(s) = sites[s]
      BY <1>1 DEF SiteCopy
    <2> QED BY <1>1, <2>1 DEF SitesInv, DataOK, Records, Held
  <1>2. CASE s \notin known
    <2>1. SiteCopy(s) = SiteMap!EmptyMap
      BY <1>2 DEF SiteCopy
    <2>2. \A i \in SiteMap!Slots : SiteMap!EmptyMap.key[i] = NoPtr
      BY DEF SiteMap!EmptyMap
    <2>3. Home(SiteMap!EmptyMap)
      BY <2>2, PtrsAssumption DEF Home
    <2>4. \A p \in Ptrs : PtrHash[p] \in SiteMap!Slots /\ p # NoPtr
      BY SiteConstants DEF SiteMap!Slots
    <2> QED BY <1>2, <2>1, <2>2, <2>3, <2>4, SiteEmpty DEF Held
  <1> QED BY <1>1, <1>2

\* Recording adds the one record of the pointer, with age 0.
LEMMA RecordHeld ==
  ASSUME Alone, SitesInv, Records, NEW s \in Sites, NEW p \in Ptrs,
         known' = known \cup {s}, sites' = [sites EXCEPT ![s] = SiteWith(s, p)]
  PROVE  /\ \A r \in Sites, q \in Ptrs : Held(r, q)' <=> Held(r, q) \/ (r = s /\ q = p)
         /\ \A r \in Sites, q \in Ptrs : Held(r, q)' =>
              Age(r, q)' = IF r = s /\ q = p THEN 0 ELSE Age(r, q)
         /\ \A r \in Sites : Home(sites'[r])
  <1>1. DataOK
    BY DEF SitesInv
  <1>2. PICK c : c = SiteCopy(s)
    OBVIOUS
  <1>3. SiteOK(c) /\ Home(c) /\ \A q \in Ptrs : c.key[PtrHash[q]] = q <=> Held(s, q)
    BY <1>2, CopyIsHome
  <1>4. PICK m : m = SiteMap!Put(c, p, 0)
    OBVIOUS
  <1>5. /\ m.key = [c.key EXCEPT ![PtrHash[p]] = p]
        /\ m.value = [c.value EXCEPT ![PtrHash[p]] = 0] /\ Home(m)
    BY <1>3, <1>4, PutIsHome
  <1>6. sites'[s] = m /\ \A r \in Sites : r # s => sites'[r] = sites[r]
    BY <1>1, <1>2, <1>4 DEF DataOK, SiteWith
  <1>7. /\ c \in SiteMap!MapType
        /\ \A q \in Ptrs : PtrHash[q] \in SiteMap!Slots /\ (q # p => PtrHash[q] # PtrHash[p])
    BY <1>3, SiteConstants, SiteExactType DEF SiteOK, SiteMap!Slots, Alone
  <1>8. \A q \in Ptrs : /\ m.key[PtrHash[q]] = IF q = p THEN p ELSE c.key[PtrHash[q]]
                        /\ m.value[PtrHash[q]] = IF q = p THEN 0 ELSE c.value[PtrHash[q]]
    BY <1>5, <1>7 DEF SiteMap!MapType
  <1>9. \A r \in Sites, q \in Ptrs : Held(r, q)' <=> Held(r, q) \/ (r = s /\ q = p)
    <2> SUFFICES ASSUME NEW r \in Sites, NEW q \in Ptrs
                 PROVE  Held(r, q)' <=> Held(r, q) \/ (r = s /\ q = p)
      OBVIOUS
    <2>1. CASE r # s
      BY <1>6, <2>1 DEF Held
    <2>2. CASE r = s
      BY <1>3, <1>6, <1>8, <2>2 DEF Held
    <2> QED BY <2>1, <2>2
  <1>10. ASSUME NEW r \in Sites, NEW q \in Ptrs, Held(r, q)'
         PROVE  Age(r, q)' = IF r = s /\ q = p THEN 0 ELSE Age(r, q)
    <2>1. CASE r # s
      BY <1>6, <2>1 DEF Age
    <2>2. CASE r = s /\ q = p
      BY <1>6, <1>8, <2>2 DEF Age
    <2>3. CASE r = s /\ q # p
      <3>1. c = sites[s]
        BY <1>2, <1>9, <1>10, <2>3 DEF SiteCopy, Held
      <3> QED BY <1>6, <1>8, <2>3, <3>1 DEF Age
    <2> QED BY <2>1, <2>2, <2>3
  <1>11. \A r \in Sites : Home(sites'[r])
    BY <1>5, <1>6 DEF Records
  <1> QED BY <1>9, <1>10, <1>11

\* The records stay true, of the pointer too.
LEMMA RecordsRecord ==
  ASSUME Alone, SitesInv, Records, ~is_quitting, NEW t \in Threads, Record(t)
  PROVE  Records'
  <1> DEFINE p == call[t].ptr
             s == call[t].site
             room == s \in known \/ entries < MaxSites
  <1>1. ControlOK /\ KindsOK /\ DataOK
    BY DEF SitesInv
  <1>2. p \in Ptrs /\ s \in Sites /\ call[t].kind = "malloc" /\ pc[t] = "record"
    BY <1>1 DEF Record, KindsOK, AllocLabels, Allocating, Records, CallsOwn
  <1>3. mem[p] /\ (p \notin missed => \A r \in Sites : Held(r, p) => r = s)
    BY <1>2 DEF Records, CallsOwn, CallsRecords
  <1>4. CASE SiteMap!Full(SiteWith(s, p))
    <2>1. /\ LeaveUpdate(t)
          /\ UNCHANGED <<mem, known, sites, announced, unplaced, survived, missed>>
      BY <1>4 DEF Record
    <2>2. QuietCalls
      BY <1>1, <1>2, <2>1 DEF QuietCalls, GoneLabels, ControlOK, Calls, LeaveUpdate, Goto
    <2> QED BY <1>1, <2>1, <2>2, QuietKeeps DEF Quiet
  <1>5. CASE ~SiteMap!Full(SiteWith(s, p))
    <2>1. /\ \E label \in {"count", "schedule"} : pc' = [pc EXCEPT ![t] = label]
          /\ UNCHANGED <<mem, call, survived, missed>>
          /\ announced' = [announced EXCEPT ![p] = Least(@ + 1, MaxCalls)]
          /\ known' = IF room THEN known \cup {s} ELSE known
          /\ sites' = IF room THEN [sites EXCEPT ![s] = SiteWith(s, p)] ELSE sites
          /\ unplaced' = IF room THEN unplaced \ {p} ELSE unplaced \cup {p}
      BY <1>1, <1>5 DEF Record, PutSite, Goto, DataOK
    <2>2. announced'[p] > 0 /\ \A q \in Ptrs : q # p => announced'[q] = announced[q]
      BY <1>1, <1>2, <2>1, BoundsAssumption DEF DataOK, Least
    <2>3. \A u \in Threads : call[u].kind \in {"malloc", "free"} => call[u].ptr \in Ptrs
      BY <1>1 DEF KindsOK, Allocating, Freeing
    <2>4. \A u \in Threads : u # t => pc'[u] = pc[u] /\ call[u].ptr # p
      BY <1>1, <1>2, <2>1 DEF ControlOK, Records, CallsOwn
    <2>5. CallsOwn'
      BY <2>1 DEF Records, CallsOwn
    <2>6. CASE ~room
      <3>1. /\ \A r \in Sites, q \in Ptrs : Held(r, q)' <=> Held(r, q)
            /\ p \notin missed => \A r \in Sites : ~Held(r, p)
        BY <1>3, <2>1, <2>6 DEF Held
      <3>2. CallsRecords'
        BY <2>1, <1>2, <2>3, <2>4, <3>1 DEF Records, CallsRecords
      <3>3. RecordsTrue'
        BY <2>1, <2>2, <2>6, <3>1 DEF Records, RecordsTrue, Age
      <3>4. ToldHeld'
        BY <2>1, <2>2, <2>6, <3>1 DEF Records, ToldHeld
      <3>5. (\A r \in Sites : Home(sites[r]))'
        BY <2>1, <2>6 DEF Records
      <3> QED BY <2>5, <3>2, <3>3, <3>4, <3>5 DEF Records
    <2>7. CASE room
      <3>1. /\ known' = known \cup {s} /\ sites' = [sites EXCEPT ![s] = SiteWith(s, p)]
            /\ unplaced' = unplaced \ {p}
        BY <2>1, <2>7
      <3>2. /\ \A r \in Sites, q \in Ptrs : Held(r, q)' <=> Held(r, q) \/ (r = s /\ q = p)
            /\ \A r \in Sites, q \in Ptrs : Held(r, q)' =>
                 Age(r, q)' = IF r = s /\ q = p THEN 0 ELSE Age(r, q)
            /\ \A r \in Sites : Home(sites'[r])
        BY <1>2, <3>1, RecordHeld
      <3>3. CallsRecords'
        BY <1>2, <2>1, <2>3, <2>4, <3>2 DEF Records, CallsRecords
      <3>4. RecordsTrue'
        <4> SUFFICES ASSUME NEW r \in Sites, NEW q \in Ptrs \ missed, Held(r, q)'
                     PROVE  /\ mem'[q] /\ Age(r, q)' <= survived'[q]
                            /\ \A r2 \in Sites : Held(r2, q)' => r2 = r
                            /\ announced'[q] > 0 /\ q \notin unplaced'
          BY <2>1 DEF RecordsTrue
        <4>1. CASE q = p
          <5>1. r = s
            BY <1>3, <3>2, <4>1
          <5>2. survived[p] \in 0 .. MaxAge
            BY <1>1, <1>2 DEF DataOK
          <5>3. \A r2 \in Sites : Held(r2, q)' => r2 = r
            BY <1>3, <3>2, <4>1, <5>1
          <5> QED BY <1>3, <2>1, <2>2, <3>1, <3>2, <4>1, <5>1, <5>2, <5>3
        <4>2. CASE q # p
          <5>1. Held(r, q)
            BY <3>2, <4>2
          <5>2. /\ mem[q] /\ Age(r, q) <= survived[q]
                /\ \A r2 \in Sites : Held(r2, q) => r2 = r
                /\ announced[q] > 0 /\ q \notin unplaced
            BY <5>1 DEF Records, RecordsTrue
          <5>3. Age(r, q)' = Age(r, q)
            BY <3>2, <4>2, <5>1
          <5> QED BY <2>1, <2>2, <3>1, <3>2, <4>2, <5>2, <5>3
        <4> QED BY <4>1, <4>2
      <3>5. ToldHeld'
        BY <1>2, <2>1, <2>2, <3>1, <3>2 DEF Records, ToldHeld
      <3> QED BY <2>5, <3>2, <3>3, <3>4, <3>5 DEF Records
    <2> QED BY <2>6, <2>7
  <1> QED BY <1>4, <1>5

---------------------------------------------------------------------------
(* The theorems                                                            *)

LEMMA RecordsInit == Alone /\ Init => Records
  <1> SUFFICES ASSUME Init PROVE Records
    OBVIOUS
  <1>1. known = {} /\ NoCall.kind = "none" /\ NoCall.ptr \notin Ptrs
    BY PtrsAssumption DEF Init, NoCall
  <1>2. \A s \in Sites, p \in Ptrs : ~Held(s, p)
    BY <1>1 DEF Held
  <1>3. \A s \in Sites : Home(sites[s])
    BY PtrsAssumption DEF Init, Home, SiteMap!EmptyMap
  <1>4. CallsOwn /\ CallsRecords
    BY <1>1 DEF Init, CallsOwn, CallsRecords
  <1>5. RecordsTrue /\ ToldHeld
    BY <1>2 DEF Init, RecordsTrue, ToldHeld
  <1> QED BY <1>3, <1>4, <1>5 DEF Records

\* The records are true in every behaviour, until the test quits, but for
\* those of pointers that a free once missed.
THEOREM RecordsInductive == Alone => (Spec => []RecordsInv)
  <1> SUFFICES ASSUME Alone PROVE Spec => []RecordsInv
    OBVIOUS
  <1> USE DEF RecordsInv
  <1>1. Init => RecordsInv
    BY RecordsInit, SitesInvInit
  <1>2. RecordsInv /\ SitesInv' /\ [Next]_vars => RecordsInv'
    <2> SUFFICES ASSUME SitesInv, ~is_quitting => Records, [Next]_vars, ~is_quitting'
                 PROVE  Records'
      OBVIOUS
    <2>1. ASSUME UNCHANGED vars
          PROVE  ~is_quitting /\ Quiet
      BY <2>1 DEF vars, Quiet, QuietCalls, tracker, history
    <2>2. ASSUME Next
          PROVE  ~is_quitting
      BY <2>2, CanAssumption
      DEF Next, Program, Hook, PeriodElapses, malloc, mmap, free, munmap, Exit, PostCheck, TryBk,
          PostEnter, Update, Record, Count, UnlockStray, Schedule, Begin, Run, End, Clear, UnlockSuite,
          PreCheck, Walk, LockBk, PreEnter, LockHooks, LockSuite, RemoveRecord, UnlockHooks, UnlockBk,
          Release
    <2>3. Records
      BY <2>1, <2>2
    <2>4. CASE UNCHANGED vars
      BY <2>1, <2>3, <2>4, QuietKeeps DEF SitesInv
    <2>5. CASE PeriodElapses
      <3>1. Quiet
        BY <2>5 DEF PeriodElapses, Quiet, QuietCalls, tracker, history
      <3> QED BY <2>3, <3>1, QuietKeeps DEF SitesInv
    <2>6. ASSUME NEW t \in Threads, Program(t) \/ Hook(t)
          PROVE  Records'
      <3>1. CASE Program(t)
        BY <2>3, <3>1, RecordsProgram
      <3>2. CASE Record(t) \/ RemoveRecord(t) \/ End(t) \/ Release(t)
        <4>1. ~is_quitting
          BY <2>1, <2>2
        <4> QED BY <2>3, <3>2, <4>1, RecordsRecord, RecordsRemove, RecordsEnd, RecordsRelease
      <3>3. CASE Hook(t) /\ ~Record(t) /\ ~RemoveRecord(t) /\ ~End(t) /\ ~Release(t)
        <4>1. ~is_quitting
          BY <2>1, <2>2
        <4>2. Quiet
          BY <2>3, <3>3, <4>1, QuietHook
        <4> QED BY <2>3, <4>2, QuietKeeps DEF SitesInv
      <3> QED BY <2>6, <3>1, <3>2, <3>3
    <2> QED BY <2>4, <2>5, <2>6 DEF Next
  <1> QED BY <1>1, <1>2, SitesInductive, PTL DEF Spec

\* What a walk over the sites meets is what they hold.
LEMMA TrackedHeld ==
  ASSUME Alone, SitesInv, Records
  PROVE  /\ \A p \in Tracked : p \in Ptrs /\ \E s \in Sites : Held(s, p)
         /\ \A p \in Ptrs, s \in Sites : Held(s, p) => p \in Tracked
         /\ \A p \in Ptrs : \A a \in AgesOf(p) :
              \E s \in Sites : Held(s, p) /\ a = Age(s, p)
  <1>1. known \subseteq Sites /\ \A s \in Sites : sites[s] \in SiteMap!MapType
    BY DEF SitesInv, DataOK
  <1>2. \A s \in known, i \in SiteMap!Slots :
          sites[s].key[i] # NoPtr => /\ sites[s].key[i] \in Ptrs
                                     /\ PtrHash[sites[s].key[i]] = i
    BY <1>1 DEF SiteMap!MapType, Records, Home
  <1>3. \A p \in Ptrs : PtrHash[p] \in SiteMap!Slots /\ p # NoPtr
    BY SiteConstants DEF SiteMap!Slots
  <1>4. \A p \in Tracked : p \in Ptrs /\ \E s \in Sites : Held(s, p)
    BY <1>1, <1>2 DEF Tracked, SiteMap!Occupied, Held
  <1>5. \A p \in Ptrs, s \in Sites : Held(s, p) => p \in Tracked
    BY <1>3 DEF Tracked, SiteMap!Occupied, Held
  <1>6. \A p \in Ptrs : \A a \in AgesOf(p) :
          \E s \in Sites : Held(s, p) /\ a = Age(s, p)
    BY <1>1, <1>2, <1>3 DEF AgesOf, Held, Age
  <1> QED BY <1>4, <1>5, <1>6

\* No record outlives its memory, whatever is skipped because a lock is
\* taken, a map is full, an interval runs or another thread exits; but one
\* that a free missed does.
THEOREM TrackedIsLive == Alone => (Spec => []TrackedLive)
  <1> SUFFICES ASSUME Alone PROVE Spec => []TrackedLive
    OBVIOUS
  <1>1. RecordsInv => TrackedLive
    BY TrackedHeld DEF RecordsInv, TrackedLive, Records, RecordsTrue, is_done
  <1> QED BY <1>1, RecordsInductive, PTL

\* The tests have been told of exactly what the suite tracks, and of what
\* found no room in the site table, but for pointers that a free missed.
THEOREM AnnouncedIsTracked == Alone => (Spec => []AnnouncedTracked)
  <1> SUFFICES ASSUME Alone PROVE Spec => []AnnouncedTracked
    OBVIOUS
  <1>1. RecordsInv => AnnouncedTracked
    <2> SUFFICES ASSUME SitesInv, Records PROVE AnnouncedTracked
      BY DEF RecordsInv, AnnouncedTracked, is_done
    <2>1. unplaced \subseteq Ptrs
      BY DEF SitesInv, DataOK
    <2> QED BY <2>1, TrackedHeld DEF AnnouncedTracked, Records, ToldHeld, RecordsTrue
  <1> QED BY <1>1, RecordsInductive, PTL

\* No allocation is reported older than it is, unless a free of the same
\* address was missed before.
THEOREM AgesAreNeverAhead == Alone => (Spec => []AgeNeverAhead)
  <1> SUFFICES ASSUME Alone PROVE Spec => []AgeNeverAhead
    OBVIOUS
  <1>1. RecordsInv => AgeNeverAhead
    BY TrackedHeld DEF RecordsInv, AgeNeverAhead, Records, RecordsTrue, is_done
  <1> QED BY <1>1, RecordsInductive, PTL

\* A tracked allocation has been reported freed by the time its memory is
\* given back, unless the free missed it: a shared slot, as HooksCollide
\* shows, and a walk that MissesAreLast describes, are all that can break it.
THEOREM FreesAreAnnounced == Alone => (Spec => FreeAnnouncedOrMissed)
  <1> SUFFICES ASSUME Alone PROVE Spec => FreeAnnouncedOrMissed
    OBVIOUS
  <1>1. RecordsInv /\ [Next]_vars =>
          [\A p \in HeapPtrs : mem[p] /\ ~mem'[p] =>
             is_done \/ p \notin Tracked \/ p \in missed]_vars
    <2> SUFFICES ASSUME SitesInv, Records, Next, NEW p \in HeapPtrs, mem[p], ~mem'[p],
                        p \notin missed
                 PROVE  p \notin Tracked
      BY DEF RecordsInv, is_done
    <2>1. mem \in [Ptrs -> BOOLEAN] /\ p \in Ptrs
      BY DEF SitesInv, DataOK, Ptrs
    <2>2. PICK t \in Threads : Release(t)
      <3>1. \A t \in Threads : ~munmap(t)
        BY DEF munmap, Alone
      <3> QED BY <2>1, <3>1
        DEF Next, Program, Hook, PeriodElapses, malloc, mmap, free, Exit, PostCheck, TryBk,
            PostEnter, Update, Record, Count, UnlockStray, Schedule, Begin, Run, End, Clear, UnlockSuite,
            PreCheck, Walk, LockBk, PreEnter, LockHooks, LockSuite, RemoveRecord, UnlockHooks, UnlockBk
    <2>3. pc[t] = "release" /\ call[t].kind = "free" /\ call[t].ptr = p
      BY <2>1, <2>2 DEF Release
    <2>4. \A s \in Sites : ~Held(s, p)
      BY <2>3 DEF Records, CallsRecords, GoneLabels
    <2> QED BY <2>4, TrackedHeld
  <1> QED BY <1>1, RecordsInductive, PTL DEF Spec, FreeAnnouncedOrMissed

---------------------------------------------------------------------------
(* The walk of a free that has no lock                                     *)

\* Every site has a slot of the table to itself, and the counter counts the
\* sites, but for the one that a thread is about to count.
Counting == \E u \in Threads : pc[u] = "count"

SitesPlaced ==
  /\ \A s \in known : slot[s] \in 0 .. MaxSites - 1
  /\ \A r, s \in known : slot[r] = slot[s] => r = s
  /\ IsFiniteSet(known)
  /\ Cardinality(known) = IF Counting THEN entries + 1 ELSE entries

\* The sites in front of a slot.
Passed(i) == {s \in known : slot[s] < i}

\* What a walk has met, and what it has seen there.
WalkOK(t) ==
  /\ pc[t] = "pre_check" => call[t].at = 0 /\ call[t].met = 0
  /\ pc[t] = "walk" => /\ call[t].met <= Cardinality(Passed(call[t].at))
                       /\ \A s \in Passed(call[t].at) : ~Held(s, call[t].ptr)

WalkInv == SitesPlaced /\ (~is_quitting => \A t \in Threads : WalkOK(t))

\* A step that moves no other thread to or from the counter.
LEMMA CountingStays ==
  ASSUME ControlOK, NEW t \in Threads, pc[t] # "count", NEW label, label # "count",
         pc' = [pc EXCEPT ![t] = label]
  PROVE  Counting' <=> Counting
  BY DEF ControlOK, Counting

\* A put of a new site takes a free slot, and is about to count it.
LEMMA PlacedRecord ==
  ASSUME LockInv, SitesInv, SitesPlaced, NEW t \in Threads, Record(t)
  PROVE  SitesPlaced'
  <1> DEFINE s == call[t].site
  <1>1. ControlOK /\ KindsOK /\ DataOK /\ pc[t] = "record" /\ s \in Sites /\ UNCHANGED entries
    BY DEF SitesInv, Record, KindsOK, AllocLabels
  <1>2. ~Counting
    BY <1>1 DEF Counting, LockInv, LocksHeld, SuiteLabels
  <1>3. CASE UNCHANGED <<known, slot>> /\ \E label \in Labels \ {"count"} : pc' = [pc EXCEPT ![t] = label]
    BY <1>1, <1>2, <1>3, CountingStays DEF SitesPlaced
  <1>4. CASE /\ s \notin known /\ known' = known \cup {s} /\ pc' = [pc EXCEPT ![t] = "count"]
             /\ \E i \in FreeSlots : slot' = [slot EXCEPT ![s] = i]
    <2>1. PICK i \in FreeSlots : slot' = [slot EXCEPT ![s] = i]
      BY <1>4
    <2>2. i \in 0 .. MaxSites - 1 /\ \A r \in known : slot[r] # i
      BY DEF FreeSlots
    <2>3. slot'[s] = i /\ \A r \in known : slot'[r] = slot[r]
      BY <1>1, <1>4, <2>1 DEF DataOK
    <2>4. /\ \A r \in known' : slot'[r] \in 0 .. MaxSites - 1
          /\ \A q, r \in known' : slot'[q] = slot'[r] => q = r
      BY <1>4, <2>2, <2>3 DEF SitesPlaced
    <2>5. Counting'
      BY <1>1, <1>4 DEF ControlOK, Counting
    <2>6. IsFiniteSet(known') /\ Cardinality(known') = Cardinality(known) + 1
      BY <1>4, FS_AddElement DEF SitesPlaced
    <2>7. Cardinality(known') = entries' + 1
      BY <1>1, <1>2, <2>6 DEF SitesPlaced
    <2> QED BY <2>4, <2>5, <2>6, <2>7 DEF SitesPlaced
  <1>5. CASE SiteMap!Full(SiteWith(s, call[t].ptr))
    <2>1. UNCHANGED <<known, slot>> /\ LeaveUpdate(t)
      BY <1>5 DEF Record
    <2> QED BY <1>3, <2>1 DEF LeaveUpdate, Goto, Labels
  <1>6. CASE ~SiteMap!Full(SiteWith(s, call[t].ptr))
    BY <1>3, <1>4, <1>6 DEF Record, PutSite, Goto, Labels
  <1> QED BY <1>5, <1>6

\* The counter catches up.
LEMMA PlacedCount ==
  ASSUME LockInv, SitesInv, SitesPlaced, NEW t \in Threads, Count(t)
  PROVE  SitesPlaced'
  <1>1. /\ ControlOK /\ DataOK /\ pc[t] = "count" /\ pc' = [pc EXCEPT ![t] = "schedule"]
        /\ entries' = entries + 1 /\ UNCHANGED <<known, slot>>
    BY DEF SitesInv, Count, Goto
  <1>2. \A u \in Threads \ {t} : pc[u] # "count"
    BY <1>1 DEF LockInv, LocksHeld, SuiteLabels
  <1>3. Counting /\ ~Counting'
    BY <1>1, <1>2 DEF ControlOK, Counting
  <1>4. Cardinality(known') = entries'
    BY <1>1, <1>3 DEF SitesPlaced
  <1> QED BY <1>1, <1>3, <1>4 DEF SitesPlaced

\* No other step changes the table's slots or its counter.
LEMMA PlacedStep ==
  ASSUME LockInv, SitesInv, SitesPlaced, [Next]_vars
  PROVE  SitesPlaced'
  <1> USE DEF tracker, Goto
  <1>1. ControlOK /\ KindsOK
    BY DEF SitesInv
  <1>2. ASSUME UNCHANGED <<known, slot, entries>>, NEW t \in Threads, pc[t] # "count",
               NEW label \in Labels, label # "count", pc' = [pc EXCEPT ![t] = label]
        PROVE  SitesPlaced'
    BY <1>1, <1>2, CountingStays DEF SitesPlaced
  <1>3. ASSUME UNCHANGED <<known, slot, entries, pc>>
        PROVE  SitesPlaced'
    BY <1>3 DEF SitesPlaced, Counting
  <1>4. ASSUME NEW t \in Threads, Program(t)
        PROVE  SitesPlaced'
    BY <1>2, <1>4 DEF Program, malloc, mmap, free, munmap, Exit, Enter, Labels
  <1>5. ASSUME NEW t \in Threads, Hook(t), ~Record(t), ~Count(t)
        PROVE  SitesPlaced'
    <2> USE DEF Labels
    <2>1. CASE PostCheck(t) \/ TryBk(t) \/ PostEnter(t) \/ Update(t) \/ UnlockStray(t)
      BY <1>2, <2>1 DEF PostCheck, TryBk, PostEnter, Update, UnlockStray, Return, LeaveUpdate
    <2>2. CASE Schedule(t) \/ Begin(t) \/ Run(t) \/ Clear(t) \/ UnlockSuite(t)
      BY <1>2, <2>2 DEF Schedule, Begin, Run, Clear, UnlockSuite, LeaveSchedule, LeaveUpdate
    <2>3. CASE End(t)
      BY <1>2, <2>3 DEF End
    <2>4. CASE PreCheck(t) \/ LockBk(t) \/ PreEnter(t) \/ LockHooks(t) \/ LockSuite(t)
      BY <1>2, <2>4 DEF PreCheck, LockBk, PreEnter, LockHooks, LockSuite
    <2>5. CASE Walk(t)
      BY <1>2, <1>3, <2>5 DEF Walk
    <2>6. CASE RemoveRecord(t) \/ UnlockHooks(t) \/ UnlockBk(t) \/ Release(t)
      BY <1>2, <2>6 DEF RemoveRecord, UnlockHooks, UnlockBk, Release, Return
    <2> QED BY <1>5, <2>1, <2>2, <2>3, <2>4, <2>5, <2>6 DEF Hook
  <1>6. CASE PeriodElapses
    BY <1>3, <1>6 DEF PeriodElapses
  <1>7. CASE UNCHANGED vars
    BY <1>3, <1>7 DEF vars
  <1> QED BY <1>4, <1>5, <1>6, <1>7, PlacedRecord, PlacedCount DEF Next

\* A step is one thread's: the others stay where they are.
LEMMA OthersStay ==
  ASSUME ControlOK, NEW u \in Threads, Program(u) \/ Hook(u), NEW t \in Threads, t # u
  PROVE  pc'[t] = pc[t] /\ call'[t] = call[t]
  <1> USE DEF ControlOK, Goto
  <1>1. CASE Program(u)
    BY <1>1 DEF Program, malloc, mmap, free, munmap, Exit, Enter
  <1>2. CASE PostCheck(u) \/ TryBk(u) \/ PostEnter(u) \/ Update(u) \/ UnlockStray(u)
    BY <1>2 DEF PostCheck, TryBk, PostEnter, Update, UnlockStray, Return, LeaveUpdate
  <1>3. CASE Record(u) \/ Count(u)
    BY <1>3 DEF Record, PutSite, Count, LeaveUpdate
  <1>4. CASE Schedule(u) \/ Begin(u) \/ Run(u) \/ End(u) \/ Clear(u) \/ UnlockSuite(u)
    BY <1>4 DEF Schedule, Begin, Run, End, Clear, UnlockSuite, LeaveSchedule, LeaveUpdate
  <1>5. CASE PreCheck(u) \/ Walk(u) \/ LockBk(u) \/ PreEnter(u) \/ LockHooks(u) \/ LockSuite(u)
    BY <1>5 DEF PreCheck, Walk, LockBk, PreEnter, LockHooks, LockSuite
  <1>6. CASE RemoveRecord(u) \/ UnlockHooks(u) \/ UnlockBk(u) \/ Release(u)
    BY <1>6 DEF RemoveRecord, UnlockHooks, UnlockBk, Release, Return
  <1> QED BY <1>1, <1>2, <1>3, <1>4, <1>5, <1>6 DEF Hook

\* A site that is in the table keeps its slot.
SlotsKept == known \subseteq known' /\ \A s \in known : slot'[s] = slot[s]

LEMMA SlotsStay ==
  ASSUME SitesInv, [Next]_vars
  PROVE  SlotsKept
  <1> USE DEF SlotsKept, tracker
  <1>1. CASE UNCHANGED <<known, slot>>
    BY <1>1
  <1>2. ASSUME NEW t \in Threads, Record(t)
        PROVE  SlotsKept
    <2>1. call[t].site \in Sites /\ slot \in [Sites -> Nat] /\ known \subseteq Sites
      BY <1>2 DEF SitesInv, KindsOK, DataOK, Record, AllocLabels
    <2>2. CASE UNCHANGED <<known, slot>>
      BY <2>2
    <2>3. ASSUME call[t].site \notin known, known' = known \cup {call[t].site},
                 NEW i \in FreeSlots, slot' = [slot EXCEPT ![call[t].site] = i]
          PROVE  SlotsKept
      BY <2>1, <2>3
    <2> QED BY <1>2, <2>2, <2>3 DEF Record, PutSite
  <1>3. ASSUME NEW t \in Threads, Program(t)
        PROVE  UNCHANGED <<known, slot>>
    BY <1>3 DEF Program, malloc, mmap, free, munmap, Exit
  <1>4. ASSUME NEW t \in Threads, Hook(t), ~Record(t)
        PROVE  UNCHANGED <<known, slot>>
    BY <1>4
    DEF Hook, PostCheck, TryBk, PostEnter, Update, Count, UnlockStray, Schedule, Begin, Run, End,
        Clear, UnlockSuite, PreCheck, Walk, LockBk, PreEnter, LockHooks, LockSuite, RemoveRecord,
        UnlockHooks, UnlockBk, Release
  <1>5. CASE PeriodElapses \/ UNCHANGED vars
    BY <1>1, <1>5 DEF PeriodElapses, vars
  <1> QED BY <1>1, <1>2, <1>3, <1>4, <1>5 DEF Next

\* While a free is under way no other thread records its pointer.
LEMMA NoneRecorded ==
  ASSUME Alone, SitesInv, Records, ~is_quitting, NEW u \in Threads, Program(u) \/ Hook(u),
         NEW t \in Threads, t # u, NEW p \in Ptrs, p = call[t].ptr, NEW r \in Sites, Held(r, p)'
  PROVE  Held(r, p)
  <1>1. ControlOK /\ KindsOK /\ DataOK
    BY DEF SitesInv
  <1>2. call[u].ptr # p
    BY DEF Records, CallsOwn
  <1>3. CASE UNCHANGED <<known, sites>>
    BY <1>3 DEF Held
  <1>4. CASE Record(u)
    <2>1. PICK s, q : s = call[u].site /\ q = call[u].ptr
      OBVIOUS
    <2>2. s \in Sites /\ q \in Ptrs /\ q # p
      BY <1>1, <1>2, <1>4, <2>1 DEF Record, KindsOK, AllocLabels
    <2>3. CASE known' = known \cup {s} /\ sites' = [sites EXCEPT ![s] = SiteWith(s, q)]
      <3>1. \A r2 \in Sites, q2 \in Ptrs : Held(r2, q2)' <=> Held(r2, q2) \/ (r2 = s /\ q2 = q)
        BY <2>2, <2>3, RecordHeld
      <3> QED BY <2>2, <3>1
    <2>4. CASE known' = known /\ s \in known /\ sites' = [sites EXCEPT ![s] = SiteWith(s, q)]
      <3>1. known' = known \cup {s}
        BY <2>4
      <3> QED BY <2>3, <2>4, <3>1
    <2>5. \/ UNCHANGED <<known, sites>>
          \/ /\ sites' = [sites EXCEPT ![s] = SiteWith(s, q)]
             /\ known' = known \cup {s} \/ (known' = known /\ s \in known)
      BY <1>4, <2>1 DEF Record, PutSite
    <2> QED BY <1>3, <2>3, <2>4, <2>5
  <1>5. CASE RemoveRecord(u)
    <2>1. call[u].ptr \in Ptrs /\ known' = known
      BY <1>1, <1>5 DEF RemoveRecord, KindsOK, FreeLabels
    <2>2. \A s \in known : SiteMap!Has(sites[s], call[u].ptr) <=> Held(s, call[u].ptr)
      BY <2>1, ContainsHeld
    <2>3. ASSUME NEW s \in known, Held(s, call[u].ptr),
                 sites' = [sites EXCEPT ![s] = SiteMap!RemoveMap(@, call[u].ptr)]
          PROVE  Held(r, p)
      BY <1>2, <2>1, <2>3, RemoveHeld
    <2> QED BY <1>3, <1>5, <2>1, <2>2, <2>3 DEF RemoveRecord
  <1>6. CASE End(u)
    <2>1. sites'[r].key = sites[r].key /\ known' = known
      BY <1>1, <1>6 DEF End, Ticked, DataOK, SiteMap!MapType
    <2> QED BY <2>1 DEF Held
  <1> QED
    BY <1>3, <1>4, <1>5, <1>6
    DEF Program, Hook, malloc, mmap, free, munmap, Exit, PostCheck, TryBk, PostEnter, Update, Count,
        UnlockStray, Schedule, Begin, Run, Clear, UnlockSuite, PreCheck, Walk, LockBk, PreEnter,
        LockHooks, LockSuite, UnlockHooks, UnlockBk, Release, tracker

\* What a walk has passed stays passed, while another thread moves.
LEMMA PassedGrows ==
  ASSUME SitesPlaced', SlotsKept, NEW i \in Nat
  PROVE  /\ Passed(i) \subseteq Passed(i)' /\ IsFiniteSet(Passed(i)')
         /\ Cardinality(Passed(i)) <= Cardinality(Passed(i)')
         /\ Cardinality(Passed(i)) \in Nat /\ Cardinality(Passed(i)') \in Nat
  <1>1. Passed(i)' \subseteq known' /\ Passed(i) \subseteq Passed(i)'
    BY DEF Passed, SlotsKept
  <1>2. IsFiniteSet(Passed(i)')
    BY <1>1, FS_Subset DEF SitesPlaced
  <1>3. IsFiniteSet(Passed(i)) /\ Cardinality(Passed(i)) <= Cardinality(Passed(i)')
    BY <1>1, <1>2, FS_Subset
  <1> QED BY <1>1, <1>2, <1>3, FS_CardinalityType

\* A walk that goes on has passed one slot more.
LEMMA WalkGoesOn ==
  ASSUME Alone, SitesInv, Records, SitesPlaced, ~is_quitting, NEW t \in Threads, WalkOK(t), Walk(t),
         NEW i, i = call[t].at, NEW p, p = call[t].ptr
  PROVE  WalkOK(t)'
  <1> DEFINE here == {s \in known : slot[s] = i}
  <1>1. /\ ControlOK /\ DataOK /\ pc[t] = "walk" /\ p \in Ptrs /\ i \in Nat /\ call[t].met \in Nat
        /\ UNCHANGED <<known, sites, slot>>
    BY DEF SitesInv, ControlOK, Calls, Walk, KindsOK, FreeLabels, tracker
  <1>2. CASE \E label \in {"release", "lock_bk"} : pc' = [pc EXCEPT ![t] = label]
    BY <1>1, <1>2 DEF ControlOK, WalkOK
  <1>3. CASE /\ \A s \in here : ~SiteMap!Has(sites[s], p)
             /\ call' = [call EXCEPT ![t].at = @ + 1, ![t].met = IF here = {} THEN @ ELSE @ + 1]
             /\ UNCHANGED pc
    <2>1. /\ call'[t].at = i + 1 /\ call'[t].ptr = p
          /\ call'[t].met = IF here = {} THEN call[t].met ELSE call[t].met + 1
      BY <1>1, <1>3 DEF ControlOK, Calls
    <2>2. \A s \in here : ~Held(s, p)
      BY <1>1, <1>3, ContainsHeld
    <2>3. Passed(i + 1) = Passed(i) \cup here
      BY <1>1 DEF Passed, DataOK
    <2>4. IsFiniteSet(Passed(i)) /\ Cardinality(Passed(i)) \in Nat
      <3>1. Passed(i) \subseteq known
        BY DEF Passed
      <3> QED BY <3>1, FS_Subset, FS_CardinalityType DEF SitesPlaced
    <2>5. call'[t].met <= Cardinality(Passed(i + 1))
      <3>1. call[t].met <= Cardinality(Passed(i))
        BY <1>1 DEF WalkOK
      <3>2. CASE here = {}
        <4>1. Passed(i + 1) = Passed(i)
          BY <2>3, <3>2
        <4> QED BY <2>1, <3>1, <3>2, <4>1
      <3>3. ASSUME NEW s \in here
            PROVE  call'[t].met <= Cardinality(Passed(i + 1))
        <4>1. here = {s} /\ s \notin Passed(i)
          BY <1>1, <3>3 DEF SitesPlaced, Passed, DataOK
        <4>2. Passed(i + 1) = Passed(i) \cup {s}
          BY <2>3, <4>1
        <4>3. Cardinality(Passed(i + 1)) = Cardinality(Passed(i)) + 1
          BY <2>4, <4>1, <4>2, FS_AddElement
        <4> QED BY <1>1, <2>1, <2>4, <3>1, <4>1, <4>3
      <3> QED BY <3>2, <3>3
    <2>6. \A s \in Passed(i + 1) : ~Held(s, p)
      BY <1>1, <2>2, <2>3 DEF WalkOK
    <2>7. Passed(i + 1)' = Passed(i + 1) /\ \A s \in Sites : Held(s, p)' <=> Held(s, p)
      BY <1>1 DEF Passed, Held
    <2>8. pc'[t] = "walk" /\ Passed(i + 1) \subseteq Sites
      BY <1>1, <1>3 DEF Passed, DataOK
    <2> QED BY <1>1, <2>1, <2>5, <2>6, <2>7, <2>8 DEF WalkOK, Passed, Held
  <1> QED BY <1>2, <1>3 DEF Walk, Goto

\* No step spoils what a walk has seen.
LEMMA WalkStep ==
  ASSUME Alone, SitesInv, SitesInv', Records, SitesPlaced, SitesPlaced', ~is_quitting,
         [Next]_vars, NEW t \in Threads, WalkOK(t)
  PROVE  WalkOK(t)'
  <1>1. ControlOK /\ KindsOK /\ DataOK /\ SlotsKept /\ known' \subseteq Sites
    BY SlotsStay DEF SitesInv, DataOK
  <1>2. ASSUME pc'[t] = pc[t], call'[t] = call[t],
               \A p \in Ptrs, s \in Sites : p = call[t].ptr /\ Held(s, p)' => Held(s, p)
        PROVE  WalkOK(t)'
    <2>1. CASE pc[t] # "walk"
      BY <1>2, <2>1 DEF WalkOK
    <2>2. CASE pc[t] = "walk"
      <3>0. PICK i, p : i = call[t].at /\ p = call[t].ptr
        OBVIOUS
      <3>1. i \in Nat /\ call[t].met \in Nat /\ p \in Ptrs
        BY <1>1, <2>2, <3>0 DEF ControlOK, Calls, KindsOK, FreeLabels
      <3>2. /\ call[t].met <= Cardinality(Passed(i))
            /\ \A s \in Passed(i) : ~Held(s, p)
        BY <2>2, <3>0 DEF WalkOK
      <3>3. call[t].met <= Cardinality(Passed(i)')
        BY <1>1, <3>1, <3>2, PassedGrows
      <3>4. ASSUME NEW s \in Passed(i)', Held(s, p)'
            PROVE  FALSE
        <4>1. s \in Sites /\ slot'[s] < i
          BY <1>1, <3>4 DEF Passed
        <4>2. Held(s, p)
          BY <1>2, <3>0, <3>1, <3>4, <4>1
        <4>3. s \in known
          BY <4>2 DEF Held
        <4> QED BY <1>1, <3>2, <4>1, <4>2, <4>3 DEF SlotsKept, Passed
      <3> QED BY <1>2, <2>2, <3>0, <3>3, <3>4 DEF WalkOK, Passed, Held
    <2> QED BY <2>1, <2>2
  <1>3. ASSUME NEW u \in Threads, u # t, Program(u) \/ Hook(u)
        PROVE  WalkOK(t)'
    BY <1>1, <1>2, <1>3, OthersStay, NoneRecorded
  <1>4. CASE Program(t)
    <2>1. pc'[t] = "pre_check" => call'[t].at = 0 /\ call'[t].met = 0
      BY <1>1, <1>4 DEF Program, malloc, mmap, free, munmap, Exit, Enter, Goto, ControlOK
    <2>2. pc'[t] # "walk"
      BY <1>1, <1>4 DEF Program, malloc, mmap, free, munmap, Exit, Enter, Goto, ControlOK
    <2> QED BY <2>1, <2>2 DEF WalkOK
  <1>5. CASE Walk(t)
    BY <1>5, WalkGoesOn
  <1>6. CASE PreCheck(t)
    <2>1. pc[t] = "pre_check" /\ pc'[t] # "pre_check" /\ call' = call
      BY <1>1, <1>6 DEF PreCheck, Goto, ControlOK
    <2>2. call'[t].at = 0 /\ call'[t].met = 0
      BY <2>1 DEF WalkOK
    <2>3. Passed(0)' = {}
      BY <1>1 DEF Passed, SitesPlaced
    <2> QED BY <2>1, <2>2, <2>3, FS_EmptySet DEF WalkOK, Passed
  <1>7. CASE Hook(t) /\ ~Walk(t) /\ ~PreCheck(t)
    <2>1. pc'[t] \notin {"walk", "pre_check"}
      <3> USE <1>1 DEF ControlOK, Goto
      <3>1. CASE PostCheck(t) \/ TryBk(t) \/ PostEnter(t) \/ Update(t) \/ UnlockStray(t)
        BY <3>1 DEF PostCheck, TryBk, PostEnter, Update, UnlockStray, Return, LeaveUpdate
      <3>2. CASE Record(t) \/ Count(t)
        BY <3>2 DEF Record, PutSite, Count, LeaveUpdate
      <3>3. CASE Schedule(t) \/ Begin(t) \/ Run(t) \/ End(t) \/ Clear(t) \/ UnlockSuite(t)
        BY <3>3 DEF Schedule, Begin, Run, End, Clear, UnlockSuite, LeaveSchedule, LeaveUpdate
      <3>4. CASE LockBk(t) \/ PreEnter(t) \/ LockHooks(t) \/ LockSuite(t)
        BY <3>4 DEF LockBk, PreEnter, LockHooks, LockSuite
      <3>5. CASE RemoveRecord(t) \/ UnlockHooks(t) \/ UnlockBk(t) \/ Release(t)
        BY <3>5 DEF RemoveRecord, UnlockHooks, UnlockBk, Release, Return
      <3> QED BY <1>7, <3>1, <3>2, <3>3, <3>4, <3>5 DEF Hook
    <2> QED BY <2>1 DEF WalkOK
  <1>8. CASE UNCHANGED <<pc, call, known, sites>>
    BY <1>2, <1>8 DEF Held
  <1>9. CASE PeriodElapses \/ UNCHANGED vars
    BY <1>8, <1>9 DEF PeriodElapses, vars, tracker
  <1> QED BY <1>3, <1>4, <1>5, <1>6, <1>7, <1>9 DEF Next

\* A test that has quit has quit for good.
LEMMA QuitStays ==
  ASSUME is_quitting, [Next]_vars, is_quitting \in BOOLEAN
  PROVE  is_quitting'
  BY CanAssumption
  DEF Next, Program, Hook, PeriodElapses, malloc, mmap, free, munmap, Exit, PostCheck, TryBk,
      PostEnter, Update, Record, Count, UnlockStray, Schedule, Begin, Run, End, Clear, UnlockSuite,
      PreCheck, Walk, LockBk, PreEnter, LockHooks, LockSuite, RemoveRecord, UnlockHooks, UnlockBk,
      Release, vars

\* The walks are as WalkInv says in every behaviour.
LEMMA WalksInductive == Alone /\ CanExit = FALSE => (Spec => []WalkInv)
  <1> SUFFICES ASSUME Alone, CanExit = FALSE PROVE Spec => []WalkInv
    OBVIOUS
  <1>1. Init => WalkInv
    <2> SUFFICES ASSUME Init PROVE WalkInv
      OBVIOUS
    <2>1. known = {} /\ entries = 0 /\ ~Counting /\ \A t \in Threads : pc[t] = "idle"
      BY DEF Init, Counting
    <2> QED BY <2>1, FS_EmptySet DEF WalkInv, SitesPlaced, WalkOK
  <1>2. WalkInv /\ RecordsInv /\ RecordsInv' /\ LockInv /\ [Next]_vars => WalkInv'
    <2> SUFFICES ASSUME WalkInv, RecordsInv, RecordsInv', LockInv, [Next]_vars
                 PROVE  WalkInv'
      OBVIOUS
    <2>1. SitesInv /\ SitesInv' /\ SitesPlaced /\ SitesPlaced'
      BY PlacedStep DEF WalkInv, RecordsInv
    <2>2. CASE is_quitting
      <3>1. is_quitting'
        BY <2>1, <2>2, QuitStays DEF SitesInv, DataOK
      <3> QED BY <2>1, <3>1 DEF WalkInv
    <2>3. CASE ~is_quitting
      BY <2>1, <2>3, WalkStep DEF WalkInv, RecordsInv
    <2> QED BY <2>2, <2>3
  <1>3. Spec => []RecordsInv
    BY RecordsInductive
  <1>4. Spec => []LockInv
    BY LocksInductive
  <1> QED BY <1>1, <1>2, <1>3, <1>4, PTL DEF Spec

\* The last site, met by a walk that says no, is the one that is not counted.
LEMMA MissIsLast ==
  ASSUME Alone, SitesInv, Records, SitesPlaced, NEW t \in Threads, WalkOK(t), Walk(t), WalkOver(t),
         NEW s \in known, Held(s, call[t].ptr)
  PROVE  Counting /\ \A r \in known : slot[r] <= slot[s]
  <1> DEFINE P == Passed(call[t].at)
  <1>1. /\ call[t].at \in Nat /\ call[t].met \in Nat /\ entries \in Nat /\ MaxSites \in Nat
        /\ known \subseteq Sites /\ \A r \in known : slot[r] \in Nat
        /\ pc[t] = "walk"
    BY BoundsAssumption DEF SitesInv, ControlOK, Calls, DataOK, Walk
  <1>2. call[t].met <= Cardinality(P) /\ s \notin P /\ P \subseteq known
    BY <1>1 DEF WalkOK, Passed
  <1>3. slot[s] >= call[t].at /\ slot[s] < MaxSites
    BY <1>1, <1>2 DEF Passed, SitesPlaced
  <1>4. entries <= call[t].met
    BY <1>1, <1>3 DEF WalkOver
  <1>5. IsFiniteSet(P) /\ IsFiniteSet(P \cup {s})
    BY <1>2, FS_Subset, FS_AddElement DEF SitesPlaced
  <1>6. /\ Cardinality(P \cup {s}) = Cardinality(P) + 1 /\ Cardinality(P) \in Nat
        /\ Cardinality(known) \in Nat
    BY <1>2, <1>5, FS_AddElement, FS_CardinalityType DEF SitesPlaced
  <1>7. P \cup {s} \subseteq known
    BY <1>2
  <1>8. /\ Cardinality(P \cup {s}) <= Cardinality(known)
        /\ Cardinality(P \cup {s}) = Cardinality(known) => P \cup {s} = known
    BY <1>7, FS_Subset DEF SitesPlaced
  <1>9. Cardinality(known) = IF Counting THEN entries + 1 ELSE entries
    BY DEF SitesPlaced
  <1> HIDE DEF P
  <1>10. Counting /\ Cardinality(P \cup {s}) = Cardinality(known)
    BY <1>1, <1>2, <1>4, <1>6, <1>8, <1>9
  <1>11. ASSUME NEW r \in known
         PROVE  slot[r] <= slot[s]
    <2>1. r = s \/ slot[r] < call[t].at
      BY <1>8, <1>10 DEF P, Passed
    <2> QED BY <1>1, <1>3, <2>1
  <1> QED BY <1>10, <1>11

\* A free whose unlocked contains() misses a record has been overtaken by
\* the put of a new site, between its two last writes, and the record is in
\* the last site of the table: for any number of threads, sites and slots,
\* and whatever is recorded and removed while the walk is on its way.
THEOREM MissesAreLast == Alone /\ CanExit = FALSE => (Spec => MissedAreLast)
  <1> SUFFICES ASSUME Alone, CanExit = FALSE PROVE Spec => MissedAreLast
    OBVIOUS
  <1>1. WalkInv /\ RecordsInv /\ [Next]_vars =>
          [~is_done => \A p \in missed' \ missed :
             /\ \E u \in Threads : pc[u] = "count"
             /\ \A s \in known : SiteMap!Has(sites[s], p) =>
                  \A r \in known : slot[r] <= slot[s]]_vars
    <2> SUFFICES ASSUME SitesInv, Records, SitesPlaced, \A t \in Threads : WalkOK(t), Next,
                        NEW p \in missed' \ missed
                 PROVE  /\ \E u \in Threads : pc[u] = "count"
                        /\ \A s \in known : SiteMap!Has(sites[s], p) =>
                             \A r \in known : slot[r] <= slot[s]
      BY DEF WalkInv, RecordsInv, is_done
    <2>1. PICK t \in Threads : Walk(t)
      BY DEF Next, Program, Hook, PeriodElapses, malloc, mmap, free, munmap, Exit, PostCheck, TryBk,
             PostEnter, Update, Record, Count, UnlockStray, Schedule, Begin, Run, End, Clear,
             UnlockSuite, PreCheck, LockBk, PreEnter, LockHooks, LockSuite, RemoveRecord,
             UnlockHooks, UnlockBk, Release, history
    <2>2. p = call[t].ptr /\ WalkOver(t) /\ contains(p)
      BY <2>1 DEF Walk
    <2>3. p \in Ptrs
      BY <2>1, <2>2 DEF Walk, SitesInv, KindsOK, FreeLabels
    <2>4. \A s \in known : SiteMap!Has(sites[s], p) <=> Held(s, p)
      BY <2>3, ContainsHeld
    <2>5. \A s \in known : Held(s, p) => Counting /\ \A r \in known : slot[r] <= slot[s]
      BY <2>1, <2>2, MissIsLast
    <2> QED BY <2>2, <2>4, <2>5 DEF contains, Counting
  <1>2. Spec => []WalkInv
    BY WalksInductive
  <1> QED BY <1>1, <1>2, RecordsInductive, PTL DEF Spec, MissedAreLast

(***************************************************************************)
(* Proof that the hooks and the suite, with their threads and locks,       *)
(* implement SuiteEvents: every step is one event for the tests, or none.  *)
(* Every pointer has a slot of its own and none is mmapped (HooksCollide   *)
(* shows what a shared slot breaks), the program does not exit (its last   *)
(* interval takes no lock) and no test quits (a report that was announced  *)
(* does not come).  It is so until a free is missed: its record stays      *)
(* without an event, as MissesAreLast says.                                *)
(***************************************************************************)

\* The programs the proof is about.
Steady == Alone /\ CanExit = FALSE /\ CanQuit = FALSE

AfterRecord == {"count", "schedule", "begin", "run", "end", "clear", "unlock_suite"}

\* A malloc's first report finds no record of its allocation; once that is
\* made, the second finds room.
ReportOK(t) ==
  call[t].kind = "malloc" =>
    /\ call[t].pass \in {1, 2}
    /\ pc[t] \in {"post_check", "try_bk", "post_enter"} => call[t].pass = 1
    /\ call[t].pass = 1 =>
         IF pc[t] \in AfterRecord
         THEN ~SiteMap!Full(SiteWith(call[t].site, call[t].ptr))
         ELSE \A s \in Sites : ~Held(s, call[t].ptr)

ReportsOK == ~is_quitting /\ \A t \in Threads : ReportOK(t)

\* What holds as long as no free has been missed.
EventsInv == SitesInv /\ Records /\ LockInv /\ ReportsOK /\ missed = {}

---------------------------------------------------------------------------
(* The mapped state                                                        *)

\* What the refinement mapping makes of the state, under a name each.
MappedAge ==
  [p \in HeapPtrs |-> IF p \in Tracked THEN CHOOSE a \in AgesOf(p) : TRUE ELSE -1]

MappedTold == [p \in HeapPtrs |-> announced[p]]

MappedPending ==
  IF \E t \in Threads : OwesReport(t)
  THEN call[CHOOSE t \in Threads : OwesReport(t)].ptr ELSE NoPtr

MappedRunning == \E t \in Threads : pc[t] \in {"run", "end"}

mapped == <<MappedAge, MappedTold, MappedPending, MappedRunning>>

\* SuiteEvents' actions over them.
LEMMA MappedStutters == UNCHANGED mapped => UNCHANGED Events!event_vars
  BY DEF mapped, MappedAge, MappedTold, MappedPending, MappedRunning, Events!event_vars

LEMMA MappedBegins ==
  /\ ~MappedRunning /\ MappedRunning'
  /\ UNCHANGED <<MappedAge, MappedTold, MappedPending>>
  => Events!begin
  BY DEF MappedAge, MappedTold, MappedPending, MappedRunning, Events!begin

LEMMA MappedEnds ==
  /\ MappedRunning /\ ~MappedRunning'
  /\ MappedAge' = [p \in HeapPtrs |-> IF MappedAge[p] # -1 THEN Least(MappedAge[p] + 1, MaxAge)
                                                           ELSE -1]
  /\ UNCHANGED <<MappedTold, MappedPending>>
  => Events!end
  BY DEF MappedAge, MappedTold, MappedPending, MappedRunning, Events!end, Events!Recorded,
         Events!Gone, Events!Saturated, Least

LEMMA MappedReports ==
  ASSUME NEW p \in HeapPtrs, ~MappedRunning, ~MappedRunning',
         MappedTold' = [MappedTold EXCEPT ![p] = Least(@ + 1, MaxCalls)],
         \/ MappedAge' = [MappedAge EXCEPT ![p] = 0]
         \/ MappedAge[p] = -1 /\ MappedAge' = MappedAge
  PROVE  Events!report(p)
  BY DEF MappedAge, MappedTold, MappedRunning, Events!report, Events!Gone, Events!Saturated, Least

LEMMA MappedAnnounces ==
  ASSUME NEW p \in HeapPtrs, Events!report(p), MappedPending = NoPtr, MappedPending' = p,
         MappedAge[p] = -1
  PROVE  Events!announce(p)
  BY DEF MappedAge, MappedPending, Events!announce, Events!Gone

LEMMA MappedAnnouncesAgain ==
  ASSUME NEW p \in HeapPtrs, Events!report(p), MappedPending = p, MappedPending' = NoPtr
  PROVE  Events!announce_again
  <1>1. p # NoPtr
    BY PtrsAssumption DEF Ptrs
  <1> QED BY <1>1 DEF MappedPending, Events!announce_again, Events!report

LEMMA MappedRetracts ==
  ASSUME NEW p \in HeapPtrs, ~MappedRunning, ~MappedRunning', MappedPending = NoPtr,
         MappedPending' = NoPtr, MappedAge[p] # -1,
         MappedAge' = [MappedAge EXCEPT ![p] = -1],
         MappedTold' = [MappedTold EXCEPT ![p] = 0]
  PROVE  Events!retract(p)
  BY DEF MappedAge, MappedTold, MappedPending, MappedRunning, Events!retract, Events!Gone

---------------------------------------------------------------------------
(* What the mapped state says                                              *)

\* The age of a record is what its slot has.
AgesMapped ==
  \A p \in Ptrs :
    /\ \A s \in Sites : Held(s, p) => MappedAge[p] = Age(s, p)
    /\ (\A s \in Sites : ~Held(s, p)) => MappedAge[p] = -1
    /\ \A s \in Sites : Age(s, p) \in 0 .. MaxAge

LEMMA AgesAreMapped == Alone /\ SitesInv /\ Records /\ missed = {} => AgesMapped
  <1> SUFFICES ASSUME Alone, SitesInv, Records, missed = {}, NEW p \in Ptrs
               PROVE  /\ \A s \in Sites : Held(s, p) => MappedAge[p] = Age(s, p)
                      /\ (\A s \in Sites : ~Held(s, p)) => MappedAge[p] = -1
                      /\ \A s \in Sites : Age(s, p) \in 0 .. MaxAge
    BY DEF AgesMapped
  <1>1. HeapPtrs = Ptrs
    BY DEF Alone, Ptrs
  <1>2. ASSUME NEW s \in Sites
        PROVE  PtrHash[p] \in SiteMap!Slots /\ Age(s, p) \in 0 .. MaxAge
    BY SiteConstants DEF Age, SitesInv, DataOK, SiteMap!MapType, SiteMap!Slots
  <1>3. ASSUME NEW s \in Sites, Held(s, p)
        PROVE  MappedAge[p] = Age(s, p)
    <2>1. p \in Tracked
      BY <1>3, TrackedHeld
    <2>2. Age(s, p) \in AgesOf(p)
      BY <1>2, <1>3 DEF AgesOf, Held, Age
    <2>3. \A a \in AgesOf(p) : a = Age(s, p)
      BY <1>3, TrackedHeld DEF Records, RecordsTrue
    <2>4. (CHOOSE a \in AgesOf(p) : TRUE) \in AgesOf(p)
      BY <2>2
    <2> QED BY <1>1, <2>1, <2>3, <2>4 DEF MappedAge
  <1>4. (\A s \in Sites : ~Held(s, p)) => MappedAge[p] = -1
    BY <1>1, TrackedHeld DEF MappedAge
  <1> QED BY <1>2, <1>3, <1>4

LEMMA AgesAreMappedNext == Alone /\ SitesInv' /\ Records' /\ (missed = {})' => AgesMapped'
  <1>1. Alone => Alone'
    BY DEF Alone, Ptrs
  <1> QED BY <1>1, AgesAreMapped, PTL

LEMMA MappedAgeFunction ==
  /\ MappedAge = [p \in HeapPtrs |-> MappedAge[p]]
  /\ MappedAge' = [p \in HeapPtrs |-> MappedAge'[p]]
  BY DEF MappedAge

\* At most one thread owes a report: it has bk_lock.
PendingMapped == \A t \in Threads : OwesReport(t) => MappedPending = call[t].ptr

LEMMA PendingIsMapped == LockInv => PendingMapped
  <1> SUFFICES ASSUME LockInv, NEW t \in Threads, OwesReport(t)
               PROVE  MappedPending = call[t].ptr
    BY DEF PendingMapped
  <1> DEFINE w == CHOOSE u \in Threads : OwesReport(u)
  <1>1. \A u \in Threads : OwesReport(u) => bk_lock = u
    BY DEF LockInv, LocksHeld, OwesReport, BkLabels, SuiteLabels
  <1>2. OwesReport(w) /\ w \in Threads
    OBVIOUS
  <1>3. w = t
    BY <1>1, <1>2
  <1> QED BY <1>3 DEF MappedPending

LEMMA PendingIsMappedNext == LockInv' => PendingMapped'
  BY PendingIsMapped, PTL

\* What becomes of the pending report at a step of thread t.
LEMMA PendingSteps ==
  ASSUME LockInv, LockInv', NEW t \in Threads,
         \A u \in Threads \ {t} : OwesReport(u)' <=> OwesReport(u),
         \A u \in Threads \ {t} : call'[u] = call[u]
  PROVE  /\ (OwesReport(t)' <=> OwesReport(t)) /\ (OwesReport(t) => call'[t].ptr = call[t].ptr)
              => MappedPending' = MappedPending
         /\ pc[t] \in BkLabels =>
              /\ MappedPending = IF OwesReport(t) THEN call[t].ptr ELSE NoPtr
              /\ MappedPending' = IF OwesReport(t)' THEN call'[t].ptr ELSE NoPtr
  <1>1. \A u, v \in Threads : OwesReport(u) /\ pc[v] \in BkLabels => u = v
    BY DEF LockInv, LocksHeld, OwesReport, BkLabels, SuiteLabels
  <1>2. (\A u \in Threads : ~OwesReport(u)) => MappedPending = NoPtr
    BY DEF MappedPending
  <1>3. (\A u \in Threads : ~OwesReport(u)') => MappedPending' = NoPtr
    BY DEF MappedPending
  <1> QED BY <1>1, <1>2, <1>3, PendingIsMapped, PendingIsMappedNext DEF PendingMapped

\* One thread runs an interval, and has both locks.
LEMMA RunningAlone ==
  ASSUME LockInv, NEW t \in Threads, pc[t] \in BkLabels
  PROVE  MappedRunning <=> pc[t] \in {"run", "end"}
  BY DEF LockInv, LocksHeld, MappedRunning, BkLabels, SuiteLabels

---------------------------------------------------------------------------
(* The map of a site                                                       *)

\* A put counts a new record, and no other.
LEMMA PutCounts ==
  ASSUME Alone, NEW m, SiteOK(m), Home(m), NEW p \in Ptrs
  PROVE  SiteMap!Put(m, p, 0).entries = IF m.key[PtrHash[p]] = p THEN m.entries ELSE m.entries + 1
  <1>1. m \in SiteMap!MapType /\ m.entries \in Nat /\ m.entries < SiteSize
    BY SiteExactType DEF SiteOK, SiteMap!MapType
  <1>2. ~SiteMap!Full(m)
    BY <1>1, SiteConstants DEF SiteMap!Full
  <1> QED BY <1>1, <1>2, HasIsHome DEF SiteMap!Put, SiteMap!Occupy, SiteMap!MapType

\* An interval visits every record, and ticks its age.
LEMMA TickedAges ==
  ASSUME NEW m, SiteOK(m), NEW p \in Ptrs, m.key[PtrHash[p]] = p
  PROVE  Ticked(m).value[PtrHash[p]] = Least(m.value[PtrHash[p]] + 1, MaxAge)
  <1>1. SiteLemmas!Visited(m) = SiteLemmas!Occupied(m)
    BY SiteConstants, SiteLemmas!VisitedIsOccupied DEF SiteOK
  <1>2. SiteMap!Visited(m) = SiteMap!Occupied(m)
    BY <1>1
    DEF SiteMap!Visited, SiteMap!Occupied, SiteMap!Slots, SiteMap!Cardinality,
        SiteLemmas!Visited, SiteLemmas!Occupied, SiteLemmas!Slots, SiteLemmas!Cardinality
  <1>3. PtrHash[p] \in SiteMap!Slots /\ PtrHash[p] \in SiteMap!Occupied(m)
    BY SiteConstants DEF SiteMap!Slots, SiteMap!Occupied
  <1>4. m \in SiteMap!MapType
    BY SiteExactType DEF SiteOK
  <1> QED BY <1>2, <1>3, <1>4 DEF Ticked, SiteMap!MapType

---------------------------------------------------------------------------
(* The steps that are no event                                             *)

\* What a step keeps of a thread whose call goes on.
LEMMA SameCall ==
  ASSUME UNCHANGED <<known, sites>>, NEW t \in Threads, call'[t].kind = call[t].kind,
         call'[t].ptr = call[t].ptr, call'[t].site = call[t].site
  PROVE  /\ SiteMap!Full(SiteWith(call[t].site, call[t].ptr))'
              <=> SiteMap!Full(SiteWith(call[t].site, call[t].ptr))
         /\ \A s \in Sites : Held(s, call[t].ptr)' <=> Held(s, call[t].ptr)
  BY DEF SiteWith, SiteCopy, Held

LEMMA OtherCalls ==
  ASSUME UNCHANGED <<known, sites>>, NEW u \in Threads, pc'[u] = pc[u], call'[u] = call[u]
  PROVE  (ReportOK(u)' <=> ReportOK(u)) /\ (OwesReport(u)' <=> OwesReport(u))
  BY SameCall DEF ReportOK, OwesReport

\* A thread in update() is alone with the suite: it is not turned away.
LEMMA UpdateEnters ==
  ASSUME LockInv, ~is_quitting, NEW t \in Threads, pc[t] = "update"
  PROVE  can_update /\ Unlocked(hook_lock)
  <1>1. \A u \in Threads : pc[u] \notin SuiteLabels
    BY DEF LockInv, LocksHeld, BkLabels, SuiteLabels
  <1>2. hook_lock = NoThread
    BY <1>1 DEF LockInv, ControlOK, LocksHeld
  <1>3. ~is_in_interval /\ ~IS_PROTECTED
    BY <1>1 DEF LockInv, ControlOK, FlagsFollowInterval, InInterval, SuiteLabels
  <1> QED BY <1>2, <1>3 DEF can_update, is_done, Unlocked

\* What such a step of t does.
Unheard(t) ==
  /\ \A u \in Threads \ {t} : pc'[u] = pc[u] /\ call'[u] = call[u]
  /\ UNCHANGED <<known, sites, announced, is_quitting>>
  /\ ReportOK(t)'
  /\ OwesReport(t)' <=> OwesReport(t)
  /\ OwesReport(t) => call'[t].ptr = call[t].ptr
  /\ pc'[t] \in {"run", "end"} <=> pc[t] \in {"run", "end"}

LEMMA UnheardKeeps ==
  ASSUME EventsInv, LockInv', NEW t \in Threads, Unheard(t)
  PROVE  ReportsOK' /\ UNCHANGED mapped
  <1>1. \A u \in Threads \ {t} : /\ ReportOK(u)'
                                 /\ OwesReport(u)' <=> OwesReport(u)
    BY OtherCalls DEF Unheard, EventsInv, ReportsOK
  <1>2. ReportsOK'
    BY <1>1 DEF Unheard, EventsInv, ReportsOK
  <1>3. MappedPending' = MappedPending
    BY <1>1, PendingSteps DEF Unheard, EventsInv
  <1>4. MappedAge' = MappedAge /\ MappedTold' = MappedTold
    BY DEF Unheard, MappedAge, MappedTold, Tracked, AgesOf
  <1>5. MappedRunning' = MappedRunning
    BY DEF Unheard, MappedRunning
  <1> QED BY <1>2, <1>3, <1>4, <1>5 DEF mapped

\* A hook's steps, but those that record, remove, or begin or end an
\* interval.
LEMMA UnheardHook ==
  ASSUME Steady, EventsInv, NEW t \in Threads, Hook(t),
         ~Record(t), ~RemoveRecord(t), ~Begin(t), ~End(t)
  PROVE  Unheard(t)
  <1> DEFINE full == SiteMap!Full(SiteWith(call[t].site, call[t].ptr))
             new == \A s \in Sites : ~Held(s, call[t].ptr)
             fullNext == SiteMap!Full(SiteWith(call[t].site, call[t].ptr))'
             newNext == (\A s \in Sites : ~Held(s, call[t].ptr))'
  <1>1. ControlOK /\ KindsOK /\ ReportOK(t) /\ ~is_quitting /\ NoExit
    BY DEF EventsInv, SitesInv, ReportsOK, LockInv
  <1>2. ASSUME UNCHANGED <<known, sites, announced, is_quitting>>,
               pc' = [pc EXCEPT ![t] = pc'[t]], call' = [call EXCEPT ![t] = call'[t]],
               \/ call'[t].kind = "none"
               \/ /\ call'[t].kind = call[t].kind
                  /\ call'[t].ptr = call[t].ptr /\ call'[t].site = call[t].site,
               call'[t].kind = "malloc" =>
                 /\ call'[t].pass \in {1, 2}
                 /\ pc'[t] \in {"post_check", "try_bk", "post_enter"} => call'[t].pass = 1
                 /\ call'[t].pass = 1 => IF pc'[t] \in AfterRecord THEN ~full ELSE new,
               /\ call'[t].kind = "malloc"
               /\ \/ call'[t].pass = 1 /\ pc'[t] \in AfterRecord
                  \/ call'[t].pass = 2 /\ pc'[t] \in {"update", "record"} /\ ~full
               <=> OwesReport(t),
               pc'[t] \in {"run", "end"} <=> pc[t] \in {"run", "end"}
        PROVE  Unheard(t)
    <2>1. \A u \in Threads \ {t} : pc'[u] = pc[u] /\ call'[u] = call[u]
      BY <1>1, <1>2 DEF ControlOK
    <2>2. CASE call'[t].kind = "none"
      BY <1>2, <2>1, <2>2 DEF Unheard, ReportOK, OwesReport
    <2>3. CASE call'[t].kind # "none"
      <3>1. (fullNext <=> full) /\ (newNext <=> new)
        BY <1>2, <2>3, SameCall
      <3>2. ReportOK(t)'
        BY <1>2, <3>1 DEF ReportOK
      <3>3. OwesReport(t)' <=> OwesReport(t)
        BY <1>2, <3>1 DEF OwesReport, AfterRecord
      <3> QED BY <1>2, <2>1, <2>3, <3>2, <3>3 DEF Unheard
    <2> QED BY <2>2, <2>3
  <1>3. call[t].kind = "malloc" =>
          /\ call[t].pass \in {1, 2}
          /\ pc[t] \in {"post_check", "try_bk", "post_enter"} => call[t].pass = 1
          /\ call[t].pass = 1 => IF pc[t] \in AfterRecord THEN ~full ELSE new
    BY <1>1 DEF ReportOK
  <1>4. OwesReport(t) <=>
          /\ call[t].kind = "malloc"
          /\ \/ call[t].pass = 1 /\ pc[t] \in AfterRecord
             \/ call[t].pass = 2 /\ pc[t] \in {"update", "record"} /\ ~full
    BY DEF OwesReport, AfterRecord
  <1> HIDE DEF full, new
  <1>5. call[t].kind \in Allocating => call[t].kind = "malloc"
    BY <1>1, PtrsAssumption DEF Allocating, EventsInv, Records, CallsOwn, KindsOK
  <1> USE DEF ControlOK, KindsOK, Calls, AllocLabels, FreeLabels, Allocating, Freeing, AfterRecord,
              Goto, tracker, history, flags, locks
  <1>6. CASE PostCheck(t)
    BY <1>1, <1>2, <1>3, <1>4, <1>5, <1>6 DEF PostCheck, Return, NoCall
  <1>7. CASE TryBk(t)
    BY <1>1, <1>2, <1>3, <1>4, <1>5, <1>7 DEF TryBk, Return, NoCall
  <1>8. CASE PostEnter(t)
    BY <1>1, <1>2, <1>3, <1>4, <1>5, <1>8 DEF PostEnter
  <1>9. CASE Update(t)
    <2>1. can_update /\ Unlocked(hook_lock)
      BY <1>1, <1>9, UpdateEnters DEF Update, EventsInv
    <2> QED BY <1>1, <1>2, <1>3, <1>4, <1>5, <1>9, <2>1 DEF Update
  <1>10. CASE UnlockStray(t)
    BY <1>1, <1>2, <1>3, <1>4, <1>5, <1>10 DEF UnlockStray
  <1>11. CASE Schedule(t)
    BY <1>1, <1>2, <1>3, <1>4, <1>5, <1>11 DEF Schedule, LeaveSchedule, LeaveUpdate
  <1>12. CASE Run(t)
    <2>1. is_quitting = FALSE /\ CanQuit = FALSE
      BY DEF Steady, EventsInv, SitesInv, DataOK, ReportsOK
    <2>2. is_quitting' = is_quitting
      BY <1>12, <2>1 DEF Run
    <2> QED BY <1>1, <1>2, <1>3, <1>4, <1>5, <1>12, <2>2 DEF Run
  <1>13. CASE Clear(t)
    BY <1>1, <1>2, <1>3, <1>4, <1>5, <1>13 DEF Clear, NoExit
  <1>14. CASE UnlockSuite(t)
    BY <1>1, <1>2, <1>3, <1>4, <1>5, <1>14 DEF UnlockSuite, LeaveSchedule, LeaveUpdate
  <1>15. CASE PreCheck(t)
    BY <1>1, <1>2, <1>3, <1>4, <1>15 DEF PreCheck
  <1>16. CASE LockBk(t)
    BY <1>1, <1>2, <1>3, <1>4, <1>16 DEF LockBk
  <1>17. CASE PreEnter(t)
    BY <1>1, <1>2, <1>3, <1>4, <1>17 DEF PreEnter
  <1>18. CASE LockHooks(t)
    BY <1>1, <1>2, <1>3, <1>4, <1>18 DEF LockHooks
  <1>19. CASE LockSuite(t)
    BY <1>1, <1>2, <1>3, <1>4, <1>19 DEF LockSuite
  <1>20. CASE UnlockHooks(t)
    BY <1>1, <1>2, <1>3, <1>4, <1>20 DEF UnlockHooks
  <1>21. CASE UnlockBk(t)
    BY <1>1, <1>2, <1>3, <1>4, <1>5, <1>21 DEF UnlockBk, Return, NoCall
  <1>22. CASE Release(t)
    BY <1>1, <1>2, <1>3, <1>4, <1>22 DEF Release, Return, NoCall
  <1>23. CASE Count(t)
    BY <1>1, <1>2, <1>3, <1>4, <1>5, <1>23 DEF Count
  <1>24. CASE Walk(t)
    <2>1. \/ /\ pc' = [pc EXCEPT ![t] = pc'[t]] /\ pc'[t] \in {"release", "lock_bk"}
          \/ UNCHANGED pc
      BY <1>1, <1>24 DEF Walk
    <2>2. /\ call' = [call EXCEPT ![t] = call'[t]]
          /\ call'[t].kind = call[t].kind /\ call'[t].ptr = call[t].ptr
          /\ call'[t].site = call[t].site /\ call[t].kind # "malloc"
      BY <1>1, <1>24 DEF Walk
    <2> QED BY <1>1, <1>2, <1>3, <1>4, <1>24, <2>1, <2>2 DEF Walk
  <1> QED
    BY <1>6, <1>7, <1>8, <1>9, <1>10, <1>11, <1>12, <1>13, <1>14, <1>15, <1>16, <1>17, <1>18, <1>19,
       <1>20, <1>21, <1>22, <1>23, <1>24 DEF Hook

\* The program's own steps.  Memory that malloc hands out has no record.
LEMMA UnheardProgram ==
  ASSUME Steady, EventsInv, NEW t \in Threads, Program(t)
  PROVE  Unheard(t)
  <1> USE DEF Enter, Goto, locks, flags, tracker, history
  <1>1. ControlOK /\ HeapPtrs = Ptrs
    BY DEF EventsInv, SitesInv, Steady, Alone, Ptrs
  <1>2. CASE malloc(t)
    <2>1. PICK p \in HeapPtrs, s \in Sites :
            /\ ~mem[p] /\ Enter(t, "malloc", p, s, "post_check")
            /\ UNCHANGED <<known, sites, announced, is_quitting>>
      BY <1>2 DEF malloc
    <2>2. \A r \in Sites : ~Held(r, p)'
      BY <1>1, <2>1 DEF EventsInv, Records, RecordsTrue, Held
    <2>3. ReportOK(t)' /\ ~OwesReport(t)' /\ ~OwesReport(t)
      BY <1>1, <2>1, <2>2 DEF ReportOK, OwesReport, ControlOK, AfterRecord
    <2> QED BY <1>1, <2>1, <2>3 DEF Unheard, ControlOK
  <1>3. CASE free(t)
    <2>1. PICK p \in HeapPtrs :
            /\ Enter(t, "free", p, NoPtr, "pre_check")
            /\ UNCHANGED <<known, sites, announced, is_quitting>>
      BY <1>3 DEF free
    <2>2. ReportOK(t)' /\ ~OwesReport(t)' /\ ~OwesReport(t)
      BY <1>1, <2>1 DEF ReportOK, OwesReport, ControlOK
    <2> QED BY <1>1, <2>1, <2>2 DEF Unheard, ControlOK
  <1>4. CASE mmap(t) \/ munmap(t) \/ Exit(t)
    BY <1>4 DEF mmap, munmap, Exit, Steady, Alone
  <1> QED BY <1>2, <1>3, <1>4 DEF Program

---------------------------------------------------------------------------
(* The steps that are events                                               *)

\* Of the other threads, none has got past bk_lock: none owes a report.
LEMMA HolderAlone ==
  ASSUME LockInv, NEW t \in Threads, pc[t] \in BkLabels, NEW u \in Threads \ {t}
  PROVE  /\ ~OwesReport(u) /\ pc[u] \notin AfterRecord
         /\ pc'[u] = pc[u] => ~OwesReport(u)'
  <1>1. pc[u] \notin BkLabels
    BY DEF LockInv, LocksHeld
  <1> QED BY <1>1 DEF OwesReport, AfterRecord, BkLabels, SuiteLabels

\* An interval begins.
LEMMA BeginIsEvent ==
  ASSUME EventsInv, LockInv', NEW t \in Threads, Begin(t)
  PROVE  ReportsOK' /\ Events!begin
  <1>1. /\ ControlOK /\ LockInv /\ ~is_quitting /\ \A u \in Threads : ReportOK(u)
        /\ pc[t] = "begin" /\ pc' = [pc EXCEPT ![t] = "run"]
        /\ UNCHANGED <<call, known, sites, announced, is_quitting>>
    BY DEF EventsInv, ReportsOK, LockInv, Begin, Goto, tracker, history
  <1>2. pc'[t] = "run" /\ \A u \in Threads \ {t} : pc'[u] = pc[u]
    BY <1>1 DEF ControlOK
  <1>3. \A u \in Threads \ {t} : ReportOK(u)' /\ (OwesReport(u)' <=> OwesReport(u))
    BY <1>1, <1>2, OtherCalls
  <1>4. ReportOK(t)' /\ (OwesReport(t)' <=> OwesReport(t))
    BY <1>1, <1>2, SameCall DEF ReportOK, OwesReport, AfterRecord
  <1>5. MappedPending' = MappedPending
    BY <1>1, <1>3, <1>4, PendingSteps
  <1>6. MappedAge' = MappedAge /\ MappedTold' = MappedTold
    BY <1>1 DEF MappedAge, MappedTold, Tracked, AgesOf
  <1>7. ~MappedRunning /\ MappedRunning'
    BY <1>1, <1>2, RunningAlone DEF MappedRunning, BkLabels, SuiteLabels
  <1>8. ReportsOK'
    BY <1>1, <1>3, <1>4 DEF ReportsOK
  <1> QED BY <1>5, <1>6, <1>7, <1>8, MappedBegins

\* An interval ends, and every record is one older.
LEMMA EndIsEvent ==
  ASSUME Steady, EventsInv, SitesInv', Records', (missed = {})', LockInv', NEW t \in Threads, End(t)
  PROVE  ReportsOK' /\ Events!end
  <1>1. /\ ControlOK /\ KindsOK /\ DataOK /\ LockInv /\ ~is_quitting
        /\ \A u \in Threads : ReportOK(u)
        /\ pc[t] = "end" /\ pc' = [pc EXCEPT ![t] = "clear"]
        /\ UNCHANGED <<call, known, announced, is_quitting>>
        /\ sites' = [s \in Sites |-> IF s \in known THEN Ticked(sites[s]) ELSE sites[s]]
    BY DEF EventsInv, SitesInv, ReportsOK, LockInv, End, Goto
  <1>2. pc'[t] = "clear" /\ \A u \in Threads \ {t} : pc'[u] = pc[u]
    BY <1>1 DEF ControlOK
  <1>3. \A s \in Sites : /\ sites'[s].key = sites[s].key
                         /\ sites'[s].entries = sites[s].entries
    BY <1>1 DEF Ticked, DataOK, SiteMap!MapType
  <1>4. \A s \in Sites, p \in Ptrs : Held(s, p)' <=> Held(s, p)
    BY <1>1, <1>3 DEF Held
  <1>5. \A u \in Threads : call[u].kind = "malloc" => call[u].ptr \in Ptrs /\ call[u].site \in Sites
    BY <1>1 DEF KindsOK, Allocating
  <1>6. \A u \in Threads \ {t} : ReportOK(u)'
    BY <1>1, <1>2, <1>4, <1>5, HolderAlone DEF ReportOK, BkLabels, SuiteLabels
  <1>7. ReportOK(t)'
    <2> SUFFICES ASSUME call[t].kind = "malloc", call[t].pass = 1
                 PROVE  ~SiteMap!Full(SiteWith(call[t].site, call[t].ptr))'
      BY <1>1, <1>2 DEF ReportOK, AfterRecord
    <2> DEFINE s == call[t].site
               p == call[t].ptr
               c == SiteCopy(s)
               d == SiteCopy(s)'
    <2>1. s \in Sites /\ p \in Ptrs
      BY <1>5
    <2>2. ~SiteMap!Full(SiteMap!Put(c, p, 0))
      BY <1>1 DEF ReportOK, AfterRecord, SiteWith
    <2>3. d.key = c.key /\ d.entries = c.entries
      BY <1>1, <1>3, <2>1 DEF SiteCopy
    <2>4. SiteOK(c) /\ Home(c)
      BY <2>1, CopyIsHome DEF EventsInv
    <2>5. SiteOK(d) /\ Home(d)
      <3>1. CASE s \in known
        <4>1. d = sites'[s]
          BY <1>1, <3>1 DEF SiteCopy
        <4> QED BY <2>1, <4>1 DEF SitesInv, DataOK, Records
      <3>2. CASE s \notin known
        <4>1. d = c
          BY <1>1, <3>2 DEF SiteCopy
        <4> QED BY <2>4, <4>1
      <3> QED BY <3>1, <3>2
    <2>6. SiteMap!Put(d, p, 0).entries = SiteMap!Put(c, p, 0).entries
      <3> HIDE DEF c, d
      <3> QED BY <2>1, <2>3, <2>4, <2>5, PutCounts DEF Steady
    <2>7. SiteWith(call[t].site, call[t].ptr)' = SiteMap!Put(d, p, 0)
      BY <1>1 DEF SiteWith
    <2> QED BY <2>2, <2>6, <2>7 DEF SiteMap!Full
  <1>8. MappedAge' = [p \in HeapPtrs |-> IF MappedAge[p] # -1 THEN Least(MappedAge[p] + 1, MaxAge)
                                                              ELSE -1]
    <2>1. ASSUME NEW p \in HeapPtrs
          PROVE  MappedAge'[p] = IF MappedAge[p] # -1 THEN Least(MappedAge[p] + 1, MaxAge) ELSE -1
      <3>1. p \in Ptrs
        BY DEF Ptrs
      <3>2. AgesMapped /\ AgesMapped'
        BY AgesAreMapped, AgesAreMappedNext DEF EventsInv, Steady
      <3>3. CASE \A s \in Sites : ~Held(s, p)
        BY <1>4, <3>1, <3>2, <3>3 DEF AgesMapped
      <3>4. ASSUME NEW s \in Sites, Held(s, p)
            PROVE  MappedAge'[p] = Least(MappedAge[p] + 1, MaxAge) /\ MappedAge[p] # -1
        <4>1. sites'[s].value[PtrHash[p]] = Least(sites[s].value[PtrHash[p]] + 1, MaxAge)
          BY <1>1, <3>1, <3>4, TickedAges DEF DataOK, Held
        <4> QED BY <1>4, <3>1, <3>2, <3>4, <4>1 DEF AgesMapped, Age
      <3> QED BY <3>3, <3>4
    <2> QED BY <2>1 DEF MappedAge
  <1>9. MappedPending' = MappedPending
    <2>1. \A u \in Threads \ {t} : OwesReport(u)' <=> OwesReport(u)
      BY <1>1, <1>2, HolderAlone DEF BkLabels, SuiteLabels
    <2>2. OwesReport(t)' <=> OwesReport(t)
      BY <1>1, <1>2 DEF OwesReport
    <2> QED BY <1>1, <2>1, <2>2, PendingSteps
  <1>10. MappedTold' = MappedTold
    BY <1>1 DEF MappedTold
  <1>11. MappedRunning /\ ~MappedRunning'
    BY <1>1, <1>2, HolderAlone DEF MappedRunning, BkLabels, SuiteLabels, AfterRecord
  <1>12. ReportsOK'
    BY <1>1, <1>6, <1>7 DEF ReportsOK
  <1> QED BY <1>8, <1>9, <1>10, <1>11, <1>12, MappedEnds

\* A free that finds the record retracts it.
LEMMA RemoveIsEvent ==
  ASSUME Steady, EventsInv, SitesInv', Records', (missed = {})', LockInv', NEW t \in Threads, RemoveRecord(t)
  PROVE  ReportsOK' /\ (UNCHANGED mapped \/ \E p \in HeapPtrs : Events!retract(p))
  <1>1. /\ ControlOK /\ KindsOK /\ DataOK /\ LockInv /\ is_quitting = FALSE
        /\ \A u \in Threads : ReportOK(u)
        /\ pc[t] = "remove" /\ pc' = [pc EXCEPT ![t] = "unlock_hooks"]
        /\ UNCHANGED <<call, known, is_quitting>>
    BY DEF EventsInv, SitesInv, DataOK, ReportsOK, LockInv, RemoveRecord, Goto
  <1>2. pc'[t] = "unlock_hooks" /\ \A u \in Threads \ {t} : pc'[u] = pc[u]
    BY <1>1 DEF ControlOK
  <1>3. call[t].ptr \in HeapPtrs /\ HeapPtrs = Ptrs /\ call[t].kind = "free"
    BY <1>1 DEF KindsOK, FreeLabels, Freeing, EventsInv, Records, CallsOwn, Steady, Alone, Ptrs
  <1> SUFFICES ASSUME NEW p \in HeapPtrs, p = call[t].ptr
               PROVE  ReportsOK' /\ (UNCHANGED mapped \/ \E q \in HeapPtrs : Events!retract(q))
    BY <1>3
  <1>4. ~OwesReport(t) /\ ~OwesReport(t)' /\ ReportOK(t)'
    BY <1>1, <1>3 DEF OwesReport, ReportOK
  <1>5. \A s \in known : SiteMap!Has(sites[s], p) <=> Held(s, p)
    BY <1>3, ContainsHeld DEF EventsInv, Steady
  <1>6. CASE \A s \in known : ~Held(s, p)
    <2>1. UNCHANGED <<sites, announced>>
      BY <1>5, <1>6 DEF RemoveRecord
    <2>2. Unheard(t)
      BY <1>1, <1>2, <1>4, <2>1 DEF Unheard
    <2> QED BY <2>2, UnheardKeeps
  <1>7. CASE \E s \in known : Held(s, p)
    <2>1. PICK s \in known : /\ SiteMap!Has(sites[s], p)
                             /\ sites' = [sites EXCEPT ![s] = SiteMap!RemoveMap(@, p)]
                             /\ announced' = [announced EXCEPT ![p] = 0]
      BY <1>1, <1>5, <1>7 DEF RemoveRecord
    <2>2. Held(s, p) /\ s \in Sites
      BY <1>1, <1>5, <2>1 DEF DataOK
    <2>3. /\ \A r \in Sites, q \in Ptrs : q # p => (Held(r, q)' <=> Held(r, q))
          /\ \A r \in Sites : ~Held(r, p)'
          /\ \A r \in Sites : sites'[r].value = sites[r].value
      BY <1>1, <1>3, <2>1, <2>2, RemoveHeld DEF EventsInv, Steady
    <2>4. \A u \in Threads \ {t} : ReportOK(u)'
      <3>1. \A u \in Threads : call[u].kind = "malloc" => call[u].ptr \in Ptrs
        BY <1>1 DEF KindsOK, Allocating
      <3> QED BY <1>1, <1>2, <2>3, <3>1, HolderAlone DEF ReportOK, BkLabels, SuiteLabels
    <2>5. ReportsOK'
      BY <1>1, <1>4, <2>4 DEF ReportsOK
    <2>6. ~MappedRunning /\ ~MappedRunning'
      BY <1>1, <1>2, HolderAlone DEF MappedRunning, BkLabels, SuiteLabels, AfterRecord
    <2>7. MappedPending = NoPtr /\ MappedPending' = NoPtr
      <3>1. \A u \in Threads \ {t} : OwesReport(u)' <=> OwesReport(u)
        BY <1>1, <1>2, HolderAlone DEF BkLabels, SuiteLabels
      <3> QED BY <1>1, <1>4, <3>1, PendingSteps DEF BkLabels, SuiteLabels
    <2>8. MappedTold' = [MappedTold EXCEPT ![p] = 0]
      BY <1>1, <1>3, <2>1 DEF MappedTold, DataOK
    <2>9. AgesMapped /\ AgesMapped'
      BY AgesAreMapped, AgesAreMappedNext DEF EventsInv, Steady
    <2>10. MappedAge[p] # -1
      BY <1>3, <2>2, <2>9 DEF AgesMapped
    <2>11. MappedAge' = [MappedAge EXCEPT ![p] = -1]
      <3>1. ASSUME NEW q \in HeapPtrs
            PROVE  MappedAge'[q] = IF q = p THEN -1 ELSE MappedAge[q]
        <4>1. CASE q = p
          BY <1>3, <2>3, <2>9, <4>1 DEF AgesMapped
        <4>2. CASE q # p /\ \E r \in Sites : Held(r, q)
          BY <1>3, <2>3, <2>9, <4>2 DEF AgesMapped, Age
        <4>3. CASE q # p /\ \A r \in Sites : ~Held(r, q)
          BY <1>3, <2>3, <2>9, <4>3 DEF AgesMapped
        <4> QED BY <4>1, <4>2, <4>3
      <3> QED BY <3>1, MappedAgeFunction
    <2> QED BY <1>3, <2>5, <2>6, <2>7, <2>8, <2>10, <2>11, MappedRetracts
  <1> QED BY <1>6, <1>7

\* A record that is made has age 0, and leaves room to make it again.
LEMMA RecordedAge ==
  ASSUME Steady, EventsInv, SitesInv', Records', (missed = {})', NEW s \in Sites, NEW p \in HeapPtrs,
         known' = known \cup {s}, sites' = [sites EXCEPT ![s] = SiteWith(s, p)]
  PROVE  /\ \A r \in Sites, q \in Ptrs : q # p => (Held(r, q)' <=> Held(r, q))
         /\ MappedAge' = [MappedAge EXCEPT ![p] = 0]
         /\ ~SiteMap!Full(SiteMap!Put(sites'[s], p, 0))
  <1>1. Alone /\ SitesInv /\ Records /\ missed = {} /\ HeapPtrs = Ptrs
    BY DEF EventsInv, Steady, Alone, Ptrs
  <1>2. /\ \A r \in Sites, q \in Ptrs : Held(r, q)' <=> Held(r, q) \/ (r = s /\ q = p)
        /\ \A r \in Sites, q \in Ptrs : Held(r, q)' =>
             Age(r, q)' = IF r = s /\ q = p THEN 0 ELSE Age(r, q)
    BY <1>1, RecordHeld
  <1>3. AgesMapped /\ AgesMapped'
    BY <1>1, AgesAreMapped, AgesAreMappedNext
  <1>4. ASSUME NEW q \in HeapPtrs
        PROVE  MappedAge'[q] = IF q = p THEN 0 ELSE MappedAge[q]
    <2>1. CASE q = p
      BY <1>1, <1>2, <1>3, <2>1 DEF AgesMapped
    <2>2. CASE q # p /\ \E r \in Sites : Held(r, q)
      BY <1>1, <1>2, <1>3, <2>2 DEF AgesMapped
    <2>3. CASE q # p /\ \A r \in Sites : ~Held(r, q)
      BY <1>1, <1>2, <1>3, <2>3 DEF AgesMapped
    <2> QED BY <2>1, <2>2, <2>3
  <1>5. MappedAge' = [MappedAge EXCEPT ![p] = 0]
    BY <1>4, MappedAgeFunction
  <1>6. ~SiteMap!Full(SiteMap!Put(sites'[s], p, 0))
    <2> DEFINE m == sites'[s]
    <2>1. SiteOK(m) /\ Home(m) /\ m.key[PtrHash[p]] = p
      BY <1>1, <1>2 DEF SitesInv, DataOK, Records, Held
    <2>2. m \in SiteMap!MapType
      BY <2>1, SiteExactType DEF SiteOK
    <2> HIDE DEF m
    <2>3. SiteMap!Put(m, p, 0).entries = m.entries /\ m.entries \in Nat
      BY <1>1, <2>1, <2>2, PutCounts DEF SiteMap!MapType
    <2> QED BY <2>1, <2>3, SiteConstants DEF m, SiteMap!Full, SiteOK
  <1> QED BY <1>2, <1>5, <1>6

\* An allocation is announced, or announced again, with age 0, or dropped
\* unheard.
LEMMA RecordIsEvent ==
  ASSUME Steady, EventsInv, SitesInv', Records', (missed = {})', LockInv', NEW t \in Threads, Record(t)
  PROVE  ReportsOK' /\ \/ UNCHANGED mapped
                       \/ \E p \in HeapPtrs : Events!announce(p)
                       \/ Events!announce_again
  <1>1. /\ ControlOK /\ KindsOK /\ DataOK /\ LockInv /\ is_quitting = FALSE
        /\ \A u \in Threads : ReportOK(u)
        /\ pc[t] = "record" /\ is_quitting' = is_quitting
    BY DEF EventsInv, SitesInv, DataOK, ReportsOK, LockInv, Record
  <1>2. /\ call[t].ptr \in HeapPtrs /\ HeapPtrs = Ptrs /\ call[t].site \in Sites
        /\ call[t].kind = "malloc"
    BY <1>1, PtrsAssumption
    DEF KindsOK, AllocLabels, Allocating, EventsInv, Records, CallsOwn, Steady, Alone, Ptrs
  <1> SUFFICES ASSUME NEW p \in HeapPtrs, p = call[t].ptr, NEW s \in Sites, s = call[t].site
               PROVE  ReportsOK' /\ \/ UNCHANGED mapped
                                    \/ \E q \in HeapPtrs : Events!announce(q)
                                    \/ Events!announce_again
    BY <1>2
  <1> DEFINE room == s \in known \/ entries < MaxSites
  <1>3. call[t].pass \in {1, 2} /\ (call[t].pass = 1 => \A r \in Sites : ~Held(r, p))
    BY <1>1, <1>2 DEF ReportOK, AfterRecord
  <1>4. CASE SiteMap!Full(SiteWith(s, p))
    <2>1. LeaveUpdate(t) /\ UNCHANGED <<known, sites, announced>>
      BY <1>4 DEF Record
    <2>2. /\ call'[t].kind = "malloc" /\ call'[t].ptr = p /\ call'[t].site = s
          /\ call'[t].pass = 2
          /\ pc'[t] = IF call[t].pass = 1 THEN "update" ELSE "unlock_bk"
          /\ \A u \in Threads \ {t} : pc'[u] = pc[u] /\ call'[u] = call[u]
      BY <1>1, <1>2, <1>3, <2>1 DEF LeaveUpdate, Goto, ControlOK, Calls
    <2>3. SiteMap!Full(SiteWith(call[t].site, call[t].ptr))'
      BY <1>2, <1>4, <2>1, <2>2, SameCall
    <2>4. ReportOK(t)' /\ ~OwesReport(t)' /\ ~OwesReport(t)
      BY <1>1, <1>4, <2>2, <2>3 DEF ReportOK, OwesReport
    <2>5. Unheard(t)
      BY <1>1, <2>1, <2>2, <2>4 DEF Unheard
    <2> QED BY <2>5, UnheardKeeps
  <1>5. CASE ~SiteMap!Full(SiteWith(s, p))
    <2>1. /\ \E label \in {"count", "schedule"} : pc' = [pc EXCEPT ![t] = label]
          /\ call' = call
          /\ announced' = [announced EXCEPT ![p] = Least(@ + 1, MaxCalls)]
          /\ known' = IF room THEN known \cup {s} ELSE known
          /\ sites' = IF room THEN [sites EXCEPT ![s] = SiteWith(s, p)] ELSE sites
      BY <1>1, <1>5 DEF Record, PutSite, Goto, DataOK
    <2>2. pc'[t] \in {"count", "schedule"} /\ \A u \in Threads \ {t} : pc'[u] = pc[u]
      BY <1>1, <2>1 DEF ControlOK
    <2>3. AgesMapped /\ AgesMapped'
      BY AgesAreMapped, AgesAreMappedNext DEF EventsInv, Steady
    <2>4. /\ \A r \in Sites, q \in Ptrs : q # p => (Held(r, q)' <=> Held(r, q))
          /\ ~SiteMap!Full(SiteWith(call[t].site, call[t].ptr))'
          /\ \/ MappedAge' = [MappedAge EXCEPT ![p] = 0]
             \/ MappedAge[p] = -1 /\ MappedAge' = MappedAge
      <3>1. CASE room
        <4>1. known' = known \cup {s} /\ sites' = [sites EXCEPT ![s] = SiteWith(s, p)]
          BY <2>1, <3>1
        <4>2. /\ \A r \in Sites, q \in Ptrs : q # p => (Held(r, q)' <=> Held(r, q))
              /\ MappedAge' = [MappedAge EXCEPT ![p] = 0]
              /\ ~SiteMap!Full(SiteMap!Put(sites'[s], p, 0))
          BY <4>1, RecordedAge
        <4>3. SiteWith(call[t].site, call[t].ptr)' = SiteMap!Put(sites'[s], p, 0)
          BY <2>1, <4>1 DEF SiteWith, SiteCopy
        <4> QED BY <4>2, <4>3
      <3>2. CASE ~room
        <4>1. UNCHANGED <<known, sites>>
          BY <2>1, <3>2
        <4>2. \A r \in Sites : ~Held(r, p)
          BY <1>2, <3>2 DEF EventsInv, Records, CallsRecords, Held
        <4>3. MappedAge' = MappedAge
          BY <4>1 DEF MappedAge, Tracked, AgesOf
        <4>4. MappedAge[p] = -1
          BY <1>2, <2>3, <4>2 DEF AgesMapped
        <4> QED BY <1>5, <2>1, <4>1, <4>3, <4>4, SameCall DEF Held
      <3> QED BY <3>1, <3>2
    <2>5. MappedTold' = [MappedTold EXCEPT ![p] = Least(@ + 1, MaxCalls)]
      BY <1>1, <1>2, <2>1 DEF MappedTold, DataOK
    <2>6. ~MappedRunning /\ ~MappedRunning'
      BY <1>1, <2>2, HolderAlone DEF MappedRunning, BkLabels, SuiteLabels, AfterRecord
    <2>7. Events!report(p)
      BY <1>2, <2>4, <2>5, <2>6, MappedReports
    <2>8. ReportsOK'
      <3>1. ReportOK(t)'
        BY <1>2, <1>3, <2>1, <2>2, <2>4 DEF ReportOK, AfterRecord
      <3>2. ASSUME NEW u \in Threads \ {t}
            PROVE  ReportOK(u)'
        <4>1. call[u].kind = "malloc" => call[u].ptr \in Ptrs /\ call[u].ptr # p
          BY <1>1, <1>2 DEF KindsOK, Allocating, EventsInv, Records, CallsOwn
        <4> QED BY <1>1, <2>1, <2>2, <2>4, <4>1, HolderAlone DEF ReportOK, BkLabels, SuiteLabels
      <3> QED BY <1>1, <3>1, <3>2 DEF ReportsOK
    <2>9. /\ MappedPending = IF OwesReport(t) THEN p ELSE NoPtr
          /\ MappedPending' = IF OwesReport(t)' THEN p ELSE NoPtr
      <3>1. \A u \in Threads \ {t} : OwesReport(u)' <=> OwesReport(u)
        BY <1>1, <2>2, HolderAlone DEF BkLabels, SuiteLabels
      <3> QED BY <1>1, <2>1, <3>1, PendingSteps DEF BkLabels, SuiteLabels
    <2>10. CASE call[t].pass = 1
      <3>1. ~OwesReport(t) /\ OwesReport(t)'
        BY <1>1, <1>2, <2>1, <2>2, <2>10 DEF OwesReport
      <3>2. MappedAge[p] = -1
        BY <1>2, <1>3, <2>3, <2>10 DEF AgesMapped
      <3>3. Events!announce(p)
        BY <1>2, <2>7, <2>9, <3>1, <3>2, MappedAnnounces
      <3> QED BY <1>2, <2>8, <3>3
    <2>11. CASE call[t].pass = 2
      <3>1. OwesReport(t) /\ ~OwesReport(t)'
        BY <1>1, <1>2, <1>5, <2>1, <2>2, <2>11 DEF OwesReport
      <3>2. Events!announce_again
        BY <1>2, <2>7, <2>9, <3>1, MappedAnnouncesAgain
      <3> QED BY <2>8, <3>2
    <2> QED BY <1>3, <2>10, <2>11
  <1> QED BY <1>4, <1>5

---------------------------------------------------------------------------
(* The theorem                                                             *)

\* A step keeps the reports in order, and is one event or none.
LEMMA StepIsEvent ==
  ASSUME Steady, EventsInv, SitesInv', Records', (missed = {})', LockInv', [Next]_vars
  PROVE  ReportsOK' /\ [Events!EventsNext]_(Events!event_vars)
  <1>1. ASSUME NEW t \in Threads, Unheard(t)
        PROVE  ReportsOK' /\ UNCHANGED Events!event_vars
    BY <1>1, UnheardKeeps, MappedStutters
  <1>2. CASE UNCHANGED vars
    <2>1. ReportsOK'
      BY <1>2 DEF EventsInv, ReportsOK, ReportOK, Held, SiteWith, SiteCopy, vars, tracker
    <2>2. UNCHANGED mapped
      BY <1>2 DEF mapped, MappedAge, MappedTold, MappedPending, MappedRunning, OwesReport, SiteWith,
                  SiteCopy, Tracked, AgesOf, vars, tracker, history
    <2> QED BY <2>1, <2>2, MappedStutters
  <1>3. CASE PeriodElapses
    <2>1. ReportsOK'
      BY <1>3 DEF PeriodElapses, EventsInv, ReportsOK, ReportOK, Held, SiteWith, SiteCopy, tracker
    <2>2. UNCHANGED mapped
      BY <1>3 DEF PeriodElapses, mapped, MappedAge, MappedTold, MappedPending, MappedRunning,
                  OwesReport, SiteWith, SiteCopy, Tracked, AgesOf, tracker, history
    <2> QED BY <2>1, <2>2, MappedStutters
  <1>4. ASSUME NEW t \in Threads, Program(t)
        PROVE  ReportsOK' /\ [Events!EventsNext]_(Events!event_vars)
    BY <1>1, <1>4, UnheardProgram
  <1>5. ASSUME NEW t \in Threads, Hook(t)
        PROVE  ReportsOK' /\ [Events!EventsNext]_(Events!event_vars)
    <2>1. CASE Begin(t)
      BY <2>1, BeginIsEvent DEF Events!EventsNext
    <2>2. CASE End(t)
      BY <2>2, EndIsEvent DEF Events!EventsNext
    <2>3. CASE Record(t)
      BY <2>3, RecordIsEvent, MappedStutters DEF Events!EventsNext
    <2>4. CASE RemoveRecord(t)
      BY <2>4, RemoveIsEvent, MappedStutters DEF Events!EventsNext
    <2>5. CASE ~Begin(t) /\ ~End(t) /\ ~Record(t) /\ ~RemoveRecord(t)
      BY <1>1, <1>5, <2>5, UnheardHook
    <2> QED BY <2>1, <2>2, <2>3, <2>4, <2>5
  <1> QED BY <1>2, <1>3, <1>4, <1>5 DEF Next

LEMMA NoneQuits ==
  ASSUME Steady, is_quitting \in BOOLEAN, ~is_quitting, [Next]_vars
  PROVE  ~is_quitting'
  <1>1. is_quitting = FALSE /\ CanQuit = FALSE
    BY DEF Steady
  <1>2. ASSUME NEW t \in Threads, Run(t)
        PROVE  is_quitting' = FALSE
    BY <1>1, <1>2 DEF Run
  <1>3. CASE UNCHANGED vars
    BY <1>3 DEF vars
  <1>4. CASE Next
    BY <1>2, <1>4
    DEF Next, Program, Hook, PeriodElapses, malloc, mmap, free, munmap, Exit, PostCheck, TryBk,
        PostEnter, Update, Record, Count, UnlockStray, Schedule, Begin, End, Clear, UnlockSuite,
        PreCheck, Walk, LockBk, PreEnter, LockHooks, LockSuite, RemoveRecord, UnlockHooks, UnlockBk,
        Release
  <1> QED BY <1>3, <1>4

LEMMA InitIsEvent == Steady /\ Init => ReportsOK /\ Events!EventsInit
  <1> SUFFICES ASSUME Steady, Init PROVE ReportsOK /\ Events!EventsInit
    OBVIOUS
  <1>1. NoCall.kind = "none" /\ known = {}
    BY DEF Init, NoCall
  <1>2. \A t \in Threads : ~OwesReport(t) /\ ReportOK(t)
    BY <1>1 DEF Init, OwesReport, ReportOK
  <1>3. MappedAge = [p \in HeapPtrs |-> -1] /\ MappedPending = NoPtr /\ ~MappedRunning
    BY <1>1, <1>2 DEF Init, MappedAge, MappedPending, MappedRunning, Tracked
  <1>4. MappedTold = [p \in HeapPtrs |-> 0]
    BY DEF Init, MappedTold, Ptrs
  <1>5. ReportsOK
    BY <1>2 DEF Init, ReportsOK
  <1> QED BY <1>3, <1>4, <1>5
    DEF MappedAge, MappedTold, MappedPending, MappedRunning, Events!EventsInit, Events!Gone

\* What is missed stays missed.
LEMMA MissedStays ==
  ASSUME [Next]_vars
  PROVE  missed \subseteq missed'
  <1> USE DEF history
  <1>1. CASE UNCHANGED missed
    BY <1>1
  <1>2. ASSUME NEW t \in Threads, Program(t)
        PROVE  UNCHANGED missed
    BY <1>2 DEF Program, malloc, mmap, free, munmap, Exit
  <1>3. ASSUME NEW t \in Threads, Hook(t), ~Walk(t)
        PROVE  UNCHANGED missed
    BY <1>3
    DEF Hook, PostCheck, TryBk, PostEnter, Update, Record, Count, UnlockStray, Schedule, Begin, Run,
        End, Clear, UnlockSuite, PreCheck, LockBk, PreEnter, LockHooks, LockSuite, RemoveRecord,
        UnlockHooks, UnlockBk, Release
  <1>4. ASSUME NEW t \in Threads, Walk(t)
        PROVE  missed \subseteq missed'
    BY <1>4 DEF Walk
  <1> QED BY <1>1, <1>2, <1>3, <1>4 DEF Next, PeriodElapses, vars

\* A report comes to a record that is not there or makes one again, never
\* into a map without room, whatever threads do, until a free is missed.
ReportsInv == ~is_quitting /\ (missed = {} => EventsInv)

THEOREM ReportsInductive == Steady => (Spec => []ReportsInv)
  <1> SUFFICES ASSUME Steady PROVE Spec => []ReportsInv
    OBVIOUS
  <1>1. RecordsInv /\ LockInv /\ Init => ReportsInv
    BY InitIsEvent DEF RecordsInv, ReportsInv, EventsInv, ReportsOK
  <1>2. RecordsInv /\ ReportsInv /\ RecordsInv' /\ LockInv' /\ [Next]_vars => ReportsInv'
    <2> SUFFICES ASSUME RecordsInv, ReportsInv, RecordsInv', LockInv', [Next]_vars
                 PROVE  ReportsInv'
      OBVIOUS
    <2>1. ~is_quitting'
      BY NoneQuits DEF RecordsInv, SitesInv, DataOK, ReportsInv
    <2>2. ASSUME (missed = {})'
          PROVE  EventsInv'
      <3>1. missed = {}
        BY <2>2, MissedStays
      <3>2. EventsInv /\ SitesInv' /\ Records'
        BY <2>1, <3>1 DEF ReportsInv, RecordsInv
      <3>3. ReportsOK'
        BY <2>2, <3>2, StepIsEvent
      <3> QED BY <2>2, <3>2, <3>3 DEF EventsInv
    <2> QED BY <2>1, <2>2 DEF ReportsInv
  <1>3. Spec => []RecordsInv
    BY RecordsInductive DEF Steady
  <1>4. Spec => []LockInv
    BY LocksInductive DEF Steady
  <1> QED BY <1>1, <1>2, <1>3, <1>4, PTL DEF Spec

\* Whatever two threads do at once, the tests see one event at a time, in
\* SuiteEvents' order: no report inside an interval, a malloc's second
\* report before anything but an interval, one on_free per record; for as
\* long as no free is missed.
THEOREM HooksImplementEvents == Steady => (Spec => ImplementsEvents)
  <1> SUFFICES ASSUME Steady PROVE Spec => ImplementsEvents
    OBVIOUS
  <1>1. Init => Events!EventsInit
    BY InitIsEvent
  <1>2. ReportsInv /\ ReportsInv' /\ [Next]_vars =>
          [missed' = {} => [Events!EventsNext]_(Events!event_vars)]_vars
    <2> SUFFICES ASSUME ReportsInv, ReportsInv', [Next]_vars, (missed = {})'
                 PROVE  [Events!EventsNext]_(Events!event_vars)
      OBVIOUS
    <2>1. missed = {}
      BY MissedStays
    <2> QED BY <2>1, StepIsEvent DEF ReportsInv, EventsInv
  <1> QED BY <1>1, <1>2, ReportsInductive, PTL DEF Spec, ImplementsEvents
=============================================================================
