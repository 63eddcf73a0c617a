----------------------------- MODULE HeapPulse -----------------------------
(***************************************************************************)
(* The tracker as the program's threads drive it: the allocator's hooks    *)
(* (src/src/heappulse.cpp) and the interval test suite they call           *)
(* (src/src/include/interval_test.hpp), in the default configuration: the  *)
(* bkmalloc backend and one interval test.                                 *)
(*                                                                         *)
(* A thread that allocates or frees runs the hook to its end before the    *)
(* call returns.  One action is one step of a hook between two accesses to *)
(* state other threads can change: a lock, the suite's flags, the          *)
(* allocation sites, the memory itself.                                    *)
(*                                                                         *)
(*   malloc, mmap   post_check -> try_bk -> post_enter -> update -> record *)
(*                  (a new site: -> count) -> schedule [-> interval]       *)
(*                  (malloc: update once more) (mmap: -> unlock_stray)     *)
(*                  -> unlock_bk                                           *)
(*   free, munmap   pre_check -> walk -> lock_bk -> pre_enter ->           *)
(*                  lock_hooks -> schedule [-> interval] -> lock_suite ->  *)
(*                  remove -> unlock_hooks -> unlock_bk -> release         *)
(*   an interval    begin -> run -> end -> clear -> unlock_suite           *)
(*                                                                         *)
(* allocation_sites only ever gains keys, and under its lock an            *)
(* insert-only StackMap is a plain map (StackMap!ImplementsMap), so it is  *)
(* one here: known are its keys, sites the AllocationSite of each.  Its    *)
(* slots and its counter are kept as well, because a free walks them       *)
(* without a lock.  A site's own allocations do lose keys, so they are a   *)
(* StackMap slot by slot.                                                  *)
(*                                                                         *)
(* A definition D_xyz is D with a plausible mistake in it.  Nothing uses   *)
(* it; PROJECT.json names the mistake that breaks each property.           *)
(***************************************************************************)
EXTENDS Integers, FiniteSets

CONSTANTS
  Threads,
  HeapPtrs,    \* what malloc returns
  MapPtrs,     \* what mmap returns
  Sites,       \* return addresses of allocating calls
  MaxSites,    \* TRACKED_ALLOCATION_SITES
  SiteSize,    \* TRACKED_ALLOCATIONS_PER_SITE
  PtrHash,     \* the slot a pointer hashes to in a site's map
  MaxAge,      \* ages are counted up to this bound
  MaxCalls,    \* on_alloc deliveries are counted up to this bound
  CanExit,     \* whether some thread may end the program
  CanQuit,     \* whether the test may ever quit() (no shipped test does)
  NoThread,    \* an unlocked lock, and WORKING_THREAD_ID = 0
  NoPtr

Ptrs == HeapPtrs \cup MapPtrs

ASSUME PtrsAssumption == /\ HeapPtrs \cap MapPtrs = {}
                         /\ NoPtr \notin Ptrs
ASSUME ThreadsAssumption == NoThread \notin Threads
ASSUME BoundsAssumption == /\ MaxSites \in Nat /\ SiteSize \in Nat \ {0}
                           /\ MaxAge \in Nat \ {0} /\ MaxCalls \in Nat \ {0}
ASSUME PtrHashAssumption == PtrHash \in [Ptrs -> 0 .. SiteSize - 1]
ASSUME CanAssumption == CanExit \in BOOLEAN /\ CanQuit \in BOOLEAN

SiteMap == INSTANCE StackMapOps WITH
  Size <- SiteSize, Keys <- Ptrs, Values <- 0 .. MaxAge, Zero <- 0,
  Hash <- PtrHash, Free <- NoPtr

VARIABLES
  mem,             \* mem[p]: whether the program owns the memory at p
  pc, call,        \* where each thread is, and the call it is in
  bk_lock,         \* heappulse.cpp's global lock: its holder
  hooks_lock,      \* Hooks::hook_lock
  hook_lock,       \* IntervalTestSuite::hook_lock
  IS_PROTECTED, is_in_interval, WORKING_THREAD_ID,
  due,             \* timer.elapsed_milliseconds() > config.period_milliseconds
  is_quitting,     \* the test has quit: is_done() of the suite
  known, sites,    \* allocation_sites: its occupied keys and their values
  slot, entries,   \* the slot of each key, and the entry counter
  announced,       \* history: on_alloc calls for p since its last on_free
  unplaced,        \* history: announced, but the site table had no room
  survived,        \* history: intervals ended since p was handed out
  missed           \* history: p was freed while recorded, and not found

locks == <<bk_lock, hooks_lock, hook_lock>>
flags == <<IS_PROTECTED, is_in_interval, WORKING_THREAD_ID>>
tracker == <<known, sites, slot, entries>>
history == <<announced, unplaced, survived, missed>>
vars == <<mem, pc, call, locks, flags, due, is_quitting, tracker, history>>

Kinds == {"none", "malloc", "mmap", "free", "munmap", "exit"}

NoCall == [kind |-> "none", ptr |-> NoPtr, site |-> NoPtr, pass |-> 0, at |-> 0, met |-> 0]

---------------------------------------------------------------------------
(* What the steps read                                                     *)

is_done == is_quitting

can_update == ~IS_PROTECTED /\ ~is_done /\ ~is_in_interval

\* The allocation records a walk over the sites meets.
Tracked == UNION {{sites[s].key[i] : i \in SiteMap!Occupied(sites[s])} : s \in known}

\* What contains(p) answers while nobody changes the sites.
contains(p) == \E s \in known : SiteMap!Has(sites[s], p)

\* The ages recorded for p (one, unless its key is in several slots).
AgesOf(p) ==
  UNION {{sites[s].value[i] : i \in {j \in SiteMap!Slots : sites[s].key[j] = p}}
           : s \in known}

InInterval(t) == pc[t] \in {"run", "end", "clear"}

Unlocked_Ignored(lock) == TRUE

\* try_lock() succeeds, and lock() returns.
Unlocked(lock) == lock = NoThread

Least(a, b) == IF a < b THEN a ELSE b

---------------------------------------------------------------------------
(* Control                                                                 *)

Goto(t, label) == pc' = [pc EXCEPT ![t] = label]

Return(t) == /\ Goto(t, "idle")
             /\ call' = [call EXCEPT ![t] = NoCall]

LeaveUpdate_Again(t) ==
  IF call[t].kind = "mmap"
  THEN Goto(t, "unlock_stray") /\ UNCHANGED call
  ELSE Goto(t, "update") /\ call' = [call EXCEPT ![t].pass = Least(@ + 1, 3)]

\* update() returns: post_alloc calls it a second time, post_mmap goes on
\* to unlock the Hooks lock it never took.
LeaveUpdate(t) ==
  IF call[t].kind = "mmap"
  THEN Goto(t, "unlock_stray") /\ UNCHANGED call
  ELSE IF call[t].pass = 1
       THEN Goto(t, "update") /\ call' = [call EXCEPT ![t].pass = 2]
       ELSE Goto(t, "unlock_bk") /\ UNCHANGED call

\* schedule() returns, to update() or to invalidate().
LeaveSchedule(t) ==
  IF call[t].kind \in {"malloc", "mmap"}
  THEN LeaveUpdate(t)
  ELSE Goto(t, "lock_suite") /\ UNCHANGED call

---------------------------------------------------------------------------
(* The program                                                             *)

Enter(t, kind, p, s, label) ==
  /\ pc[t] = "idle"
  /\ Goto(t, label)
  /\ call' = [call EXCEPT ![t] = [kind |-> kind, ptr |-> p, site |-> s, pass |-> 1,
                              at |-> 0, met |-> 0]]

\* The allocator hands out p and calls bk_post_alloc_hook.
malloc(t) ==
  \E p \in HeapPtrs, s \in Sites :
    /\ ~mem[p]
    /\ mem' = [mem EXCEPT ![p] = TRUE]
    /\ survived' = [survived EXCEPT ![p] = 0]
    /\ Enter(t, "malloc", p, s, "post_check")
    /\ UNCHANGED <<locks, flags, due, is_quitting, tracker, announced, unplaced, missed>>

\* mmap hands out p and calls bk_post_mmap_hook.
mmap(t) ==
  \E p \in MapPtrs, s \in Sites :
    /\ ~mem[p]
    /\ mem' = [mem EXCEPT ![p] = TRUE]
    /\ survived' = [survived EXCEPT ![p] = 0]
    /\ Enter(t, "mmap", p, s, "post_check")
    /\ UNCHANGED <<locks, flags, due, is_quitting, tracker, announced, unplaced, missed>>

\* free(p) calls bk_pre_free_hook while p is still allocated.  A program
\* frees only what an earlier malloc has returned, and only once.
free(t) ==
  \E p \in HeapPtrs :
    /\ mem[p] /\ \A u \in Threads : call[u].ptr # p
    /\ Enter(t, "free", p, NoPtr, "pre_check")
    /\ UNCHANGED <<mem, locks, flags, due, is_quitting, tracker, history>>

\* munmap(p) gives the memory back first and then calls
\* bk_post_munmap_hook; from here on another mmap may be given p.
munmap(t) ==
  \E p \in MapPtrs :
    /\ mem[p] /\ \A u \in Threads : call[u].ptr = p => call[u].kind = "munmap"
    /\ mem' = [mem EXCEPT ![p] = FALSE]
    /\ Enter(t, "munmap", p, NoPtr, "pre_check")
    /\ UNCHANGED <<locks, flags, due, is_quitting, tracker, history>>

\* More than the configured period has passed since the timer was reset.
PeriodElapses ==
  /\ ~due
  /\ due' = TRUE
  /\ UNCHANGED <<mem, pc, call, locks, flags, is_quitting, tracker, history>>

---------------------------------------------------------------------------
(* bk_post_alloc_hook, bk_post_mmap_hook                                   *)

PostCheck(t) ==
  /\ pc[t] = "post_check"
  /\ IF can_update
     THEN Goto(t, "try_bk") /\ UNCHANGED call
     ELSE Return(t)
  /\ UNCHANGED <<mem, locks, flags, due, is_quitting, tracker, history>>

\* bk_lock.try_lock(): a thread that finds it taken gives up, and the
\* allocation is never tracked.
TryBk(t) ==
  /\ pc[t] = "try_bk"
  /\ IF Unlocked(bk_lock)
     THEN bk_lock' = t /\ Goto(t, "post_enter") /\ UNCHANGED call
     ELSE Return(t) /\ UNCHANGED bk_lock
  /\ UNCHANGED <<mem, hooks_lock, hook_lock, flags, due, is_quitting, tracker, history>>

\* Hooks::post_alloc and Hooks::post_mmap look at the flags once more.
PostEnter(t) ==
  /\ pc[t] = "post_enter"
  /\ Goto(t, IF can_update THEN "update" ELSE "unlock_bk")
  /\ UNCHANGED <<mem, call, locks, flags, due, is_quitting, tracker, history>>

\* update() begins: it returns at once when it may not update or when the
\* suite's lock is taken.
Update(t) ==
  /\ pc[t] = "update"
  /\ IF can_update /\ Unlocked(hook_lock)
     THEN hook_lock' = t /\ Goto(t, "record") /\ UNCHANGED call
     ELSE LeaveUpdate(t) /\ UNCHANGED hook_lock
  /\ UNCHANGED <<mem, bk_lock, hooks_lock, flags, due, is_quitting, tracker, history>>

\* The site as update() edits it: a copy, empty for a new return address.
SiteCopy(s) == IF s \in known THEN sites[s] ELSE SiteMap!EmptyMap

SiteWith_Stale(s, p) == SiteMap!GetMap(SiteCopy(s), p)

\* The edited copy: the allocation is put with age 0 unless the map is full.
SiteWith(s, p) == SiteMap!Put(SiteCopy(s), p, 0)

\* The slots of the sites' table a new site may hash to: put() claims the
\* first free one from there, so any free slot, for some return address.
FreeSlots == (0 .. MaxSites - 1) \ {slot[s] : s \in known}

\* allocation_sites.put(s, site), as far as the slot: of a new site, key,
\* value and occupied are written here and the counter in Count.
PutSite(t, s, site) ==
  /\ sites' = [sites EXCEPT ![s] = site]
  /\ \/ /\ s \in known
        /\ Goto(t, "schedule")
        /\ hook_lock' = NoThread
        /\ UNCHANGED <<known, slot>>
     \/ /\ s \notin known
        /\ known' = known \cup {s}
        /\ \E i \in FreeSlots : slot' = [slot EXCEPT ![s] = i]
        /\ Goto(t, "count")
        /\ UNCHANGED hook_lock

Record_ChecksLate(t) ==
  LET p == call[t].ptr
      s == call[t].site
      room == s \in known \/ entries < MaxSites
  IN
  /\ pc[t] = "record"
  /\ announced' = [announced EXCEPT ![p] = Least(@ + 1, MaxCalls)]
  /\ unplaced' = IF room THEN unplaced \ {p} ELSE unplaced \cup {p}
  /\ IF room
     THEN PutSite(t, s, SiteWith(s, p))
     ELSE Goto(t, "schedule") /\ hook_lock' = NoThread /\ UNCHANGED <<known, sites, slot>>
  /\ UNCHANGED <<mem, call, bk_lock, hooks_lock, flags, due, is_quitting, entries,
                 survived, missed>>

\* update() under the suite's lock.  A site the new record makes full is
\* not written back and the tests hear nothing; nor does the timer get
\* looked at.  When there is no room for a new site the tests still do.
\* (on_alloc comes after the counter of a new site; it is told here, as
\* under the suite's lock nobody can tell the difference.)
Record(t) ==
  LET p == call[t].ptr
      s == call[t].site
      room == s \in known \/ entries < MaxSites
  IN
  /\ pc[t] = "record"
  /\ IF SiteMap!Full(SiteWith(s, p))
     THEN /\ hook_lock' = NoThread
          /\ LeaveUpdate(t)
          /\ UNCHANGED <<known, sites, slot, announced, unplaced>>
     ELSE /\ announced' = IF is_quitting THEN announced
                          ELSE [announced EXCEPT ![p] = Least(@ + 1, MaxCalls)]
          /\ unplaced' = IF room THEN unplaced \ {p} ELSE unplaced \cup {p}
          /\ IF room
             THEN PutSite(t, s, SiteWith(s, p))
             ELSE /\ Goto(t, "schedule")
                  /\ hook_lock' = NoThread
                  /\ UNCHANGED <<known, sites, slot>>
          /\ UNCHANGED call
  /\ UNCHANGED <<mem, bk_lock, hooks_lock, flags, due, is_quitting, entries, survived, missed>>

\* entries++ for the new site, the last write of put(); then update() gives
\* the suite's lock back.
Count(t) ==
  /\ pc[t] = "count"
  /\ entries' = entries + 1
  /\ hook_lock' = NoThread
  /\ Goto(t, "schedule")
  /\ UNCHANGED <<mem, call, bk_lock, hooks_lock, flags, due, is_quitting, known, sites, slot,
                 history>>

\* Hooks::post_mmap ends by unlocking a lock it does not hold: undefined,
\* and with the C library's mutex the lock is simply free afterwards.
UnlockStray(t) ==
  /\ pc[t] = "unlock_stray"
  /\ hooks_lock' = NoThread
  /\ Goto(t, "unlock_bk")
  /\ UNCHANGED <<mem, call, bk_lock, hook_lock, flags, due, is_quitting, tracker, history>>

---------------------------------------------------------------------------
(* schedule() and interval()                                               *)

Schedule(t) ==
  /\ pc[t] = "schedule"
  /\ IF due /\ Unlocked(hook_lock)
     THEN hook_lock' = t /\ Goto(t, "begin") /\ UNCHANGED call
     ELSE LeaveSchedule(t) /\ UNCHANGED hook_lock
  /\ UNCHANGED <<mem, bk_lock, hooks_lock, flags, due, is_quitting, tracker, history>>

\* become_working_thread() and the first timer.reset().
Begin(t) ==
  /\ pc[t] = "begin"
  /\ is_in_interval' = TRUE
  /\ WORKING_THREAD_ID' = t
  /\ IS_PROTECTED' = TRUE
  /\ due' = FALSE
  /\ Goto(t, "run")
  /\ UNCHANGED <<mem, call, locks, is_quitting, tracker, history>>

Run_Forever(t) ==
  /\ pc[t] = "run"
  /\ Goto(t, "run")
  /\ UNCHANGED <<mem, call, locks, flags, due, is_quitting, tracker, history>>

\* The test walks the allocation sites and reads the memory; done with
\* that, it may quit().
Run(t) ==
  /\ pc[t] = "run"
  /\ is_quitting' \in {is_quitting, is_quitting \/ CanQuit}
  /\ Goto(t, "end")
  /\ UNCHANGED <<mem, call, locks, flags, due, tracker, history>>

\* The second timer.reset(), tick_age() of every record, and
\* no_longer_working_thread().
Ticked(m) == [m EXCEPT !.value = [i \in SiteMap!Slots |->
                IF i \in SiteMap!Visited(m) THEN Least(m.value[i] + 1, MaxAge)
                                            ELSE m.value[i]]]

End(t) ==
  /\ pc[t] = "end"
  /\ due' = FALSE
  /\ sites' = [s \in Sites |-> IF s \in known THEN Ticked(sites[s]) ELSE sites[s]]
  /\ survived' = [p \in Ptrs |-> Least(survived[p] + 1, MaxAge)]
  /\ WORKING_THREAD_ID' = NoThread
  /\ IS_PROTECTED' = FALSE
  /\ Goto(t, "clear")
  /\ UNCHANGED <<mem, call, locks, is_in_interval, is_quitting, known, slot, entries,
                 announced, unplaced, missed>>

Clear(t) ==
  /\ pc[t] = "clear"
  /\ is_in_interval' = FALSE
  /\ Goto(t, IF call[t].kind = "exit" THEN "exited" ELSE "unlock_suite")
  /\ UNCHANGED <<mem, call, locks, IS_PROTECTED, WORKING_THREAD_ID, due,
                 is_quitting, tracker, history>>

\* schedule() gives the suite's lock back.
UnlockSuite(t) ==
  /\ pc[t] = "unlock_suite"
  /\ hook_lock' = NoThread
  /\ LeaveSchedule(t)
  /\ UNCHANGED <<mem, bk_lock, hooks_lock, flags, due, is_quitting, tracker, history>>

---------------------------------------------------------------------------
(* bk_pre_free_hook, bk_post_munmap_hook                                   *)

\* Without any lock: nothing to do when the tests are done or, as the walk
\* of contains() has it, the pointer is not tracked.
PreCheck(t) ==
  /\ pc[t] = "pre_check"
  /\ Goto(t, IF is_done THEN "release" ELSE "walk")
  /\ UNCHANGED <<mem, call, locks, flags, due, is_quitting, tracker, history>>

WalkOver_Short(t) == call[t].at >= MaxSites \/ call[t].met + 1 >= entries

\* reduce() ends behind the last slot, or when it has met as many sites as
\* the counter says there are; it reads the counter anew for each slot.
WalkOver(t) == call[t].at >= MaxSites \/ call[t].met >= entries

\* contains(), without a lock, looks at the next slot of the sites' table.
Walk(t) ==
  LET p == call[t].ptr
      here == {s \in known : slot[s] = call[t].at}
  IN
  /\ pc[t] = "walk"
  /\ \/ /\ WalkOver(t)
        /\ Goto(t, "release")
        /\ missed' = IF contains(p) THEN missed \cup {p} ELSE missed
        /\ UNCHANGED call
     \/ /\ ~WalkOver(t)
        /\ \E s \in here : SiteMap!Has(sites[s], p)
        /\ Goto(t, "lock_bk")
        /\ call' = [call EXCEPT ![t].at = 0, ![t].met = 0]
        /\ UNCHANGED missed
     \/ /\ ~WalkOver(t)
        /\ \A s \in here : ~SiteMap!Has(sites[s], p)
        /\ call' = [call EXCEPT ![t].at = @ + 1,
                               ![t].met = IF here = {} THEN @ ELSE @ + 1]
        /\ UNCHANGED <<pc, missed>>
  /\ UNCHANGED <<mem, locks, flags, due, is_quitting, tracker, announced, unplaced, survived>>

LockBk_Tries(t) ==
  /\ pc[t] = "lock_bk"
  /\ IF Unlocked(bk_lock)
     THEN bk_lock' = t /\ Goto(t, "pre_enter")
     ELSE Goto(t, "release") /\ UNCHANGED bk_lock
  /\ UNCHANGED <<mem, call, hooks_lock, hook_lock, flags, due, is_quitting, tracker, history>>

LockBk(t) ==
  /\ pc[t] = "lock_bk"
  /\ Unlocked(bk_lock)
  /\ bk_lock' = t
  /\ Goto(t, "pre_enter")
  /\ UNCHANGED <<mem, call, hooks_lock, hook_lock, flags, due, is_quitting, tracker, history>>

\* Hooks::pre_free asks both questions again.  Under bk_lock nobody adds a
\* site, so this walk over the sites is exact.
PreEnter(t) ==
  /\ pc[t] = "pre_enter"
  /\ Goto(t, IF ~is_done /\ contains(call[t].ptr) THEN "lock_hooks" ELSE "unlock_bk")
  /\ UNCHANGED <<mem, call, locks, flags, due, is_quitting, tracker, history>>

LockHooks(t) ==
  /\ pc[t] = "lock_hooks"
  /\ Unlocked(hooks_lock)
  /\ hooks_lock' = t
  /\ Goto(t, "schedule")
  /\ UNCHANGED <<mem, call, bk_lock, hook_lock, flags, due, is_quitting, tracker, history>>

LockSuite(t) ==
  /\ pc[t] = "lock_suite"
  /\ Unlocked(hook_lock)
  /\ hook_lock' = t
  /\ Goto(t, "remove")
  /\ UNCHANGED <<mem, call, bk_lock, hooks_lock, flags, due, is_quitting, tracker, history>>

RemoveRecord_Silent(t) ==
  LET p == call[t].ptr
      holders == {s \in known : SiteMap!Has(sites[s], p)}
  IN
  /\ pc[t] = "remove"
  /\ \/ holders = {} /\ UNCHANGED sites
     \/ \E s \in holders : sites' = [sites EXCEPT ![s] = SiteMap!RemoveMap(@, p)]
  /\ hook_lock' = NoThread
  /\ Goto(t, "unlock_hooks")
  /\ UNCHANGED <<mem, call, bk_lock, hooks_lock, flags, due, is_quitting, known, slot, entries,
                 history>>

\* invalidate() under the suite's lock: on_free and removal in the first
\* site that contains the pointer, in the order of the sites' table.
RemoveRecord(t) ==
  LET p == call[t].ptr
      holders == {s \in known : SiteMap!Has(sites[s], p)}
  IN
  /\ pc[t] = "remove"
  /\ \/ /\ holders = {}
        /\ UNCHANGED <<sites, announced>>
     \/ \E s \in holders :
          /\ sites' = [sites EXCEPT ![s] = SiteMap!RemoveMap(@, p)]
          /\ announced' = IF is_quitting THEN announced
                          ELSE [announced EXCEPT ![p] = 0]
  /\ hook_lock' = NoThread
  /\ Goto(t, "unlock_hooks")
  /\ UNCHANGED <<mem, call, bk_lock, hooks_lock, flags, due, is_quitting, known, slot, entries,
                 unplaced, survived, missed>>

UnlockHooks(t) ==
  /\ pc[t] = "unlock_hooks"
  /\ hooks_lock' = NoThread
  /\ Goto(t, "unlock_bk")
  /\ UNCHANGED <<mem, call, bk_lock, hook_lock, flags, due, is_quitting, tracker, history>>

\* Every hook that took bk_lock gives it back last.
UnlockBk(t) ==
  /\ pc[t] = "unlock_bk"
  /\ bk_lock' = NoThread
  /\ IF call[t].kind \in {"malloc", "mmap"}
     THEN Return(t)
     ELSE Goto(t, "release") /\ UNCHANGED call
  /\ UNCHANGED <<mem, hooks_lock, hook_lock, flags, due, is_quitting, tracker, history>>

\* The hook is over: the allocator takes the memory of a free back.
Release(t) ==
  /\ pc[t] = "release"
  /\ mem' = IF call[t].kind = "free" THEN [mem EXCEPT ![call[t].ptr] = FALSE] ELSE mem
  /\ Return(t)
  /\ UNCHANGED <<locks, flags, due, is_quitting, tracker, history>>

---------------------------------------------------------------------------
(* The end of the program                                                  *)

\* A thread calls exit(): the suite's destructor runs finish(), and so one
\* more interval, without any lock, while the other threads go on.
Exit(t) ==
  /\ CanExit
  /\ \A u \in Threads : call[u].kind # "exit"
  /\ Enter(t, "exit", NoPtr, NoPtr, "begin")
  /\ UNCHANGED <<mem, locks, flags, due, is_quitting, tracker, history>>

---------------------------------------------------------------------------

Program(t) == malloc(t) \/ mmap(t) \/ free(t) \/ munmap(t) \/ Exit(t)

Hook(t) ==
  \/ PostCheck(t) \/ TryBk(t) \/ PostEnter(t) \/ Update(t) \/ Record(t) \/ Count(t)
  \/ UnlockStray(t) \/ Schedule(t) \/ Begin(t) \/ Run(t) \/ End(t) \/ Clear(t)
  \/ UnlockSuite(t) \/ PreCheck(t) \/ Walk(t) \/ LockBk(t) \/ PreEnter(t)
  \/ LockHooks(t) \/ LockSuite(t) \/ RemoveRecord(t) \/ UnlockHooks(t) \/ UnlockBk(t) \/ Release(t)

Init ==
  /\ mem = [p \in Ptrs |-> FALSE]
  /\ pc = [t \in Threads |-> "idle"]
  /\ call = [t \in Threads |-> NoCall]
  /\ bk_lock = NoThread /\ hooks_lock = NoThread /\ hook_lock = NoThread
  /\ IS_PROTECTED = FALSE /\ is_in_interval = FALSE /\ WORKING_THREAD_ID = NoThread
  /\ due = FALSE /\ is_quitting = FALSE
  /\ known = {} /\ sites = [s \in Sites |-> SiteMap!EmptyMap]
  /\ slot = [s \in Sites |-> 0] /\ entries = 0
  /\ announced = [p \in Ptrs |-> 0] /\ unplaced = {} /\ missed = {}
  /\ survived = [p \in Ptrs |-> 0]

Next == PeriodElapses \/ \E t \in Threads : Program(t) \/ Hook(t)

Spec == Init /\ [][Next]_vars

\* A thread inside a hook keeps running; the program owes nothing.
FairSpec == Spec /\ \A t \in Threads : WF_vars(Hook(t))
=============================================================================
