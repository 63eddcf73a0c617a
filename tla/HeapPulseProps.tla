-------------------------- MODULE HeapPulseProps --------------------------
(***************************************************************************)
(* The properties of the hooks and the interval test suite.                *)
(***************************************************************************)
EXTENDS HeapPulse

Labels == {"idle", "post_check", "try_bk", "post_enter", "update", "record",
           "count", "unlock_stray", "schedule", "begin", "run", "end", "clear",
           "unlock_suite", "pre_check", "walk", "lock_bk", "pre_enter", "lock_hooks",
           "lock_suite", "remove", "unlock_hooks", "unlock_bk", "release", "exited"}

Calls == [kind : Kinds, ptr : Ptrs \cup {NoPtr}, site : Sites \cup {NoPtr}, pass : 0 .. 2,
          at : Nat, met : Nat]

\* Every variable has its type.
TypeOK ==
  /\ mem \in [Ptrs -> BOOLEAN]
  /\ pc \in [Threads -> Labels]
  /\ call \in [Threads -> Calls]
  /\ bk_lock \in Threads \cup {NoThread}
  /\ hooks_lock \in Threads \cup {NoThread}
  /\ hook_lock \in Threads \cup {NoThread}
  /\ IS_PROTECTED \in BOOLEAN /\ is_in_interval \in BOOLEAN
  /\ WORKING_THREAD_ID \in Threads \cup {NoThread}
  /\ due \in BOOLEAN /\ is_quitting \in BOOLEAN
  /\ known \subseteq Sites
  /\ sites \in [Sites -> SiteMap!MapType]
  /\ slot \in [Sites -> Nat] /\ entries \in Nat
  /\ announced \in [Ptrs -> 0 .. MaxCalls]
  /\ unplaced \subseteq Ptrs /\ missed \subseteq Ptrs
  /\ survived \in [Ptrs -> 0 .. MaxAge]

---------------------------------------------------------------------------
(* Who may touch the allocation sites                                      *)

\* The labels at which a thread changes or walks the allocation sites
\* relying on being alone.
OnSites == {"record", "count", "remove", "run", "end"}

\* The labels between taking the suite's lock and giving it back, and those
\* between taking bk_lock and giving it back.
SuiteLabels == {"record", "count", "begin", "run", "end", "clear", "unlock_suite", "remove"}

BkLabels == SuiteLabels \cup {"post_enter", "update", "unlock_stray", "schedule",
             "pre_enter", "lock_hooks", "lock_suite", "unlock_hooks", "unlock_bk"}

\* Recording, invalidating and running an interval exclude each other,
\* although update() and schedule() only try the suite's lock and go on
\* without it when it is taken (interval_test.hpp:994, 1231).
SitesExclusive ==
  \A t, u \in Threads : pc[t] \in OnSites /\ pc[u] \in OnSites => t = u

\* The two locks are held by exactly the threads whose code lies between
\* lock and unlock, on every early return too.
LocksHeld ==
  \A t \in Threads : /\ bk_lock = t <=> pc[t] \in BkLabels
                     /\ hook_lock = t <=> pc[t] \in SuiteLabels

\* Between two intervals the suite can be updated, and during one it cannot
\* (the comment of can_update(), interval_test.hpp:932): the two flags and
\* the working thread's id are set exactly while a thread runs an interval.
FlagsFollowInterval ==
  /\ is_in_interval <=> \E t \in Threads : InInterval(t)
  /\ \A t \in Threads : WORKING_THREAD_ID = t <=> pc[t] \in {"run", "end"}
  /\ IS_PROTECTED <=> WORKING_THREAD_ID # NoThread

\* No allocation is recorded while an interval is in progress: "If the
\* interval test suite is actively performing an interval, it cannot be
\* updated." (interval_test.hpp:933)
NoUpdateInInterval ==
  \A t, u \in Threads : InInterval(t) => pc[u] \notin {"record", "count"}

\* The unlock that post_mmap makes of a lock it never took
\* (heappulse.cpp:179) never takes the lock from a thread that holds it.
StrayUnlockHarmless ==
  \A t \in Threads : pc[t] = "unlock_stray" => hooks_lock = NoThread

---------------------------------------------------------------------------
(* The records against the memory                                          *)

\* A free whose unlocked contains() says no of a recorded pointer has been
\* overtaken: just then another thread stands between the two last writes of
\* put() for a new site (occupied, stack_map.hpp:59, and entries++, :60), and
\* the record is in the last site of the table.  Every other record is found
\* by every walk, whatever is recorded, invalidated or put meanwhile.
MissedAreLast ==
  [][~is_done => \A p \in missed' \ missed :
       /\ \E u \in Threads : pc[u] = "count"
       /\ \A s \in known : SiteMap!Has(sites[s], p) =>
            \A r \in known : slot[r] <= slot[s]]_vars

\* No record outlives its memory, whatever was skipped because a lock was
\* taken, a map was full or an interval was running: the memory an interval
\* reads belongs to the program, and a thread that frees it waits for the
\* interval to end (heappulse.cpp:374).  The one exception is a pointer that
\* a free once missed (MissedAreLast).
TrackedLive == ~is_done => \A p \in Tracked : mem[p] \/ p \in missed

\* The tests have been told of exactly the allocations the suite tracks, so
\* the live objects they count are those an interval visits; the exceptions
\* are an allocation whose site the full site table had no room for, and
\* pointers that a free missed.
AnnouncedTracked ==
  ~is_done =>
    /\ {p \in Ptrs : announced[p] > 0} \ missed = (Tracked \cup unplaced) \ missed
    /\ Tracked \cap unplaced \subseteq missed

\* update() drops the record that would fill a site's map, so the map that
\* is kept has a free slot: a probe of it always ends, and get() never
\* answers with the unrelated slot 0 of a full map (interval_test.hpp:1022,
\* stack_map.hpp:76).
SiteNeverFull == \A s \in known : ~SiteMap!Full(sites[s])

\* No allocation is reported older than it is, unless it was given an address
\* whose last free was missed, and with it a record of the last allocation.
AgeNeverAhead ==
  ~is_done => \A p \in Tracked \ missed : mem[p] => \A a \in AgesOf(p) : a <= survived[p]

\* on_free "gets called when an allocation is freed"
\* (interval_test.hpp:848): a tracked allocation has been reported freed
\* by the time its memory is given back.
FreeAnnounced ==
  [][\A p \in HeapPtrs : mem[p] /\ ~mem'[p] => is_done \/ p \notin Tracked]_vars

\* What remains of it where every pointer has a slot of its own: a tracked
\* allocation that is given back unannounced is one that a free missed.
FreeAnnouncedOrMissed ==
  [][\A p \in HeapPtrs : mem[p] /\ ~mem'[p] =>
       is_done \/ p \notin Tracked \/ p \in missed]_vars

---------------------------------------------------------------------------
(* What the tests rely on                                                  *)

\* The thread whose malloc has been reported once and is to be reported
\* again: the second update() follows, and finds room where the first did.
OwesReport(t) ==
  /\ call[t].kind = "malloc"
  /\ \/ /\ call[t].pass = 1
        /\ pc[t] \in {"count", "schedule", "begin", "run", "end", "clear", "unlock_suite"}
     \/ /\ call[t].pass = 2
        /\ pc[t] \in {"update", "record"}
        /\ ~SiteMap!Full(SiteWith(call[t].site, call[t].ptr))

Events == INSTANCE SuiteEvents WITH
  Ptrs        <- HeapPtrs,
  MaxTold     <- MaxCalls,
  age         <- [p \in HeapPtrs |-> IF p \in Tracked THEN CHOOSE a \in AgesOf(p) : TRUE
                                                      ELSE -1],
  told        <- [p \in HeapPtrs |-> announced[p]],
  pending     <- IF \E t \in Threads : OwesReport(t)
                 THEN call[CHOOSE t \in Threads : OwesReport(t)].ptr ELSE NoPtr,
  in_interval <- \E t \in Threads : pc[t] \in {"run", "end"}

\* Whatever two threads do at once, the tests see one event at a time: no
\* report inside an interval, a malloc's second report before anything but
\* an interval, one on_free per record, and ages that interval ends alone
\* advance.  That is so until a free is missed, which no event is: its
\* record stays, and the address may be reported once more.
ImplementsEvents ==
  Events!EventsInit /\ [][missed' = {} => [Events!EventsNext]_(Events!event_vars)]_vars

---------------------------------------------------------------------------
(* Progress                                                                *)

\* Whoever holds bk_lock gives it back: no hook blocks for ever inside.
BkReleased == \A t \in Threads : bk_lock = t ~> bk_lock # t

\* The end of the program does not hang: finish() waits for no lock.
ExitEnds == \A t \in Threads : call[t].kind = "exit" ~> pc[t] = "exited"

\* An allocating call returns, whoever holds the locks meanwhile: the hook
\* tries bk_lock and the suite's lock and waits for neither, and it calls
\* update() a bounded number of times (heappulse.cpp:350, 192-197).
AllocReturns == \A t \in Threads : call[t].kind \in {"malloc", "mmap"} ~> pc[t] = "idle"
=============================================================================
