# A TLA+ model of HeapPulse

HeapPulse is a heap tracker that is loaded in front of a program's allocator
(`LD_PRELOAD`). Hooks in the allocator record every live allocation by the
place that made it; every 15 seconds the thread that happens to be in a hook
runs an *interval*, in which a test looks at all recorded allocations, writes
rows into CSV files and goes on. There is no tracker thread: all of it happens
inside the program's own `malloc`, `free`, `mmap` and `munmap` calls, and, for the
accesses, inside its page faults.

What is hard about it is therefore the order of things: threads enter hooks at
any time, some locks are only tried, flags are read outside locks, an interval
reads memory the program owns and closes pages the program uses, the allocator
below frees without a lock, and hand-written fixed-size containers with
approximate bounds hold everything. This project models that, checks it with
TLC on small instances and proves the most important parts with TLAPS.

The default configuration is `src/src/include/config.hpp`: the bkmalloc backend,
`ALL_TEST`, no `GUARD_ACCESSES`. The modules of the tests, of the fault handler
and of the allocator cover the other choices too and say how.

## 1. Inventory

Paths without a directory are under `src/src/`.

| Part (source) | State | Operations | Talks to |
|---|---|---|---|
| **StackMap**, StackSet (`include/stack_map.hpp`, `stack_set.hpp`) | slots with key, value, `occupied`; a counter `entries` | `put`, `get`, `has`, `remove`, `clear`, `map`, `reduce` | embedded in sites, site table and the tests' sets |
| **Allocator hooks** (`heappulse.cpp`) | `bk_lock`, `Hooks::hook_lock`, statistics | malloc, free, mmap, munmap hooks; block hooks | bkmalloc calls them; they call the suite |
| **Interval test suite** (`include/interval_test.hpp` 875-1376) | `allocation_sites`, `hook_lock`, `IS_PROTECTED`, `is_in_interval`, `WORKING_THREAD_ID`, timer, quit flags | `update`, `invalidate`, `contains`, `schedule`, `interval`, `finish` | called by hooks; calls `on_alloc`, `on_free`, `interval` of the tests |
| **Page fault handler**, access sets (`include/interval_test.hpp` 409-800, 1240-1310, 1390-1524) | recorded accesses, the count of consecutive faults, `protection_lock`, page permissions | SIGSEGV handler, `protect`, `unprotect`, `get_*_accesses`, `clear_accesses` | the program's faults, suite, tests |
| **AllTest** (`intervals/all.cpp`) | totals, totals since the last interval, `huge_page_liveset`, four CSVs | `on_alloc`, `on_free`, `interval`, the block hooks | called by suite and block hooks |
| **AccessPatternTest** (`intervals/access_patterns_test.cpp`) | four families of six windows, totals | `on_alloc`, `on_free`, `on_access`, `interval` | called by the suite |
| **PageTrackingTest**, **GenerationalTest** (`intervals/`) | histories of physical pages; totals | as above | called by the suite |
| **Compression and liveness tests** (`intervals/`) | nothing that lasts | `interval` | suite, fault handler |
| **StackCSV**, StackFile (`include/stack_csv.hpp`, `stack_file.hpp`) | rows, titles, file | `new_row`, `set`, `write`, `clear` | tests |
| **StackVec, StackString** (`include/`) | fixed arrays | a vector's and a string's, `format`, `scan`, numbers | everywhere |
| **Timer** (`include/timer.hpp`) | start time | `reset`, `elapsed` | suite |
| **bkmalloc** (`src/include/bkmalloc.h`, vendored) | heaps, block lists, blocks, reuse lists, names | allocate, reallocate, free, garbage collection, heaps of threads and of names | calls the hooks |
| **Page information** (`include/interval_test.hpp` 28-407) | none but `IS_PROTECTED` while reading | reads of pagemap, kpageflags; writes of clear_refs | tests |
| **Compressor, logging, backtraces** | | | tests |
| **Notebooks, data, scripts, test programs** | | | read the CSVs, or are traced |

How they interact. A program thread calls into bkmalloc, which calls a hook
*after* an allocation, *before* a free, *after* an munmap. The hook takes
`bk_lock` (tried for an allocation, waited for by a free) and calls the suite.
`update()` records, `invalidate()` forgets; both look at the timer through
`schedule()`, which may run an interval on the spot. The block hooks go to the
test directly, past every lock. Tests that follow accesses close pages in their
interval; the program's next access to one faults, and the handler records it and
opens the page.

What makes each part correct:

- *StackMap*: the counter is the number of occupied slots; the probing bound
  `num_entries()*2` and the early end of an iteration miss nothing; without
  removals it is a map.
- *Hooks and suite*: recording, forgetting and intervals exclude each other; the
  flags say when an interval runs; every early return leaves the locks as they
  should be; a record outlives its memory only if an unlocked `contains()` missed it,
  which takes a new site being put just then; but for those the tests are told of exactly what is
  recorded; hooks return, intervals and the program end.
- *Fault handler*: what is recorded is delivered once; a page is open only because of
  a recorded access; handler and interval wait for each other only for a closed page that the working
  thread itself touches; each access is served in the end.
- *AllTest*: periods add up to totals, no row is lost or repeated, the live set of
  blocks follows the blocks, and an interval that walks it while it changes loses
  little.
- *The other tests*: the k-th window holds what happened in the last k intervals, also
  when addresses are used again; a page's record is its history, and it has one row;
  the sizes of a generation are those of the objects that lived that long.
- *bkmalloc*: live objects never overlap; a block is emptied, kept or returned only
  when nothing of it is held; what calloc returns is zero; what is kept for reuse is
  counted and bounded; a thread's heap is ready before it gets it.
- *Containers and reports*: a vector is a bounded sequence; each operation on texts
  computes what it says; each line of a report is a row under its titles, over
  crashes and restarts.

Hard behaviours: interleavings of hooks (locks only tried, flags read and then
acted on, an unlock of a lock never taken, memory given back before the hook
runs); a free's unlocked walk of the sites while one is put; frees that race with
allocations in the same block; faults that race
with the interval that closes the page; limits (full site, full site table, full
CSV, bounded rows, bounded reuse lists, growing tables); the end of the program, which
runs a last interval without any lock, or comes between two writes of a report;
chains of a hash table cut by removals. `PROJECT.json` lists each hazard at its line
with the properties that watch it.

## 2. Modules

Project modules, from the bottom up:

| Module | What it is |
|---|---|
| `StackMapOps` | the hash table as operators on a map value |
| `StackMap` | one table and the calls on it; its properties |
| `AbstractMap` | what callers of a StackMap rely on |
| `HeapPulse` | hooks, suite and the program's threads, step by step |
| `HeapPulseProps` | their properties, and the refinement to `SuiteEvents` |
| `SuiteEvents` | what the suite promises the tests: order of `on_alloc`, `on_free`, `interval`, and the records |
| `Faults`, `FaultsProps` | the SIGSEGV handler against the intervals |
| `TestCounters`, `StackCSV` | totals and CSVs, as operators |
| `AllTest`, `AccessPatterns` | the two tests, one action per callback |
| `TestedHeap` | the allocations the tests hear of: sizes and pages |
| `IntervalTests` | `SuiteEvents` composed with the two tests |
| `PageTracking`, `Generational` | the two tests, as operators |
| `OtherTests`, `OtherTestsProps` | `SuiteEvents` composed with these |
| `HugePages` | AllTest's live set of blocks under concurrent block hooks and an interval's walk |
| `BkBlocks` | the inside of a bkmalloc block, as operators |
| `BkMalloc`, `BkProps` | its heaps and threads; their properties |
| `Allocator` | what an allocator promises |
| `HashTable`, `BkHeaps` | bkmalloc's chained table; which heap a thread or a name gets |
| `StackVec`, `StackText`, `StackTextProps` | the containers |
| `ReportFile` | from a row's cells to the bytes in the file |
| `MC*` | the constants of the runs; `MCParts` puts the sequential parts side by side |
| `*Proofs`, `BkLemmas` | theorems and lemmas; `PartsProofs` has those of `StackMap`, `StackVec`, `BkHeaps` and `Faults` |
| `FoldLaws` | what a fold over a sequence and a sum over a set compute, for the proofs |

The modules meet at four seams. `HeapPulse` embeds `StackMapOps` slot by slot for
each site's allocations; the table of sites, which only gains keys, is a plain
set and function, which `StackMap!ImplementsMap` justifies where the table is locked, with the slots and
the counter that a free walks without the lock. `HeapPulse`, with
threads and locks, implements `SuiteEvents`, without any, as long as no free misses a record
(`HeapPulseProps!ImplementsEvents`); `IntervalTests` and `OtherTests` run the tests on
`SuiteEvents`, so their state does not multiply with that of the threads.
`BkMalloc` implements `Allocator` (`BkProps!ImplementsAllocator`), which is what
`HeapPulse` assumes when its `malloc` hands out memory nobody has. And `Faults` has the
accesses that `IntervalTests` takes as given in `DeliverAccesses`.

### StackMapOps, StackMap

A map value has `key[i]` (or `Free`), `value[i]` and `entries`. `Distance` is the
probing loop of `put`, `get` and `has` with its bound; `remove` has the bound
`Size`. `get` of an absent key claims a slot and hands out the value that was left
there, so values survive removals in the model too. `Visited` is what `map()` and
`reduce()` hand over before they stop. `Removable` are the keys a program removes:
`StackMapCollide` removes every key, `Parts` none.

### HeapPulse

Each thread has a `pc`; a label is a point between two accesses to state another
thread can change. The table at the head of the module lists the path of each
call. `malloc`, `mmap`, `munmap` and `free` are the program's moves: what a program
may legally do, at most. `mem[p]` says whose the memory is, and that is where the
order of hook and memory shows: a free's hook runs before the release
(`Release`), an munmap's after it (`munmap`).

- `post_alloc` calls `update()` twice for a malloc (heappulse.cpp:192, 197): `pass`.
- `post_mmap` unlocks `Hooks::hook_lock` without having locked it
  (heappulse.cpp:179): `UnlockStray`. It is undefined behaviour; with the C
  library's mutex it frees the lock. That nobody holds it then is
  `StrayUnlockHarmless`, so no other outcome needs to be modelled.
- `contains()`, which a free calls without a lock, walks the table of sites a slot at a time and reads
  the counter that ends it anew for each (`Walk`); `put()` occupies a site's slot in `Record` and
  raises the counter in `Count`. A walk in between stops one site short, and a record it did not
  find goes to `missed`. Inside a slot, `has()` of the site's own map is one read: a counter that
  lags by one leaves its bound, twice the counter, long enough for every probe.
- `on_alloc` is called in `Record` too: nobody reads the tests' state before the lock is given up. The
  locked walks (`invalidate`, intervals) are one step each, and so is the one an exit makes without
  a lock; what it can see of a record half made is not watched.
- `is_in_interval`, `become_working_thread()` and the first `timer.reset()` are one
  step, `Begin`: the only readers in between are `can_update()`s, for which
  any of the flags suffices.
- An allocation made inside a hook finds `bk_lock` taken by its own thread; the
  `try_lock` fails and the hook returns. It changes nothing and is not modelled.
- `perform_clear_soft_dirty_bits()` in an interval saves and restores
  `IS_PROTECTED`, so it is no step.
- Statistics (`malloc_count`...) and logging are left out, as are `MAP_FIXED` and
  partial unmaps.

History variables: `announced` counts `on_alloc` since the last `on_free`, `unplaced`
are allocations announced although the site table was full, `survived` counts
the intervals an allocation lived through, and `missed` are the pointers whose record a free did not
find. From then on nothing is said of such a pointer: its record stays when the memory is gone,
keeps its age for the next allocation there, and `on_free` is not called.

### SuiteEvents

`age[p]` is the age of `p`'s record, or `Gone`; `pending` is an allocation whose
second report is to come. Reports, retractions and intervals exclude each other.
It allows a little more than the code does: any number of intervals
between the two reports of a malloc, where the code runs at most one. What the tests do after a
free has missed a record is outside it: `IntervalTests` and `OtherTests` hold up to then.

### Faults

Threads of the program make accesses (`Fault`); one that the page does not permit goes
through the handler's steps `compare -> count -> lock -> mark -> open -> retry`, with
`GiveBack` the way of the working thread and `spin` the wait for `IS_PROTECTED`.
`stage` is how far the running interval has come: it delivers a copy of the written
and one of the read addresses, clears both, and runs the test, which opens, reads and
closes objects as the record `Test` says. That record is all that differs between the
tests. While the test runs, the working thread also takes memory from the program's own allocator: a lambda that
captures more than two words becomes a `std::function` by `operator new` (page_tracking.cpp:148, 151 and 163,
access_patterns_test.cpp:420, compression_test.cpp:64 and 99; a compression library may do it too). `config.heap` are the
pages that memory lies on, and `FaultOnHeap` is the fault on one that is closed for the objects beside it.
`config.accesses` is what the program does: to live objects, and in its allocator to what
lies beside them. `config.guard` is `GUARD_ACCESSES` ("hard": writes and reads are told apart),
`SOFT_GUARD_ACCESSES` ("soft") or neither; `config.spin` says whether the
compiler leaves the loop on the plain `bool` as written or reads it once, and the
configurations of a run are constants. History: `owed` is what has been recorded and not
been taken, `seen[p]` the kinds of access recorded of a page since it was closed, and
`slipped` are the pages closed between a record and its service, or opened for an access that a full
access set (`MaxTracked`) dropped. An interval here starts
in a thread that holds the suite's lock, which is `SitesExclusive`; a program that
dereferences a null pointer is left out, and so are the allocator's locks, which a thread that faults in
`malloc` keeps (section 5).

### AllTest, AccessPatterns, IntervalTests

An interval is taken apart into the delivery of accesses, the test's `interval()`
and the ageing of the records (`stage`); within one, no event reaches the tests,
which is what `SuiteEvents` says, so the test's part is one action.
`registered` is the test that is compiled in; `guard_accesses` covers both ways in
which accesses are learnt: by faults, or from the pages' bits, where
`TouchedBy` is the code's rule (first resident page).

Rows are what their identity needs: a pointer, a page, the summary's counters.
Compressed sizes, byte sums and residency counts are left out, as are the
sets AllTest keeps for `TRACK_ACCESSES`, which nothing reads without it. The live and the
unaccessed objects, which are removed one by one, are tables of `StackMapOps`, as in the code: a removal
may hide a key behind it. `Without` is what the removals leave, in any order of the
removed. The accessed, written and read sets are only inserted into, copied and cleared, and
are plain sets; in the code they hold 100000 elements. The pages of an object are those `get_page_info()` lists
(`TestedHeap!PagesOf`): as many as its size fills, from the page of its first byte, so the end of
an object that begins inside a page may lie on one more, which is not listed. A pointer keeps its size when it is
handed out again. A walk over the records goes in any order (`SetToSeqs`), and what is resident is any set
of pages. `ticks` and `reported` are
histories against which the windows and totals are compared.

### PageTracking, Generational, OtherTests

The two tests run one after the other in an interval (`phase`). What `/proc` says is
`map`: the frame and the state of every virtual page, which may move, vanish or be
written between two intervals. A page's history belongs to its frame; `TrackAllocation`
handles one allocation, in any order, with the code's filter (pages absent, zero or seen
already) and its early return for a small object whose first page has been met (`PassedOver`); as no two pages have one frame, its pages are
recorded at once (`TrackPages`). `GenerationalRow` is the row as a
function of the ages. `past` records what each interval saw of a frame, `visits` the
intervals since an allocation's last report.

### HugePages

`huge_page_liveset` is a StackSet changed by block hooks in any thread with no lock,
while an interval walks it. The steps are therefore finer: `Insert` claims the slot,
`Load` and `StoreUp`/`StoreDown` are the two halves of `entries++`/`entries--`, a
walk takes a slot at a time and re-reads `entries` for each, and `Read` reads the
block's memory. `entries` wraps at `Wrap`, standing for 2^64. Reading a block that
was unmapped ends in the fault handler's `exit(1)`, `crashed`; a failed
`assert(entries <= max_size())` is `aborted`. Probe and claim are one step: the
unlocked probe of two insertions at the same slot is not modelled, as
2 MB-aligned addresses only collide modulo 30000 every 1875 blocks. Only one
interval runs at a time, which is `SitesExclusive`.

### BkBlocks, BkMalloc, Allocator

Memory is counted in units of 32 bytes and an address is an offset into its block.
`BkBlocks` has the three kinds of memory in a block as operators: slots with their
counters and region bits, chunks that are split and coalesced, bump space that is only
counted. `BkMalloc` has the threads: an allocation takes the lock of its size class
(`LockList`), walks the blocks (`AllocSlot`, `AllocChunk`, `AllocBump`), collects
garbage (`GcBlock`, `RemoveBlock`), takes a block from the reuse list in two steps
(`UnlinkReuse`, then the common counter) or maps one. Frees of slots take the lock of the
list; frees of chunks and bump memory take none, and are steps of their own between the
allocation's. `meta[b].zero` and `dirty[b]` are what the block believes and what its pages
hold; `madvise` refuses unaligned addresses (`Decommitted`). `live` are the program's objects
with what `ImplementsAllocator`, `CallocClean` and `UsableApart` need of them.
The constants describe a smaller block (16 units where the code has 65536, one or four
size classes); `AlignsAssumption` keeps to alignments for which a new block has room, as
beyond them the code returns no memory or memory of another block (section 5).

`BkHeaps` is `BK_GET_HEAP()` with its double-checked `is_valid`, heaps that are made in
the slot before they are initialized, and `bk_heap`/`bk_destroy_heap` over `HashTable`,
which grows through the prime sizes.

### StackVec, StackText, ReportFile

`StackVec` keeps all slots of the array, so an index or a `pop` out of range hands out what the
code's would; `VecIsSequence` compares each call with that on a bounded sequence, and says what one
out of range may reach. `StackText` has a text as a sequence of characters; `scan`, `trim`, `format` and the
conversions are loops over positions as in the code, each compared with what it should return. In
`ReportFile` one `write(2)` is one step; the program may stop after any of them and
start again over the same file, a cell may be written in part, and the file opened in
the mode `CompressionTest` uses or that of the others.

### MCParts

These parts, a StackMap without removals and the two tests of `OtherTests` share no state;
`part` picks one at the start and the others stay as they begin. The run's states
are the sum of the parts', not their product.


## 3. What the runs show

| Run | Instance | Shows |
|---|---|---|
| `StackMapCollide` | 3 slots, 4 keys, three of which share a slot, removals | counter and probe bound survive everything |
| `HooksHeap` | 2 threads, 2 heap pointers, 3 sites, room for 2 sites and 1 record in each | records against memory and announcements, at the limits; what a free can miss; implements `SuiteEvents` |
| `HooksProgress` | 2 threads, 1 heap and 1 mapped pointer, exit, fair | hooks return, the exit ends, the stray unlock |
| `IntervalTests` | 2 pointers sharing a page, one with an end on a page that is not listed, 2 pages, 3 windows, StackSets of 2, a CSV of 2 rows, row bound 0 | AllTest and AccessPatternTest |
| `HugePages` | 1 mapping thread, another for intervals, 3 blocks, 4 hooks, 2 intervals | the live set, and what a walk misses |
| `BkMalloc` | 2 threads, 1 user heap, 3 blocks of 16 units, small and big requests, aligned or not | a block's counters and place; `calloc`; implements `Allocator` |
| `Faults` | 2 threads, 2 objects and other memory on one page, three tests under three guards, fair | the handler against the intervals |
| `Parts` | see `MCParts` | StackMap without removals, the two tests of `OtherTests`, the containers, reports, heaps |
| `HooksCollide`, `TestsLiveObjects`, `BkRealloc`, `FaultsWoken` | | a documented claim the code does not keep (section 5) |

### Bounds, and why they are enough

- *Threads*: two where one is in an interval or a hook and the other gets in its way; a
  third can only repeat one of these roles, and `SitesExclusive`, the records and the handler's
  properties are proved for any number. `BkHeaps` has three, two of which share a CPU.
- *Pointers and sites*: two pointers make a reused address and a second one that it
  affects; three sites with room for two make the dropped site happen; `SiteSize = 2`
  makes a site full with the second record, since `update()` drops the record that
  would fill it. `HooksHeap` has no mapped pointers, because a record of one can outlive its
  memory (section 5); `HooksProgress` has one.
- *Missed frees*: `HooksHeap` does not hand out again an address whose free was missed (the constraint
  `MissedNotReused`); the other pointer lives on beside the record that was left. Reuse would make the run
  five times as large (3.7 million states, which satisfy the same properties); the theorems do not exclude it.
- *Pages*: with pages of 2 units and objects of 3 and 2 (`IntervalTests`), of 4 and 2 and 5 (`Parts`), one
  object has several pages, one begins inside a page and ends on the next, and they share a page.
- *StackSets* of `IntervalTests` have two slots and a hash under which the two pointers do not
  share one (`SlotsApart`); where they do `UnaccessedExact` is false (section 5).
- *Configurations of Faults*: each guard, tests that open, read and close in different ways, a working
  thread that allocates beside the objects or elsewhere, an allocator that writes beside them.
- *Table*: three keys sharing a slot of three make a chain that wraps around and
  that a removal can cut; the fourth finds the table full.
- *Counted up to a bound* (`MaxAge`, `MaxCalls`, `MaxTold`, `Windows + 1` for
  `ticks`): saturating counters. What is compared with them is smaller
  than the bound, or saturates at the same bound on both sides.
- *Cut off*: `MaxAllocated` (bytes a program allocates), `MaxIntervals`, `MaxHooks`, `MaxReports`,
  `MaxLive` (objects of a program on bkmalloc), `MaxFaults` (consecutive faults before the
  handler ends the program, 200 in the code), `MaxTracked` (addresses an access set holds, 100000 in
  the code).
  11 bytes of objects of 3 and 2, and 9 of objects of 2 and 5, let both pointers be allocated and
  freed and one be used again; two
  intervals and four hooks let a block be mapped, missed, aged and released while
  an interval walks; three reports span a crash, a restart and a flush; two faults
  are one that is served and one that is not; with `MaxTracked = 1` a second written address finds the
  set full. `HugePages` and `Parts` stop at such a bound
  and `Faults` when the handler ends the program: they, and `FaultsWoken`, say
  `CHECK_DEADLOCK FALSE`. The others always have a step.
- *Blocks*: 16 units of which 7 are chunks and 8 to 15 slots in regions of one, so that a
  slot region, a split and a coalesced chunk, and a full block all occur with two objects; a request
  of 9 is a big block of its own. A garbage collection decommits after one round and releases
  after two: a block is kept, reused before either, between them and after both.
- `Windows = 3` where the code has 6: a first, a middle and a last window behave
  differently; the theorem is for any number. `MaxObjectRows = 0` and
  `CSVLength = 2`: the row bound is passed and the CSV is flushed, not both in one table.
- *Texts* of up to 6 characters from a space, a percent sign, a directive's letter and another; numbers from
  -100 to 120 where an `int64_t` ends at 100: a directive at the start, the end and inside an argument,
  rounding up to a further digit, sizes that print as negative.
- *Symmetry* (threads and sites in `HooksHeap`, blocks and threads in `BkMalloc` and
  `BkRealloc`): the modules only compare them for equality. No liveness property is
  checked with it.

### Fairness

`HeapPulse!FairSpec` is weak fairness of `Hook(t)` for every thread: a thread that is inside a
hook is scheduled again. Nothing is assumed of the program (it need not allocate,
free or exit) nor of the clock (`PeriodElapses` may never happen). Weak
fairness says nothing about *who* gets a contended lock, as `std::mutex` does not
either: a free that waits for `bk_lock` can be overtaken for ever, and that every free
returns is not claimed.

`Faults!FaultsFairness` is weak fairness of the handler and of the interval's steps, and strong
fairness of three steps that others enable and disable: taking `protection_lock`,
seeing the flag down, and running an instruction again after its fault was served. An
interval comes every 15 seconds and a handler takes microseconds, so a waiting thread
does meet a free lock or a lowered flag, and the retried instruction does run before its page
is closed once more. Where the compiler makes the loop read the flag once there is no
step to be fair to (`FaultsWoken`).

## 4. What is proved

Checked by TLAPS for every value of the constants, under the modules' named
assumptions (what a constant's type is, pointers differ from the null value...).

- **StackMap** (`StackMapOpsProofs`, `PartsProofs`): `TypeOK`, `EntriesExact`,
  `ProbeComplete`, `IterationComplete`, for every table size, hash function and
  sequence of calls. The inductive invariant `MapInv` is
  `Exact`: well typed, and `entries = Cardinality(Occupied)`. The core is
  `ProbeEnds`: `n` occupied slots cannot fill `n + 1` consecutive ones, so a probe
  meets a free slot or its key within `entries` steps, below the bound `2 * entries` (with
  `entries = 0` the bound is 0 and the first slot is free). Hence the loop is never
  really cut, `put` and `get` claim free slots, and the counter stays exact. `IterationComplete`, that
  a walk which nobody disturbs meets every key, follows from `Exact` and is in no run.
  `MapIsImplemented` is `ImplementsMap`, the refinement of `AbstractMap`, under
  `RemovalsApart`: nothing is removed, or the hash is injective. Its invariant `ChainInv` adds
  `Chains`, every slot between a key's own and where it is held is occupied, and, where
  keys are removed, `AllHome`, each is in its own slot. Then `has()` finds exactly the keys that are held, each
  held once (`HeldFound`, `FoundHeld`), so the table is full with `Size` keys and not before
  (`HeldCounted`). With collisions and removals the refinement fails: section 5, 1.
- **Locks** (`HeapPulseProofs`): `SitesExclusive`, `LocksHeld`,
  `FlagsFollowInterval`, `NoUpdateInInterval`, `StrayUnlockHarmless`, for any
  threads, pointers and sites, assuming `CanExit = FALSE`: the last interval takes no lock
  (section 5), so with an exit they do not all hold. `LockInv` adds to `LocksHeld` and
  `FlagsFollowInterval` where a holder of the third lock can be (`HooksHeld`), that only frees
  go that way (`FreesOnly`), and the types of the control state.
- **Sites** (`HeapPulseProofs`): `TypeOK` and `SiteNeverFull`, exit or not.
  `SitesInv` says that each site's map is `Exact`, has a free slot, and that calls
  have the pointer and site their kind needs; it uses the table's lemmas through an
  instance of `StackMapOpsProofs`.
- **Records** (`HeapPulseProofs`): `TrackedLive`, `AnnouncedTracked`, `AgeNeverAhead` and
  `FreeAnnouncedOrMissed`, for any number of threads, pointers and sites, exit and quit included. They speak
  of the pointers that no free has missed, and assume
  `Alone`: no mapped pointers, and an injective hash. Both are needed: `HooksCollide` violates
  `FreeAnnounced` with a collision, and an munmap's record outlives its memory. With an injective
  hash a table is one slot per key (`ProbeIsHome`, `HasIsHome`), and `RecordsInv` says, beyond
  `SitesInv`, that keys are at home, that a call in a hook owns its pointer, that after
  a free's removal nothing of the pointer is left, that every record is of an allocation of its
  site, and that what was announced is what is held. After `quit` only `SitesInv` remains, as hooks then record nothing.
- **What a free misses** (`HeapPulseProofs`): `MissedAreLast`. A free that does not find its
  record has been overtaken by the put of a new site, and the record is in the last site of the
  table. `WalkInv` says that sites are counted but for one that a hook is about to count (`SitesPlaced`), and,
  for each thread in its walk (`WalkOK`), that it has passed all occupied slots before its own and seen that the
  pointer is in none of them, and counted no more of them than there are. It assumes `Alone` and that nobody
  exits, as an exit's interval changes records while others walk.
- **Refinement** (`HeapPulseProofs`): `ImplementsEvents`, for any number of threads, pointers and
  sites. It holds up to the first miss (`missed = {}`) and assumes `Steady`: `Alone`, no exit (its interval takes no lock) and no test that quits (the
  second report of a malloc that was announced would not come). Each step is one event for
  the tests or none. `EventsInv` adds `ReportsOK` to the records and the locks: a malloc's first
  report finds no record of its allocation, and once that is made the second finds room; so
  `update()` is never turned away, and at most one thread, the one that has `bk_lock`, owes a report.
- **Handler** (`PartsProofs`): `DeliveredOnce` from `HandlerInv` (who holds
  the lock, who runs the interval, at which stage); `DeadlockNeedsClosedPages` from it,
  `ClosedOnObjects` (only pages of objects are closed) and `RunnerReads` (which accesses the working thread makes
  at each stage): it waits for a lock whose holder waits for it only if the test reads what it has
  closed or its own memory is on a page of an object; `OpenedAreRecorded` from `OpenedInv`, which
  adds to it what a thread between recording and opening has left to do. For any threads,
  objects, pages and configurations, and access sets of any size.
- **Live set** (`HugePagesProofs`): `LivesetExact`, `CrashesNeedRelease`, `MissesBounded` and `AgesFollow` for any number of threads,
  blocks and intervals, under `OneMapper`: one mapping thread and an injective hash (with two mapping
  threads the counter is not exact, section 5). `HugeInv` says that keys are at home, that the set
  is the mapped blocks but for the one a hook is about, that the counter is one off only while
  that hook counts, that one thread walks, and that a release during the interval is noted.
  `AgesInv` adds the walk. What it has counted is ahead of the kept blocks behind it by at most one for
  each overlapping hook, and by one less while a hook still may take one out (`WalkLags`); as the
  counter that ends it lags by one at most, it passes all kept blocks but as many as hooks
  overlapped (`WalkPassed`). The blocks of the whole interval stay kept; each has a row once it is passed, and
  its age is that of a whole interval more (`AgeOK`). The bound on ages needs the part of the
  overlaps that belongs to earlier intervals, which `AgesFollow` does not tell apart.
- **Tests** (`IntervalTestsProofs`): `WindowsExact` and, under `SlotsApart` (no two pointers share a slot of a
  StackSet), `UnaccessedExact` for any number of windows,
  `PeriodsAddUp` for any sizes, `LiveNotUndercounted`, `ObjectsReported`, `PagesReportedOnce`,
  `GenerationsRight` and `PageRowsExact` for any finite set of allocations. `WindowInv` states `WindowsExact` as three families that each `Shows`
  a count of ticks, and the two lemmas say how insertion and a tick move
  it; `PeriodsInv` adds that all totals are numbers, `CountInv` that ages tell
  records from the rest; `UnaccessedInv` that each live set lies within the live objects and
  has every live object that its window has not seen touched or reported, so that what a row
  subtracts from is complete. The tables of AllTest (`RowsInv`) are folds over a walk in any order. A
  CSV has written out what it does not hold (`Met`), so no row is lost whatever its length; the walk meets each
  record once, and along the fold over pages `PagesMet` says that each page with a row is among those met, and has one.
  `GenInv` says for GenerationalTest that an age is the number of intervals since the last report,
  saturated, one behind `visits` while an interval runs, and that what was allocated less what was freed
  covers the records (a second report adds to it, so it may be more). The row then rests on three
  laws of sums, in `FoldLaws`: over all but one element, over a part, and of weights that add up.
  It assumes that the generations are among the ages that are told apart (1 to `MaxAge`).
  `PageInv` says for PageTrackingTest what a record `Carries` in mid-interval: the counts of the page's
  history, and this interval's sight of it if the page has been met. While the test is at work, the pages
  done are the resident ones listed for the allocations visited, each with its row (`TrackedSoFar`); as
  different pages have different frames, the two sets of pages done always agree, so the filter and
  the early return for small objects leave out nothing else that is listed. Ageing turns the sight into one more
  interval of the history (`OlderCarries`). It uses `GenInv` for the records staying while an interval runs.

- **Allocator** (`BkLemmas`, `BkMallocProofs`): for any number of threads, heaps, classes and blocks
  and any layout of a block that `GeometryAssumption`, `SizesAssumption`, `MallocAssumption` and
  `AlignsAssumption` allow. `HeapInv` is the inductive invariant: each call's record fits where it stands
  in the code; a list's lock is held exactly by the call that walks it, sweeps it or frees
  in it; an address has one holder, the program or a call under way (`HeldOnce`); a
  block is on one list, or retired, or in one call's hands (`Lists`, `AllPlaced`); and what
  a block records - regions and slots, chunks, bump offset and its two counts - matches the set of addresses held
  of it (`Contents`). The last is what `CountsExact` needs and does not say: the counts
  alone would let a slot be given twice. From it:
  - `CountsExact` and `BlocksPlaced`.
  - `ReuseCounted`, with `HeapSums`: a heap's bytes kept for reuse are those of its list, and the total is at
    least those of all lists and of the blocks that calls have unlinked and not yet taken off, and
    at most the maximum.
  - `CallocClean` (`CallocsAreClean`). `CleanInv` follows the pages from one use of a block to the
    next: a retired block that is said to be zero has no dirty page but perhaps its first
    (`RestClean`), which `bk_reset_block()` clears; the block a call prepares is as large as it asked
    (`TakenFits`), so what is dropped there is all the object gets; a calloc asks for no alignment
    (`AskedPlain`); and a big block a calloc was given has no dirty page where its object lies
    (`GivenClean`). It needs `HeapInv`: that a block is retired or in use and never both, and that a big block has one holder.
  - `ImplementsAllocator` (`HeapsAllocate`). `ClaimsFit` adds lengths to addresses: a claim ends in
    its slot, before the next chunk, or below the bump offset, and before the next claim in
    bump memory. So no two objects overlap, and a step gives one object, takes one back,
    moves one, or changes none. The theorem assumes `[][BumpsStay]_vars`: no `realloc` grows an object of bump memory in
    place. The code does so whenever the class is large enough (section 5, 3), and then
    `UsableApart` and with it this refinement fail; with one class of one unit, as in `BkMalloc`, no step does.

  `BkLemmas` has what these proofs ask of the model's operators: the sums of `FoldLaws` for the sizes in a
  list, and of `Without` that it is the list with one block left out. A fold is a CHOOSE of a function
  defined step by step; that one exists and is unique is shown on a smallest set for which it would not be.

- **Heaps of threads and names** (`PartsProofs`): `SlotHeapsShared` and `NamesKeepHeaps`, for any number of
  threads, CPUs, names and hash values. `HeapsInv` says who is inside which lock (`Locked`), that a slot
  that is not valid holds a heap only while the thread that put it there has the slot's lock
  (`Filled`), that a thread past its test is at a valid slot or on the way to the lock (`Given`),
  that a heap with a name is nobody else's (`Apart`), and that the table holds exactly the
  names with a heap (`Tabled`). `GoodTable` is what the table needs for that: each entry in the chain its
  hash says and no other of its key there. A rehash is two nested folds; by `FoldLaws` each is the last of
  its steps, and `Takes` says along them that the new table has gained just the entries carried over so
  far; as their keys differ from all it held before, none is lost or twice there. `TableAssumption` asks that the sizes grow by two and more, and
  that the largest has room for all names: `rehash()` does not look at the end of `ht_prime_sizes`.
- **StackVec** (`PartsProofs`): `VecIsSequence`, that push, pop and a write do what they do to a bounded
  sequence, for any capacity and values and after whatever appends and slices. `VecInv` is that the size stays
  within the capacity, which for `+=` and `slice()` is a property of a fold of `push`.

Only model-checked:

- liveness (`BkReleased`, `AllocReturns`, `ExitEnds`, `Served`): liveness and ENABLED are out of
  the prover's reach;
- `OperationsExact` and `FileReadsBack` of texts and files, which are about recursive operators.

## 5. Where code and documentation disagree

With a run:

1. `HooksCollide`, stack_map.hpp:110: `remove()` leaves no mark, so another key
   that probed past the slot is no longer found; its free is then not seen, and later
   intervals visit a record whose memory is gone.
2. `TestsLiveObjects`, heappulse.cpp:197: one malloc is announced twice and
   freed once, so "Live Objects" drifts upwards.
3. `BkRealloc`, bkmalloc.h:3825: the size of a bump object is taken to be that of its class, of
   which it has only the part it asked for; `realloc` leaves an object in place that then
   reaches into the next one.
4. `FaultsWoken`, interval_test.hpp:1456: `IS_PROTECTED` is a plain `bool`, and g++ 12 with `-O3` makes
   `while (IS_PROTECTED) {}` a jump to itself; the thread is never woken up.

Seen while modelling, without a run. In the hooks and the suite:

- A free's `contains()` has no lock (heappulse.cpp:372, interval_test.hpp:1062). While another thread puts
  a new site its slot is occupied (stack_map.hpp:59) before it is counted (60), and the walk that stops at the
  counter (191) may not reach the table's last site. The free then skips its invalidation, and the record stays,
  as in 1, with no collision. `MissedAreLast` says that nothing else is missed.
- munmap's hook runs after the unmapping, and its own `schedule()` may run an interval that
  still visits the record (bkmalloc.h:3985); it reports an address freed that another
  thread may meanwhile have been given (interval_test.hpp:848).
- The last interval takes no lock, so an update can be recorded during it
  (interval_test.hpp:1199).
- A malloc's second report makes its record new again if an interval came between
  (interval_test.hpp:521).
- `put` stores a key twice after a removal in its chain (stack_map.hpp:46).
- Block hooks of two threads lose a count; it passes below zero and the assertion of the
  next call fails (all.cpp:254). With one mapping thread it cannot: `LivesetExact`.

In the handler and its tests:

- The count of consecutive faults is never reset by a fault that is served (interval_test.hpp:1399): 200 faults on
  one address, over many intervals, end the program. Without a guard two threads that fault alternately reset
  each other's count and are neither served nor stopped.
- `protect_with_mprotect` leaves the last page of an unaligned object open (interval_test.hpp:592), and
  page_tracking.cpp:153 leaves open a page shared with a small object.
- A page that is closed between the record of a fault and its service stays open
  afterwards, unrecorded (`slipped`).
- `CompressionTest` closes an object to everyone and then reads it: with a thread in the spin
  loop both wait for ever (`ReadsClosed`).
- The working thread allocates while pages are closed (page_tracking.cpp:148, 151, 163 and 207). If that memory
  shares a page with an object it has closed, it faults and waits for `protection_lock` (interval_test.hpp:1418), whose
  holder may be in the spin loop (1456): both wait for ever, whatever the test reads. `Served` is
  therefore claimed of the configurations in which that memory lies apart; `DeadlockNeedsClosedPages` holds of all.
- Conversely a program thread that faults inside bkmalloc keeps the allocator's locks while it spins,
  and the working thread may want them. The model has no such locks.
- With 100000 addresses in an access set, or `MaxTracked`, the next access is dropped and its page opened all
  the same (interval_test.hpp:798).
- A fault in the middle of an object is recorded and then dropped (interval_test.hpp:1267).
- A failing write or read of `/proc` leaves `IS_PROTECTED` set (interval_test.hpp:226, 300).
- Bit 3 of kpageflags is not "referenced" (interval_test.hpp:372).

In the tests:

- Objects are removed from the live and the unaccessed StackSets one by one (access_patterns_test.cpp:346-351,
  452-480), and `remove()` hides keys that probed past (stack_map.hpp:106-117): with a shared slot a
  freed object stays live, or an accessed one unaccessed. `UnaccessedExact` excludes shared slots.
- `get_page_info()` lists as many pages as the size fills (interval_test.hpp:180-182, 276-283): the last page of an
  object that straddles one more boundary gets no row of its own. A small object is passed over as soon as its
  first page is tracked (page_tracking.cpp:153).
- "Bytes Unaccessed Last Five Intervals" is a number of objects
  (access_patterns_test.cpp:599); "any page" is the first resident page (414-420).
- A page's `write()` clears `read_only_after_initial_write` when the page is young, not when it is
  old (page_tracking.cpp:29); "Has New Objects?" is never reset and asks only the first object of a page.
- GenerationalTest counts a shared page once for each object, and full pages for objects of several.
- `++interval_count` stands in the argument of a logging macro (all.cpp:627); "Page Address" is never
  set (all.cpp:162).

In bkmalloc:

- A chunk is marked free before the block's "all used" flag is cleared, and an allocation may set
  the flag in between: the free chunk is lost (bkmalloc.h:3306). By
  the time the flag is cleared (3317) the block may have been retired: the model's write is harmless, and no property
  is about it.
- Bump memory of a dirty block that is used again is taken to be zero (3423), and a coalesced chunk has
  only its left part's flag: `calloc` may return memory that is not zero. `CallocClean` is
  therefore about slots and big blocks only.
- After a garbage collection that found nothing the allocation is not tried again; `bk_free_heap` does
  not reduce the bytes kept for reuse; `bk_destroy_heap` reads through a pointer that
  `hash_table_delete` has freed (3776); the `madvise` of an unaligned rest fails silently;
  `bk_calloc` (3933) ignores its count. Alignments of 1 MB and more return memory of another block, or none.
- The double-checked `is_valid` and `bk_is_initialized` are read unsynchronised.

In containers and reports:

- StackVec: a push on a full vector is dropped, a pop of an empty one and an index out of range
  return some slot; copies between sizes take the other's capacity.
- StackString: 0 in radix 16 is empty; the most negative number overflows; sizes of 2^63
  and more print as negative; `to_number` ignores its radix; a leading space gives `scan` an
  empty first word; "%%" takes an argument; `ftoa` prints "0.0" for all negative numbers.
- StackCSV: `operator[]` beyond the last row never returns; commas are not quoted. StackFile: a short write is
  not retried. CompressionTest writes the rows of all earlier intervals
  again at each one (compression_test.cpp:239).

## 6. Not modelled

- *Page information*: reads of `/proc`; the models choose what they return.
- *Compressor, logging, backtraces*: no control flow of interest.
- *libc backend*: disabled.
- *Notebooks, data, scripts, test programs*: they read the reports or are traced.
- *Parts of modelled components*: the hooks' statistics; `add_test` and `sanity_check`, which run before the
  program; what `TRACK_ACCESSES` adds to AllTest; compressed sizes and byte sums of rows; sorting and
  copies of a StackVec, and BitVec; options, logging, large alignments and the internal heap of
  bkmalloc. The tests not named in section 1 keep nothing, or what AccessPatternTest keeps.

## 7. Plan

Done, in this order: StackMap with its proofs; hooks and suite; the lock and
site theorems; `SuiteEvents` and the refinement; the two tests on it; the live set
of blocks; the tests' theorems; bkmalloc's blocks, heaps and the abstract allocator; the
fault handler with its proofs; the other tests; containers and reports; the theorems about
records and the live set; the proof that `HeapPulse` implements `SuiteEvents`; the allocator's
counts, places, retired bytes, clean pages, and that it implements `Allocator`; the rows and ages of the live
set, the unaccessed rows of the other tests; the refinement of `AbstractMap`; the heaps of threads and names, the
vector; the tables of AllTest, the generations, and the rows and histories of pages. Left:

1. Records of mapped memory in the proofs: what an munmap's record can be, rather than that
   there is none.
2. Bounded accessed, written and read sets for AccessPatternTest, and its byte sums.
3. The page arithmetic and the failures of Page information.

## Running

    tlc -config HooksHeap.cfg MCHeapPulse
    tlapm HeapPulseProofs.tla

Each run's module, cfg and properties are in `PROJECT.json`; each property has there a
mutant, a plausible mistake in a definition that breaks it.
