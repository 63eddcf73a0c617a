----------------------------- MODULE HugePages -----------------------------
(***************************************************************************)
(* AllTest's live set of huge pages, huge_page_liveset                     *)
(* (src/src/intervals/all.cpp), a StackSet of the blocks that bkmalloc has *)
(* mapped.  The block hooks (src/src/heappulse.cpp) insert and remove      *)
(* blocks without any lock, in every thread that maps for its own heap,    *)
(* and the test's interval walks the set slot by slot in one of them: once *)
(* for the rows, reading each block's memory to compress it, and once to   *)
(* age the blocks.  The steps are those at which another thread can see or *)
(* change something: the slot, the two halves of entries++ and entries--,  *)
(* each slot of a walk, the read of a block.                               *)
(*                                                                         *)
(* A definition D_xyz is D with a plausible mistake in it.  Nothing uses   *)
(* it; PROJECT.json names the mistake that breaks each property.           *)
(***************************************************************************)
EXTENDS Integers, FiniteSets

CONSTANTS
  Threads,
  Mappers,      \* the threads that map and release blocks
  Blocks,       \* the addresses of blocks
  Capacity,     \* slots of the set (30000)
  Home,         \* Home[b]: std::hash of b, modulo Capacity
  MaxIntervals, \* intervals a run goes through
  MaxHooks,     \* block hooks a run goes through
  Wrap,         \* size_t is counted modulo Wrap (2^64)
  NoBlock       \* no block, and a free slot

ASSUME MappersAssumption == Mappers \subseteq Threads
ASSUME CapacityAssumption == Capacity \in Nat \ {0} /\ Wrap \in Nat /\ Capacity < Wrap
ASSUME HomeAssumption == Home \in [Blocks -> 0 .. Capacity - 1]
ASSUME BoundsAssumption == MaxIntervals \in Nat /\ MaxHooks \in Nat
ASSUME NoBlockAssumption == NoBlock \notin Blocks

VARIABLES
  mapped,   \* the blocks that are mapped
  liveset,  \* huge_page_liveset; the value of a slot is the page's age
  pc,       \* where each thread is
  block,    \* the block its hook is about
  loaded,   \* the entries it read to count up or down
  walk,     \* the interval's walk: next slot, slots handed over, the block being read
  rows,     \* the blocks reported in the interval
  aborted,  \* assert(entries <= max_size()) failed
  crashed,  \* the interval read memory that was not mapped
  intervals, hooks,  \* counted up to their bounds
  throughout,        \* history: blocks in the set for the whole interval so far
  overlap, overlaps, \* history: hooks during the interval, during all of them
  released,          \* history: a release was under way in the interval
  ticks              \* history: whole intervals that each block lived through

vars == <<mapped, liveset, pc, block, loaded, walk, rows, aborted, crashed,
          intervals, hooks, throughout, overlap, overlaps, released, ticks>>

Ages == 0 .. MaxIntervals

Set == INSTANCE StackMapOps WITH
         Size <- Capacity, Keys <- Blocks, Values <- Ages, Zero <- 0, Hash <- Home, Free <- NoBlock

Inserting == {"insert", "load_up", "store_up"}
Removing  == {"remove", "load_down", "store_down", "unmap"}
Walking   == {"rows", "read", "ticks"}

InHook(t) == pc[t] \in Inserting \cup Removing

Interval == \E t \in Threads : pc[t] \in Walking

\* The blocks whose insertion is complete and whose removal has not begun.
Live == {b \in mapped : \A t \in Threads : block[t] # b}

Init ==
  /\ mapped = {}
  /\ liveset = Set!EmptyMap
  /\ pc = [t \in Threads |-> "run"]
  /\ block = [t \in Threads |-> NoBlock]
  /\ loaded = [t \in Threads |-> 0]
  /\ walk = [slot |-> 0, met |-> 0, page |-> NoBlock]
  /\ rows = {}
  /\ aborted = FALSE /\ crashed = FALSE
  /\ intervals = 0 /\ hooks = 0
  /\ throughout = {} /\ overlap = 0 /\ overlaps = 0 /\ released = FALSE
  /\ ticks = [b \in Blocks |-> 0]

history == <<throughout, overlap, overlaps, released, ticks>>
walk_vars == <<walk, rows, crashed, intervals>>

Goto(t, label) == pc' = [pc EXCEPT ![t] = label]

\* A hook about b begins in t.
StartHook(t, b, label) ==
  /\ ~aborted /\ ~crashed
  /\ t \in Mappers /\ pc[t] = "run" /\ hooks < MaxHooks
  /\ hooks' = hooks + 1
  /\ block' = [block EXCEPT ![t] = b]
  /\ Goto(t, label)
  /\ IF Interval
     THEN overlap' = overlap + 1 /\ overlaps' = overlaps + 1
     ELSE UNCHANGED <<overlap, overlaps>>

---------------------------------------------------------------------------
(* bk_make_block, bk_release_block and their hooks                         *)

\* The pages are there before the hook runs.
MapBlock(t) ==
  \E b \in Blocks \ mapped :
    /\ StartHook(t, b, "insert")
    /\ mapped' = mapped \cup {b}
    /\ ticks' = [ticks EXCEPT ![b] = 0]
    /\ UNCHANGED <<liveset, loaded, walk_vars, aborted, throughout, released>>

\* The hook runs before the pages go.
ReleaseBlock(t) ==
  \E b \in Live :
    /\ StartHook(t, b, "remove")
    /\ throughout' = throughout \ {b}
    /\ released' = (released \/ Interval)
    /\ UNCHANGED <<mapped, liveset, loaded, walk_vars, aborted, ticks>>

Step(t, label) == ~aborted /\ ~crashed /\ pc[t] = label

\* Every num_entries() asserts.
Sane == liveset.entries <= Capacity

\* StackSet::insert: probe, and claim the slot; counting comes after.
Insert(t) ==
  /\ Step(t, "insert")
  /\ aborted' = ~Sane
  /\ IF ~Sane \/ Set!Full(liveset)
     THEN /\ Goto(t, "run") /\ block' = [block EXCEPT ![t] = NoBlock]
          /\ UNCHANGED liveset
     ELSE /\ liveset' = [Set!Put(liveset, block[t], 0) EXCEPT !.entries = liveset.entries]
          /\ IF Set!Has(liveset, block[t])
             THEN Goto(t, "run") /\ block' = [block EXCEPT ![t] = NoBlock]
             ELSE Goto(t, "load_up") /\ UNCHANGED block
  /\ UNCHANGED <<mapped, loaded, walk_vars, hooks, history>>

Remove_NotInInterval(t) ==
  /\ Step(t, "remove")
  /\ IF Interval
     THEN Goto(t, "unmap") /\ UNCHANGED liveset
     ELSE /\ liveset' = [Set!RemoveMap(liveset, block[t]) EXCEPT !.entries = liveset.entries]
          /\ Goto(t, IF liveset' = liveset THEN "unmap" ELSE "load_down")
  /\ UNCHANGED <<mapped, block, loaded, walk_vars, aborted, hooks, history>>

\* StackSet::remove: probe, and free the slot, if the block is found.
Remove(t) ==
  /\ Step(t, "remove")
  /\ liveset' = [Set!RemoveMap(liveset, block[t]) EXCEPT !.entries = liveset.entries]
  /\ Goto(t, IF liveset' = liveset THEN "unmap" ELSE "load_down")
  /\ UNCHANGED <<mapped, block, loaded, walk_vars, aborted, hooks, history>>

\* The first half of entries++ and entries--.
Load(t) ==
  /\ \/ Step(t, "load_up") /\ Goto(t, "store_up")
     \/ Step(t, "load_down") /\ Goto(t, "store_down")
  /\ loaded' = [loaded EXCEPT ![t] = liveset.entries]
  /\ UNCHANGED <<mapped, liveset, block, walk_vars, aborted, hooks, history>>

\* The second half.
StoreUp(t) ==
  /\ Step(t, "store_up")
  /\ liveset' = [liveset EXCEPT !.entries = (loaded[t] + 1) % Wrap]
  /\ Goto(t, "run") /\ block' = [block EXCEPT ![t] = NoBlock]
  /\ UNCHANGED <<mapped, loaded, walk_vars, aborted, hooks, history>>

StoreDown_Nothing(t) ==
  /\ Step(t, "store_down")
  /\ Goto(t, "unmap")
  /\ UNCHANGED <<mapped, liveset, block, loaded, walk_vars, aborted, hooks, history>>

StoreDown(t) ==
  /\ Step(t, "store_down")
  /\ liveset' = [liveset EXCEPT !.entries = (loaded[t] - 1) % Wrap]
  /\ Goto(t, "unmap")
  /\ UNCHANGED <<mapped, block, loaded, walk_vars, aborted, hooks, history>>

Unmap(t) ==
  /\ Step(t, "unmap")
  /\ mapped' = mapped \ {block[t]}
  /\ Goto(t, "run") /\ block' = [block EXCEPT ![t] = NoBlock]
  /\ UNCHANGED <<liveset, loaded, walk_vars, aborted, hooks, history>>

---------------------------------------------------------------------------
(* AllTest::interval                                                       *)

\* The suite runs one interval at a time.
Begin(t) ==
  /\ ~aborted /\ ~crashed
  /\ pc[t] = "run" /\ ~Interval /\ intervals < MaxIntervals
  /\ intervals' = intervals + 1
  /\ walk' = [slot |-> 0, met |-> 0, page |-> NoBlock]
  /\ rows' = {}
  /\ throughout' = {liveset.key[i] : i \in Set!Occupied(liveset)}
                      \ {block[u] : u \in {v \in Threads : pc[v] \in Removing}}
  /\ overlap' = Cardinality({u \in Threads : InHook(u)})
  /\ overlaps' = overlaps + overlap'
  /\ released' = (\E u \in Threads : pc[u] \in Removing)
  /\ Goto(t, "rows")
  /\ UNCHANGED <<mapped, liveset, block, loaded, aborted, crashed, hooks, ticks>>

GoesOn_OneShort == walk.slot < Capacity /\ walk.met + 1 < liveset.entries

\* The condition of map()'s loop, which reads entries anew at each slot.
GoesOn == walk.slot < Capacity /\ walk.met < liveset.entries

\* The walk asserts where it reads num_entries().
Asserts == aborted' = (walk.slot < Capacity /\ ~Sane)

Page == liveset.key[walk.slot]

\* One slot of track_huge_pages: a row for an occupied one.
RowOf(t) ==
  /\ Step(t, "rows") /\ GoesOn
  /\ Asserts
  /\ IF Page = NoBlock
     THEN walk' = [walk EXCEPT !.slot = @ + 1] /\ UNCHANGED <<rows, pc>>
     ELSE /\ walk' = [slot |-> walk.slot + 1, met |-> walk.met + 1, page |-> Page]
          /\ rows' = rows \cup {Page}
          /\ Goto(t, "read")
  /\ UNCHANGED <<mapped, liveset, block, loaded, crashed, intervals, hooks, history>>

\* Compressing the page reads its memory.
Read(t) ==
  /\ Step(t, "read")
  /\ crashed' = (walk.page \notin mapped)
  /\ walk' = [walk EXCEPT !.page = NoBlock]
  /\ Goto(t, "rows")
  /\ UNCHANGED <<mapped, liveset, block, loaded, rows, aborted, intervals, hooks, history>>

RowsDone(t) ==
  /\ Step(t, "rows") /\ ~GoesOn
  /\ Asserts
  /\ walk' = [slot |-> 0, met |-> 0, page |-> NoBlock]
  /\ Goto(t, "ticks")
  /\ UNCHANGED <<mapped, liveset, block, loaded, rows, crashed, intervals, hooks, history>>

Aged_Twice(age) == age + 2

\* HugePage::tick_age
Aged(age) == age + 1

\* One slot of the walk that ages the pages.
TickOf(t) ==
  /\ Step(t, "ticks") /\ GoesOn
  /\ Asserts
  /\ IF Page = NoBlock
     THEN walk' = [walk EXCEPT !.slot = @ + 1] /\ UNCHANGED liveset
     ELSE /\ walk' = [walk EXCEPT !.slot = @ + 1, !.met = @ + 1]
          /\ liveset' = [liveset EXCEPT !.value[walk.slot] = Aged(@)]
  /\ UNCHANGED <<mapped, pc, block, loaded, rows, crashed, intervals, hooks, history>>

End(t) ==
  /\ Step(t, "ticks") /\ ~GoesOn
  /\ Asserts
  /\ walk' = [slot |-> 0, met |-> 0, page |-> NoBlock]
  /\ ticks' = [b \in Blocks |-> IF b \in throughout THEN ticks[b] + 1 ELSE ticks[b]]
  /\ Goto(t, "run")
  /\ UNCHANGED <<mapped, liveset, block, loaded, rows, crashed, intervals, hooks,
                 throughout, overlap, overlaps, released>>

Next ==
  \E t \in Threads :
    \/ MapBlock(t) \/ ReleaseBlock(t)
    \/ Insert(t) \/ Remove(t) \/ Load(t) \/ StoreUp(t) \/ StoreDown(t) \/ Unmap(t)
    \/ Begin(t) \/ RowOf(t) \/ Read(t) \/ RowsDone(t) \/ TickOf(t) \/ End(t)

Spec == Init /\ [][Next]_vars

---------------------------------------------------------------------------
(* Properties                                                              *)

Quiet == \A t \in Threads : ~InHook(t)

\* With one thread mapping at a time, the set holds exactly the mapped
\* blocks whenever no hook is under way, and its counter their number, as
\* the column "Live Huge Pages (2MB)" says (all.cpp:601).
LivesetExact ==
  Quiet =>
    /\ {liveset.key[i] : i \in Set!Occupied(liveset)} = mapped
    /\ liveset.entries = Cardinality(mapped)

\* The rows miss at most one live block for each hook that ran meanwhile
\* (all.cpp:440): the counter that ends the walk lags behind the slots.
MissesBounded ==
  (\E t \in Threads : pc[t] = "ticks") => Cardinality(throughout \ rows) <= overlap

\* A block's age is the number of intervals it lived through, one more if
\* it was mapped during an interval, and one less at most for each hook
\* that an interval overlapped (all.cpp:653).
AgesFollow ==
  \A i \in Set!Occupied(liveset) :
    LET b == liveset.key[i] IN
    ~Interval /\ b \in Live =>
      /\ liveset.value[i] <= ticks[b] + 1
      /\ liveset.value[i] >= ticks[b] - overlaps

\* The interval reads a block that is gone only when its release began or
\* was under way during the interval: no stale block stays in the set
\* (bkmalloc.h:2726, all.cpp:451).
CrashesNeedRelease == crashed => released
=============================================================================
