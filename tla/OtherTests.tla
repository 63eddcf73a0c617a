----------------------------- MODULE OtherTests -----------------------------
(***************************************************************************)
(* PageTrackingTest and GenerationalTest at work on SuiteEvents, what the  *)
(* interval test suite promises its tests.  config.hpp can compile both    *)
(* in; the suite then runs them one after the other.                       *)
(***************************************************************************)
EXTENDS TestedHeap, SequencesExt

CONSTANTS
  Frames,              \* physical pages
  Generations,         \* 2, 4, 8, 10, 16, 24, 32
  Mappings,            \* what /proc may say: records [frame, state]
  MaxIntervals         \* intervals are counted up to this bound

ASSUME OtherTestsAssumption ==
  /\ MaxIntervals \in Nat
  /\ Generations \subseteq 1 .. MaxAge
  /\ \A map \in Mappings :
       /\ map.frame \in [Pages -> Frames] /\ \A v, w \in Pages : v # w => map.frame[v] # map.frame[w]
       /\ map.state \in [Pages -> {"absent", "zero", "clean", "dirty"}]

VARIABLES
  phase,           \* how far the interval has come
  interval_count,
  tracking,        \* PageTrackingTest: the histories of physical pages
  done,            \*   tracked_virtual_pages and tracked_physical_pages
  page_rows,       \*   the rows of the running interval
  totals,          \* GenerationalTest
  gen_row,             \*   its row
  left,            \* the allocations a test has still to visit
  map,             \* what /proc says in this interval: the frame and the state
                   \* of a virtual page
  past,            \* history: what each interval saw of a physical page
  visits           \* history: intervals begun since p was last reported

Tracking == INSTANCE PageTracking
Gen == INSTANCE Generational

other_vars == <<event_vars, phase, interval_count, tracking, done, page_rows, totals, gen_row,
                left, map, past, visits>>

NothingDone == [virtual |-> {}, physical |-> {}]

NoPages == [v \in Pages |-> "absent"]

SomeMapping == CHOOSE mapping \in Mappings : TRUE

OtherInit ==
  /\ EventsInit
  /\ phase = "idle" /\ interval_count = 0
  /\ tracking = <<>> /\ done = NothingDone /\ page_rows = <<>>
  /\ totals = Gen!Totals
  /\ gen_row = Gen!GenerationalRow(Gen!Totals, age, {}, NoPages)
  /\ left = {}
  /\ map = SomeMapping
  /\ past = [f \in Frames |-> <<>>] /\ visits = [p \in Ptrs |-> 0]

test_vars == <<phase, interval_count, tracking, done, page_rows, gen_row, left, map, past>>

HearAllocation(p) ==
  /\ IF told[p] = 0 THEN announce(p) ELSE announce_again /\ pending = p
  /\ totals.total_memory_allocated + SizeOf[p] <= MaxAllocated
  /\ totals' = Gen!on_alloc(totals, p)
  /\ visits' = [visits EXCEPT ![p] = 0]
  /\ UNCHANGED test_vars

HearRelease(p) ==
  /\ retract(p)
  /\ totals' = Gen!on_free(totals, p)
  /\ UNCHANGED <<test_vars, visits>>

\* ++interval_count, and a /proc that may have moved, dropped, dirtied or
\* cleaned any page since the last interval.
BeginInterval ==
  /\ begin
  /\ interval_count < MaxIntervals
  /\ interval_count' = interval_count + 1
  /\ phase' = "tracking"
  /\ done' = NothingDone /\ page_rows' = <<>>
  /\ left' = Recorded
  /\ visits' = [p \in Ptrs |-> IF p \in Recorded THEN visits[p] + 1 ELSE visits[p]]
  /\ map' \in Mappings
  /\ UNCHANGED <<tracking, totals, gen_row, past>>

\* PageTrackingTest comes to an allocation.
TrackAllocation(p) ==
  /\ phase = "tracking"
  /\ p \in left
  /\ left' = left \ {p}
  /\ LET small == SizeOf[p] <= PAGE_SIZE
         pages == IF Tracking!PassedOver(PageOf(Address[p]), small, done) THEN {}
                  ELSE Tracking!Untracked(PagesOf[p], map.frame, map.state, done)
     IN /\ tracking' = Tracking!TrackPages(tracking, pages, map.frame, map.state, interval_count, age[p] = 0)
        /\ page_rows' = page_rows \o
             SetToSeq({Tracking!PageRow(tracking', map.frame[v], interval_count) : v \in pages})
        /\ done' = [virtual |-> done.virtual \cup pages,
                    physical |-> done.physical \cup {map.frame[v] : v \in pages}]
  /\ UNCHANGED <<event_vars, phase, interval_count, totals, gen_row, map, past, visits>>

Seen(f) ==
  IF f \notin done.physical THEN "away"
  ELSE map.state[CHOOSE v \in Pages : map.frame[v] = f]

FinishTracking ==
  /\ phase = "tracking"
  /\ left = {}
  /\ tracking' = Tracking!age_all_pages(tracking)
  /\ past' = [f \in Frames |-> IF f \in DOMAIN tracking THEN Append(past[f], Seen(f)) ELSE <<>>]
  /\ phase' = "generational"
  /\ UNCHANGED <<event_vars, interval_count, done, page_rows, totals, gen_row, left, map, visits>>

\* GenerationalTest's interval: the sums, the row, finish_interval().
SumGenerations ==
  /\ phase = "generational"
  /\ gen_row' = Gen!GenerationalRow(totals, age, Recorded, map.state)
  /\ totals' = Gen!finish_interval(totals)
  /\ phase' = "ending"
  /\ UNCHANGED <<event_vars, interval_count, tracking, done, page_rows, left, map, past, visits>>

\* What an interval leaves behind is forgotten with it.
EndInterval ==
  /\ phase = "ending"
  /\ end
  /\ phase' = "idle"
  /\ gen_row' = Gen!GenerationalRow(Gen!Totals, age, {}, NoPages)
  /\ done' = NothingDone /\ page_rows' = <<>>
  /\ map' = SomeMapping
  /\ UNCHANGED <<interval_count, tracking, totals, left, past, visits>>

OtherNext ==
  \/ \E p \in Ptrs : HearAllocation(p) \/ HearRelease(p) \/ TrackAllocation(p)
  \/ BeginInterval \/ FinishTracking \/ SumGenerations \/ EndInterval

OtherSpec == OtherInit /\ [][OtherNext]_other_vars
=============================================================================
