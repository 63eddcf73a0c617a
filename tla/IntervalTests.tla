--------------------------- MODULE IntervalTests ---------------------------
(***************************************************************************)
(* The interval tests at work: SuiteEvents, what the suite promises them,  *)
(* composed with AllTest and AccessPatternTest.  config.hpp selects a test *)
(* by a macro, and with it whether accesses are delivered by page faults   *)
(* (GUARD_ACCESSES); registered and guard_accesses are that choice.        *)
(***************************************************************************)
EXTENDS TestedHeap, Sequences

CONSTANTS CSVLength, MaxObjectRows, Windows, SetSize, PtrHash

ASSUME LengthsAssumption == CSVLength \in Nat \ {0} /\ MaxObjectRows \in Nat
ASSUME WindowsAssumption == Windows \in Nat \ {0}
ASSUME SetsAssumption == SetSize \in Nat \ {0} /\ PtrHash \in [Ptrs -> 0 .. SetSize - 1]

VARIABLES
  registered, guard_accesses,                            \* config.hpp
  stage,                    \* how far interval() has come
  counters, object_file, page_file, interval_file,       \* AllTest
  accessed, write_accessed, read_accessed, live, unaccessed,  \* AccessPatternTest
  reported,      \* history: bytes the summary rows add up to
  alloced,       \* history: bytes on_alloc was called for
  ticks,         \* history: ticks since p was last touched, written, read,
                 \* and since it was first reported
  dropped        \* history: allocations reported but not recorded

All == INSTANCE AllTest
Access == INSTANCE AccessPatterns
Counters == INSTANCE TestCounters

config == <<registered, guard_accesses>>
all_vars == <<counters, object_file, page_file, interval_file>>
access_vars == <<accessed, write_accessed, read_accessed, live, unaccessed>>
history == <<reported, alloced, ticks, dropped>>
vars == <<event_vars, config, stage, all_vars, access_vars, history>>

Tests == {"AllTest", "AccessPatternTest"}

Init ==
  /\ EventsInit
  /\ registered \in Tests
  /\ guard_accesses \in BOOLEAN
  /\ stage = "idle"
  /\ All!AllInit
  /\ Access!AccessInit
  /\ reported = [allocated |-> 0, freed |-> 0]
  /\ alloced = 0
  /\ ticks = [p \in Ptrs |-> [touch |-> Windows + 1, write |-> Windows + 1, read |-> Windows + 1,
                              birth |-> 0]]
  /\ dropped = {}

\* The tests of one kind hear of an event, the other kind is not compiled in.
HearAlloc(p) ==
  IF registered = "AllTest"
  THEN All!on_alloc(p) /\ UNCHANGED access_vars
  ELSE Access!on_alloc(p) /\ UNCHANGED all_vars

HearFree(p) ==
  IF registered = "AllTest"
  THEN All!on_free(p) /\ UNCHANGED access_vars
  ELSE Access!on_free(p) /\ UNCHANGED all_vars

\* The history of a report: AllTest's is in bytes, AccessPatternTest's in
\* intervals.
Count(p) ==
  /\ alloced + SizeOf[p] <= MaxAllocated
  /\ dropped' = IF age'[p] = Gone THEN dropped \cup {p} ELSE dropped \ {p}
  /\ IF registered = "AllTest"
     THEN alloced' = alloced + SizeOf[p] /\ UNCHANGED ticks
     ELSE /\ ticks' = [ticks EXCEPT ![p] = [touch |-> 0, write |-> 0, read |-> 0,
                          birth |-> IF told[p] = 0 THEN 0 ELSE @.birth]]
          /\ UNCHANGED alloced
  /\ UNCHANGED reported

Announce(p) ==
  /\ announce(p) /\ HearAlloc(p) /\ Count(p)
  /\ UNCHANGED <<config, stage>>

AnnounceAgain ==
  /\ announce_again /\ HearAlloc(pending) /\ Count(pending)
  /\ UNCHANGED <<config, stage>>

Retract(p) ==
  /\ retract(p) /\ HearFree(p)
  /\ UNCHANGED <<config, stage, history>>

---------------------------------------------------------------------------
(* IntervalTestSuite::interval                                             *)

Begin ==
  /\ begin
  /\ stage' = "accesses"
  /\ UNCHANGED <<config, all_vars, access_vars, history>>

Touch(written, read) ==
  [p \in Ptrs |->
     [ticks[p] EXCEPT !.touch = IF p \in written \cup read THEN 0 ELSE @,
                      !.write = IF p \in written THEN 0 ELSE @,
                      !.read  = IF p \in read THEN 0 ELSE @]]

\* Without GUARD_ACCESSES nothing is protected, and no access faults.
Delivered == IF guard_accesses THEN Recorded ELSE {}

\* The recorded faults are delivered, first all writes and then all reads,
\* and forgotten.  Only an access to the first byte of a recorded object
\* finds its record.
DeliverAccesses ==
  /\ stage = "accesses"
  /\ \E written \in SUBSET Delivered : \E read \in SUBSET Delivered :
       IF registered = "AccessPatternTest"
       THEN Access!on_access(written, read) /\ ticks' = Touch(written, read)
       ELSE UNCHANGED <<access_vars, ticks>>
  /\ stage' = "tests"
  /\ UNCHANGED <<event_vars, config, all_vars, reported, alloced, dropped>>

RunAllTest ==
  /\ stage = "tests" /\ registered = "AllTest"
  /\ All!interval(Recorded)
  /\ reported' = [allocated |-> reported.allocated + interval_file'[1].allocated,
                  freed     |-> reported.freed + interval_file'[1].freed]
  /\ stage' = "written"
  /\ UNCHANGED <<event_vars, config, access_vars, alloced, ticks, dropped>>

Later(n) == Saturated(n + 1, Windows + 1)

\* When faults do not deliver the accesses, track_accesses looks at the
\* pages' bits.  A page both written and read counts as written.
RunAccessPatternTest ==
  /\ stage = "tests" /\ registered = "AccessPatternTest"
  /\ \E resident \in SUBSET (IF guard_accesses THEN {} ELSE Pages) :
     \E dirty \in SUBSET resident : \E referenced \in SUBSET resident :
       LET written == Access!TouchedBy(Recorded, resident, dirty)
           read    == Access!TouchedBy(Recorded, resident, referenced) \ written
           seen    == Touch(written, read)
       IN /\ Access!interval(written, read)
          /\ ticks' = [p \in Ptrs |-> [touch |-> Later(seen[p].touch),
                                       write |-> Later(seen[p].write),
                                       read  |-> Later(seen[p].read),
                                       birth |-> Later(seen[p].birth)]]
  /\ stage' = "written"
  /\ UNCHANGED <<event_vars, config, all_vars, reported, alloced, dropped>>

\* The rest of interval(): every record ages.
End ==
  /\ stage = "written"
  /\ end
  /\ stage' = "idle"
  /\ All!ForgetRows
  /\ Access!ForgetRow
  /\ UNCHANGED <<config, history>>

Next ==
  \/ \E p \in Ptrs : Announce(p) \/ Retract(p)
  \/ AnnounceAgain \/ Begin \/ DeliverAccesses \/ RunAllTest \/ RunAccessPatternTest \/ End

Spec == Init /\ [][Next]_vars

---------------------------------------------------------------------------
(* Properties                                                              *)

\* The periods add up: what the summary rows say was allocated and freed in
\* each interval, and what has been since, is what has been in all
\* (all.cpp:618-621, 354), although reports and frees fall between a row
\* and the reset, and a malloc's two reports into two periods.
PeriodsAddUp ==
  /\ counters.total_memory_allocated = alloced
  /\ counters.total_memory_allocated =
       reported.allocated + counters.memory_allocated_since_last_interval
  /\ counters.total_memory_freed =
       reported.freed + counters.memory_freed_since_last_interval
  /\ counters.total_bytes_live =
       counters.total_memory_allocated - counters.total_memory_freed

\* The live objects of the summary are never fewer than the records the
\* same interval prints (all.cpp:599, 555).
LiveNotUndercounted ==
  registered = "AllTest" => counters.total_objects_live >= Cardinality(Recorded)

\* Every record gets exactly one row, up to the bound on their number, and
\* no row is lost to a CSV smaller than the table (all.cpp:557, 586).
ObjectsReported ==
  registered = "AllTest" /\ stage = "written" =>
    LET rows == {object_file[i] : i \in DOMAIN object_file} IN
    /\ Len(object_file) = Cardinality(rows)
    /\ rows \subseteq Recorded
    /\ Len(object_file) = IF Cardinality(Recorded) <= MaxObjectRows + 1
                          THEN Cardinality(Recorded) ELSE MaxObjectRows + 1

\* A page that several objects share gets one row (all.cpp:512), whatever
\* the CSV's length, and every row's page is listed for its object.
PagesReportedOnce ==
  stage = "written" =>
    /\ \A i, j \in DOMAIN page_file :
         page_file[i].page = page_file[j].page => i = j
    /\ \A i \in DOMAIN page_file :
         /\ page_file[i].object \in Recorded
         /\ page_file[i].page \in PagesOf[page_file[i].object]

\* Each family's k-th set holds exactly what was accessed, or allocated, in
\* the last k intervals (access_patterns_test.cpp:32-51).
WindowsExact ==
  registered = "AccessPatternTest" =>
    \A k \in Access!Window : \A p \in Ptrs :
      /\ p \in accessed[k] <=> ticks[p].touch < k
      /\ p \in write_accessed[k] <=> ticks[p].write < k
      /\ p \in read_accessed[k] <=> ticks[p].read < k

\* No two objects hash to the same slot of a StackSet.
SlotsApart == \A p, q \in Ptrs : PtrHash[p] = PtrHash[q] => p = q

\* Where no two objects hash to the same slot, an object is called
\* unaccessed in the last k intervals exactly if it is live and was neither
\* touched nor reported in any of them: an address freed and handed out
\* again starts anew, in the access families and in the live one
\* (access_patterns_test.cpp:60-65, 346-351, 452-480).
UnaccessedExact ==
  registered = "AccessPatternTest" /\ stage = "written" /\ SlotsApart =>
    \A k \in Access!Window :
      Access!Members(unaccessed[k]) = {p \in Recorded \cup dropped : ticks[p].touch > k}

\* The column "Live Objects" (all.cpp:172) counts live objects: on_alloc
\* "gets called when an allocation is made" (interval_test.hpp:846).
LiveObjectsExact ==
  registered = "AllTest" /\ pending = NoPtr =>
    counters.total_objects_live = Cardinality(Recorded \cup dropped)
=============================================================================
