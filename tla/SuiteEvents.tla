---------------------------- MODULE SuiteEvents ----------------------------
(***************************************************************************)
(* What the interval test suite promises the tests registered with it: the *)
(* order in which on_alloc, on_free and interval reach them, and the       *)
(* allocation records an interval finds.  HeapPulse implements it          *)
(* (HeapPulseProps!ImplementsEvents), IntervalTests runs the tests on it.  *)
(*                                                                         *)
(* A malloc is reported twice: Hooks::post_alloc calls update() two times, *)
(* and the interval the first of them may run comes between the reports.   *)
(***************************************************************************)
EXTENDS Integers

CONSTANTS
  Ptrs,
  MaxAge,   \* ages are counted up to this bound
  MaxTold,  \* on_alloc calls are counted up to this bound
  NoPtr

ASSUME EventsAssumption == MaxAge \in Nat /\ MaxTold \in Nat /\ NoPtr \notin Ptrs

VARIABLES
  age,         \* the recorded allocations and their ages in intervals
  told,        \* on_alloc calls for p since its last on_free
  pending,     \* the allocation whose second report is still to come
  in_interval  \* an interval is running

event_vars == <<age, told, pending, in_interval>>

Gone == -1

Recorded == {p \in Ptrs : age[p] # Gone}

Saturated(n, max) == IF n < max THEN n ELSE max

EventsInit ==
  /\ age = [p \in Ptrs |-> Gone]
  /\ told = [p \in Ptrs |-> 0]
  /\ pending = NoPtr
  /\ in_interval = FALSE

\* on_alloc is called, for an allocation that is then in the records with
\* age 0, or, where there was no room for its site, is not.
report(p) ==
  /\ ~in_interval
  /\ told' = [told EXCEPT ![p] = Saturated(@ + 1, MaxTold)]
  /\ \/ age' = [age EXCEPT ![p] = 0]
     \/ age[p] = Gone /\ UNCHANGED age
  /\ UNCHANGED in_interval

\* The first report of an allocation, of which a malloc makes another.
announce(p) ==
  /\ pending = NoPtr
  /\ age[p] = Gone
  /\ report(p)
  /\ pending' \in {NoPtr, p}

announce_again ==
  /\ pending # NoPtr
  /\ report(pending)
  /\ pending' = NoPtr

\* on_free is called, once, and the record is gone.
retract(p) ==
  /\ ~in_interval
  /\ pending = NoPtr
  /\ age[p] # Gone
  /\ age' = [age EXCEPT ![p] = Gone]
  /\ told' = [told EXCEPT ![p] = 0]
  /\ UNCHANGED <<pending, in_interval>>

begin ==
  /\ ~in_interval
  /\ in_interval' = TRUE
  /\ UNCHANGED <<age, told, pending>>

\* Every record is one interval older.
end ==
  /\ in_interval
  /\ in_interval' = FALSE
  /\ age' = [p \in Ptrs |-> IF p \in Recorded THEN Saturated(age[p] + 1, MaxAge)
                                              ELSE Gone]
  /\ UNCHANGED <<told, pending>>

EventsNext == (\E p \in Ptrs : announce(p) \/ retract(p)) \/ announce_again \/ begin \/ end

EventsSpec == EventsInit /\ [][EventsNext]_event_vars
=============================================================================
