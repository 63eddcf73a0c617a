--------------------------- MODULE AccessPatterns ---------------------------
(***************************************************************************)
(* AccessPatternTest (src/src/intervals/access_patterns_test.cpp): for     *)
(* k = 1 .. 6 the objects accessed, written and read in the last k         *)
(* intervals, and those that lived through them unaccessed.  The six       *)
(* members of each family, x_this_interval, x_last_2_intervals, ... are    *)
(* here the values x[1], x[2], ... of one function.                        *)
(*                                                                         *)
(* The live and the unaccessed objects, which are removed from, are        *)
(* StackSets: tables whose remove() may miss a key that another of the     *)
(* same hash has displaced.  The accessed, written and read ones are only  *)
(* inserted into, copied and cleared, and hold more objects than a run     *)
(* tracks: there a StackSet is a set.                                      *)
(*                                                                         *)
(* A definition D_xyz is D with a plausible mistake in it.  Nothing uses   *)
(* it; PROJECT.json names the mistake that breaks each property.           *)
(***************************************************************************)
EXTENDS Integers, FiniteSets, SequencesExt

CONSTANTS
  Ptrs,
  Pages,
  PagesOf,  \* the pages listed for an object
  Windows,  \* 6
  SetSize,  \* the capacity of a StackSet (100000)
  PtrHash,  \* the slot an object hashes to
  NoPtr     \* marks a slot that is not occupied

VARIABLES
  accessed, write_accessed, read_accessed,
  live,
  unaccessed   \* what the row of the last interval called unaccessed

access_vars == <<accessed, write_accessed, read_accessed, live, unaccessed>>

Window == 1 .. Windows

Families == [Window -> SUBSET Ptrs]

\* A StackSet is a StackMap whose values nothing reads.
Set == INSTANCE StackMapOps WITH
  Size <- SetSize, Keys <- Ptrs, Values <- {0}, Zero <- 0, Hash <- PtrHash, Free <- NoPtr

\* items(): the keys its walk meets.
Members(s) == {s.key[i] : i \in Set!Visited(s)}

None == [k \in Window |-> {}]

NoObjects == [k \in Window |-> Set!EmptyMap]

AccessInit ==
  /\ accessed = None /\ write_accessed = None /\ read_accessed = None
  /\ live = NoObjects /\ unaccessed = NoObjects

\* insert(alloc) in all six sets of a family.
Insert(x, S) == [k \in Window |-> x[k] \cup S]

\* on_alloc: an allocation counts as written and read.
on_alloc(p) ==
  /\ accessed' = Insert(accessed, {p})
  /\ write_accessed' = Insert(write_accessed, {p})
  /\ read_accessed' = Insert(read_accessed, {p})
  /\ live' = [live EXCEPT ![1] = Set!Put(@, p, 0)]
  /\ UNCHANGED unaccessed

on_free_ThisIntervalOnly(p) ==
  /\ live' = [live EXCEPT ![1] = Set!RemoveMap(@, p)]
  /\ UNCHANGED <<accessed, write_accessed, read_accessed, unaccessed>>

\* on_free: the access sets keep the address.
on_free(p) ==
  /\ live' = [k \in Window |-> Set!RemoveMap(live[k], p)]
  /\ UNCHANGED <<accessed, write_accessed, read_accessed, unaccessed>>

\* on_access for every object of the two sets.
on_access(written, read) ==
  /\ accessed' = Insert(accessed, written \cup read)
  /\ write_accessed' = Insert(write_accessed, written)
  /\ read_accessed' = Insert(read_accessed, read)
  /\ UNCHANGED <<live, unaccessed>>

---------------------------------------------------------------------------

Shifted_FromTheBottom(x) == [k \in Window |-> x[1]]

\* tick_accesses: last_6 takes last_5's place, and so down to last_2.
Shifted(x) == [k \in Window |-> IF k = 1 THEN x[1] ELSE x[k - 1]]

\* The access families also start the new interval empty.
Ticked(x) == [Shifted(x) EXCEPT ![1] = {}]

\* What track_accesses finds for p: whether the first of its resident pages
\* has been written or read since the bits were cleared.  The other pages
\* are not looked at.
FirstPage(p, resident) ==
  CHOOSE page \in PagesOf[p] \cap resident :
    \A other \in PagesOf[p] \cap resident : page <= other

TouchedBy(recorded, resident, touched) ==
  {p \in recorded : PagesOf[p] \cap resident # {} /\ FirstPage(p, resident) \in touched}

\* What may be left of s when the objects of S are removed from it, one by
\* one, in the order of the table that S is kept in, which may be any.
Without(s, S) == {FoldLeft(Set!RemoveMap, s, walk) : walk \in SetToSeqs(S)}

\* interval(): on_access for what track_accesses found written and read,
\* the row, then finish_interval() with its tick.
interval(written, read) ==
  LET now  == Insert(accessed, written \cup read)
      rest == [k \in Window |-> Without(live[k], now[k])]
  IN  /\ unaccessed' \in [Window -> UNION {rest[k] : k \in Window}]
      /\ \A k \in Window : unaccessed'[k] \in rest[k]
      /\ accessed' = Ticked(now)
      /\ write_accessed' = Ticked(Insert(write_accessed, written))
      /\ read_accessed' = Ticked(Insert(read_accessed, read))
      /\ live' = Shifted(live)

\* Only the row of the running interval is kept.
ForgetRow ==
  /\ unaccessed' = NoObjects
  /\ UNCHANGED <<accessed, write_accessed, read_accessed, live>>
=============================================================================
