------------------------------ MODULE AllTest ------------------------------
(***************************************************************************)
(* AllTest (src/src/intervals/all.cpp), the test of the default            *)
(* configuration: running totals, and in every interval a row per object,  *)
(* per resident physical page and for the interval as a whole.  Its live   *)
(* set of huge pages, which the block hooks change without a lock, is the  *)
(* module HugePages.                                                       *)
(*                                                                         *)
(* No column is printed from the sets of accessed objects unless           *)
(* TRACK_ACCESSES is defined, so they are left out, as are sizes and       *)
(* ratios of compressed data.  A walk over the records goes in the order   *)
(* of their tables, which may be any.                                      *)
(*                                                                         *)
(* A definition D_xyz is D with a plausible mistake in it.  Nothing uses   *)
(* it; PROJECT.json names the mistake that breaks each property.           *)
(***************************************************************************)
EXTENDS Integers, FiniteSets, SequencesExt

CONSTANTS
  Ptrs,           \* allocations
  SizeOf,         \* SizeOf[p]: the size of p
  Pages,          \* the pages of the heap
  PagesOf,        \* PagesOf[p]: the pages listed for p
  CSVLength,      \* rows a CSV holds (10000)
  MaxObjectRows   \* the bound of track_objects (8000)

VARIABLES
  counters,     \* the running totals
  object_file,  \* the rows the running interval has written, a pointer each
  page_file,    \* ... a page and the object it was met through each
  interval_file \* ... and the summary

all_vars == <<counters, object_file, page_file, interval_file>>

Counters == INSTANCE TestCounters
Table == INSTANCE StackCSV WITH Length <- CSVLength

AllInit ==
  /\ counters = Counters!Zeroes
  /\ object_file = <<>> /\ page_file = <<>> /\ interval_file = <<>>

on_alloc(p) ==
  /\ counters' = Counters!on_alloc(counters, SizeOf[p])
  /\ UNCHANGED <<object_file, page_file, interval_file>>

on_free(p) ==
  /\ counters' = Counters!on_free(counters, SizeOf[p])
  /\ UNCHANGED <<object_file, page_file, interval_file>>

\* The rows of a table, written in the order in which they are met.
AddRows(rows) == FoldLeft(Table!AddRow, Table!Empty, rows)

track_objects_OneRow(walk) ==
  AddRows(SubSeq(walk, 1, IF Len(walk) <= MaxObjectRows THEN Len(walk) ELSE MaxObjectRows))

\* One row for each of the first MaxObjectRows + 1 objects of the walk: the
\* counter is compared before it is incremented.
track_objects(walk) ==
  AddRows(SubSeq(walk, 1, IF Len(walk) <= MaxObjectRows + 1 THEN Len(walk) ELSE MaxObjectRows + 1))

\* The resident pages of an object, each with the object it is met through.
ResidentPages(p, resident) ==
  LET pages == SetToSeq(PagesOf[p] \cap resident)
  IN  [i \in 1 .. Len(pages) |-> [page |-> pages[i], object |-> p]]

MeetPage_Again(acc, row) ==
  [tracked_pages |-> acc.tracked_pages \cup {row.page}, csv |-> Table!AddRow(acc.csv, row)]

\* A row for a page that no earlier object of the walk had met.
MeetPage(acc, row) ==
  IF row.page \in acc.tracked_pages
  THEN acc
  ELSE [tracked_pages |-> acc.tracked_pages \cup {row.page}, csv |-> Table!AddRow(acc.csv, row)]

MeetObject(acc, rows) == FoldLeft(MeetPage, acc, rows)

\* The walk over the objects, and that over the pages of each.
track_physical_pages(walk, resident) ==
  FoldLeft(MeetObject, [tracked_pages |-> {}, csv |-> Table!Empty],
           [i \in 1 .. Len(walk) |-> ResidentPages(walk[i], resident)]).csv

\* The columns of the summary that are computed here.
track_interval_info ==
  [live_objects   |-> counters.total_objects_live,
   allocated      |-> counters.memory_allocated_since_last_interval,
   freed          |-> counters.memory_freed_since_last_interval]

\* interval(): the three tables, the summary, then finish_interval(), which
\* writes out what is left in them.
interval(recorded) ==
  /\ \E walk \in SetToSeqs(recorded) : \E resident \in SUBSET Pages :
       /\ object_file' = Table!Flush(track_objects(walk)).file
       /\ page_file' = Table!Flush(track_physical_pages(walk, resident)).file
  /\ interval_file' = <<track_interval_info>>
  /\ counters' = Counters!finish_interval(counters)

\* The files are as the previous interval left them; only the rows of the
\* running one are kept here.
ForgetRows ==
  /\ object_file' = <<>> /\ page_file' = <<>> /\ interval_file' = <<>>
  /\ UNCHANGED counters
=============================================================================
