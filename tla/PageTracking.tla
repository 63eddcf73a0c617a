---------------------------- MODULE PageTracking ----------------------------
(***************************************************************************)
(* What PageTrackingTest (src/src/intervals/page_tracking.cpp) knows of a  *)
(* page, and what it does with the pages of an allocation in an interval.  *)
(* A history belongs to the physical page; tracking maps the physical      *)
(* pages met so far to their histories.  The sets and the map hold more    *)
(* pages than a run meets.                                                 *)
(*                                                                         *)
(* A definition D_xyz is D with a plausible mistake in it.  Nothing uses   *)
(* it; PROJECT.json names the mistake that breaks each property.           *)
(***************************************************************************)
EXTENDS Integers

NewPage(interval) ==
  [read_only_after_initial_write |-> TRUE, has_new_objects |-> FALSE,
   modified_this_interval |-> FALSE, modified_last_interval |-> FALSE,
   first_interval |-> interval, age_in_intervals |-> 0,
   write_count |-> 0, age_since_last_write |-> 0]

write_KeepsAge(page) ==
  [page EXCEPT !.write_count = @ + 1,
               !.read_only_after_initial_write = @ /\ page.age_in_intervals > 1,
               !.modified_this_interval = TRUE]

\* A write to a page that is at most one interval old, not one to an older
\* page, ends read_only_after_initial_write.
write(page) ==
  [page EXCEPT !.age_since_last_write = 0,
               !.write_count = @ + 1,
               !.read_only_after_initial_write = @ /\ page.age_in_intervals > 1,
               !.modified_this_interval = TRUE]

no_write(page) == [page EXCEPT !.modified_this_interval = FALSE]

older(page) ==
  [page EXCEPT !.age_in_intervals = @ + 1,
               !.age_since_last_write = @ + 1,
               !.modified_last_interval = page.modified_this_interval,
               !.modified_this_interval = FALSE]

age_all_pages(tracking) == [f \in DOMAIN tracking |-> older(tracking[f])]

\* The history of a physical page, which is new if it has none.
add_page(tracking, f, interval) ==
  IF f \in DOMAIN tracking THEN tracking[f] ELSE NewPage(interval)

\* A history with what this interval adds to it.
TrackPage(page, dirty, is_new) ==
  [(IF dirty THEN write(page) ELSE no_write(page)) EXCEPT !.has_new_objects = @ \/ is_new]

\* The columns of its row, which is set while the page is tracked.
PageRow(tracking, f, interval) ==
  [frame |-> f,
   is_new |-> tracking[f].first_interval = interval,
   age |-> tracking[f].age_in_intervals,
   modified_this_interval |-> tracking[f].modified_this_interval,
   modified_last_interval |-> tracking[f].modified_last_interval,
   has_new_objects |-> tracking[f].has_new_objects,
   write_count |-> tracking[f].write_count,
   age_since_last_write |-> tracking[f].age_since_last_write]

\* The pages of an allocation that its filter lets through.
Untracked(pages, frame, state, done) ==
  {v \in pages : /\ state[v] \notin {"absent", "zero"}
                 /\ v \notin done.virtual
                 /\ frame[v] \notin done.physical}

\* A small object on whose first byte's page another has been met is passed
\* over.
PassedOver(first, small, done) == small /\ first \in done.virtual

\* What one allocation adds.  Each of its pages has a physical page of its
\* own, so that they may come in any order.
TrackPages(tracking, pages, frame, state, interval, is_new) ==
  LET met == {frame[v] : v \in pages}
      dirty == {frame[v] : v \in {v \in pages : state[v] = "dirty"}}
  IN [f \in DOMAIN tracking \cup met |->
        IF f \in met THEN TrackPage(add_page(tracking, f, interval), f \in dirty, is_new)
        ELSE tracking[f]]
=============================================================================
