--------------------------- MODULE OtherTestsProps ---------------------------
(* What the files of PageTrackingTest and GenerationalTest may be relied on *)
(* to say.                                                                  *)
EXTENDS OtherTests

\* The intervals in which a page was written, and the last of them.
DirtyIn(f) == {i \in 1 .. Len(past[f]) : past[f][i] = "dirty"}
LastWrite(f) == IF DirtyIn(f) = {} THEN 1 ELSE CHOOSE i \in DirtyIn(f) : \A j \in DirtyIn(f) : j <= i

\* The pages listed for the objects there are, as far as they are resident.
Resident == {map.frame[v] : v \in {v \in UNION {PagesOf[p] : p \in Recorded} : map.state[v] \in {"clean", "dirty"}}}

\* Every resident page listed for a tracked object has one row, although
\* objects share pages and small ones are passed over for the page they begin
\* on; and what a page's record carries from interval to interval is its
\* history: how long it has been known, how often and when last it was
\* written (page_tracking.cpp:148-214).  The page an object that straddles a
\* boundary ends on may not be listed, and then has no row.
PageRowsExact ==
  /\ phase = "generational" =>
       /\ Len(page_rows) = Cardinality(Resident)
       /\ {page_rows[i].frame : i \in 1 .. Len(page_rows)} = Resident
  /\ phase # "tracking" =>
       \A f \in DOMAIN tracking :
         /\ tracking[f].age_in_intervals = Len(past[f])
         /\ tracking[f].first_interval = interval_count - Len(past[f]) + 1
         /\ tracking[f].write_count = Cardinality(DirtyIn(f))
         /\ tracking[f].age_since_last_write = Len(past[f]) - LastWrite(f) + 1
         /\ tracking[f].modified_last_interval = (past[f][Len(past[f])] = "dirty")

\* An object counts for a generation once it has lived that long since its
\* last report; what is written and what is not make up a generation; the
\* total of live bytes is not below the objects there are.
GenerationsRight ==
  phase = "ending" =>
    /\ \A g \in Generations : gen_row[g].virtual = Gen!VirtualSize({p \in Recorded : visits[p] > g})
    /\ \A g \in DOMAIN gen_row : gen_row[g].physical = gen_row[g].written + gen_row[g].readonly
    /\ \A g, h \in DOMAIN gen_row : g < h => gen_row[g].physical >= gen_row[h].physical
    /\ gen_row[0].virtual >= Gen!VirtualSize(Recorded)
=============================================================================
