------------------------------ MODULE StackCSV ------------------------------
(***************************************************************************)
(* A CSV of Length rows and the file it is written to                      *)
(* (src/src/include/stack_csv.hpp), as the tests use the two: new_row(),   *)
(* set every column, and write() and clear() once the CSV is full.  A row  *)
(* is one value; what its cells say is the caller's.                       *)
(***************************************************************************)
EXTENDS Integers, Sequences

CONSTANT Length   \* the template parameter Length

Empty == [rows |-> <<>>, file |-> <<>>]

Full(csv) == Len(csv.rows) >= Length

\* new_row() pushes a row and returns last(); the push into full rows is
\* dropped, so the caller then overwrites the row that was last.
NewRow(csv, row) ==
  IF Len(csv.rows) < Length
  THEN [csv EXCEPT !.rows = Append(@, row)]
  ELSE [csv EXCEPT !.rows[Length] = row]

\* write() in append mode, then clear().
Flush(csv) == [rows |-> <<>>, file |-> csv.file \o csv.rows]

\* One row of a table that is written out as soon as it is full.
AddRow(csv, row) ==
  LET with == NewRow(csv, row) IN IF Full(with) THEN Flush(with) ELSE with
=============================================================================
