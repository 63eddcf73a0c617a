----------------------------- MODULE ReportFile -----------------------------
(***************************************************************************)
(* How a report gets from a test into its file: a row is set column by     *)
(* column by title (CSVRow and CSVCell, src/src/include/stack_csv.hpp),    *)
(* CSV::write() makes one write(2) of every cell, comma and newline        *)
(* (src/src/include/stack_file.hpp), and the program may end between any   *)
(* two of them and be run again over the same file.  A write(2) may write  *)
(* part of a cell, of which StackFile takes no notice, or fail, which      *)
(* nothing catches.                                                        *)
(*                                                                         *)
(* A cell is a value or Blank, what the file holds a sequence of cells,    *)
(* commas and newlines.                                                    *)
(*                                                                         *)
(* A definition D_xyz is D with a plausible mistake in it.  Nothing uses   *)
(* it; PROJECT.json names the mistake that breaks each property.           *)
(***************************************************************************)
EXTENDS Integers, Sequences
LOCAL INSTANCE SequencesExt

CONSTANTS
  Titles,      \* of the columns, in their order
  OtherTitle,  \* one no column has
  CellValues,
  RowLimit,    \* the template parameter Length
  MaxReports   \* rows are made, and written, up to this bound

Blank == "blank"
Comma == ","
Newline == "\n"
Torn == "torn"

ASSUME ReportAssumption ==
  /\ CellValues \cap {Blank, Comma, Newline, Torn} = {} /\ RowLimit \in Nat \ {0}
  /\ \A i \in 1 .. Len(Titles) : Titles[i] # OtherTitle

VARIABLES
  mode,            \* APPEND, or WRITE as CompressionTest opens its file
  file,            \* what the file holds
  running,         \* the program runs
  csv_rows,        \* the rows of the CSV
  is_first_write,
  to_write,        \* the calls of write(2) that CSV::write() has still to make
  made,            \* rows made since the program started
  asked,           \* history: the columns set in the rows of the CSV
  reported         \* history: the columns of the rows written or being written

report_vars == <<mode, file, running, csv_rows, is_first_write, to_write, made, asked, reported>>

\* CSVRow::operator[]: the row grows up to the column.
Cell(row, col) == IF col <= Len(row) THEN row ELSE row \o [i \in 1 .. col - Len(row) |-> Blank]

\* CSVRow::set: the first column with the title, or an error and no change.
set_ByCount(row, title, v) == Append(row, v)

set(row, title, v) ==
  LET col == SelectInSeq(Titles, LAMBDA t : t = title)
  IN IF col = 0 THEN row ELSE [Cell(row, col) EXCEPT ![col] = v]

\* CSVRow::write: a blank cell writes nothing.
RowCalls(row) == SelectSeq(Tail(FlattenSeq([i \in 1 .. Len(row) |-> <<Comma, row[i]>>])), LAMBDA c : c # Blank)

\* CSV::write: the titles once, then the rows, in mode APPEND without those
\* that have no cell.
TitleCalls == RowCalls(Titles) \o <<Newline>>

CSVCalls(in_mode, first, rows) ==
  (IF first THEN TitleCalls ELSE <<>>)
  \o FlattenSeq([i \in 1 .. Len(rows) |->
       IF rows[i] # <<>> THEN RowCalls(rows[i]) \o <<Newline>>
       ELSE IF in_mode = "WRITE" THEN <<Newline>> ELSE <<>>])

ReportInit ==
  /\ mode \in {"APPEND", "WRITE"}
  /\ file = <<>> /\ running = FALSE /\ csv_rows = <<>> /\ is_first_write = TRUE
  /\ to_write = <<>> /\ made = 0 /\ asked = <<>> /\ reported = <<>>

\* setup(): the file is opened, and cleared by the test or by O_TRUNC; the
\* titles are written.
StartReport ==
  /\ ~running
  /\ running' = TRUE
  /\ file' = <<>>
  /\ to_write' = CSVCalls(mode, TRUE, <<>>)
  /\ is_first_write' = FALSE
  /\ reported' = <<>>
  /\ UNCHANGED <<mode, csv_rows, asked, made>>

Nothing == [t \in {Titles[i] : i \in 1 .. Len(Titles)} |-> Blank]

\* new_row(), which drops the row when there is no room.
MakeRow ==
  /\ running /\ to_write = <<>>
  /\ made < MaxReports
  /\ made' = made + 1
  /\ IF Len(csv_rows) < RowLimit
     THEN csv_rows' = Append(csv_rows, <<>>) /\ asked' = Append(asked, Nothing)
     ELSE UNCHANGED <<csv_rows, asked>>
  /\ UNCHANGED <<mode, file, running, is_first_write, to_write, reported>>

\* set() of a column of last(), from the left to the right.
SetColumn(title, v) ==
  /\ running /\ to_write = <<>> /\ csv_rows # <<>>
  /\ LET n == Len(csv_rows)
     IN /\ csv_rows' = [csv_rows EXCEPT ![n] = set(@, title, v)]
        /\ asked' = IF title \in DOMAIN Nothing THEN [asked EXCEPT ![n][title] = v] ELSE asked
  /\ UNCHANGED <<mode, file, running, is_first_write, to_write, made, reported>>

\* write(), and clear() where there is one: CompressionTest has none, and
\* the rows of an interval are written again with those of the next.
WriteReport ==
  /\ running /\ to_write = <<>> /\ csv_rows # <<>>
  /\ Len(reported) + Len(csv_rows) <= MaxReports
  /\ to_write' = CSVCalls(mode, is_first_write, csv_rows)
  /\ reported' = reported \o (IF mode = "WRITE" THEN asked ELSE SelectSeq(asked, LAMBDA r : r # Nothing))
  /\ IF mode = "WRITE" THEN UNCHANGED <<csv_rows, asked>> ELSE csv_rows' = <<>> /\ asked' = <<>>
  /\ UNCHANGED <<mode, file, running, is_first_write, made>>

\* One write(2).  One cell of a run is torn, if any.
WriteCall ==
  /\ running /\ to_write # <<>>
  /\ to_write' = Tail(to_write)
  /\ file' \in {Append(file, Head(to_write))}
       \cup (IF Head(to_write) \in {Comma, Newline} \/ Contains(file, Torn) THEN {} ELSE {Append(file, Torn)})
  /\ UNCHANGED <<mode, running, csv_rows, is_first_write, made, asked, reported>>

\* A failed write(2), or the end of the program; the file stays.
StopReport ==
  /\ running
  /\ running' = FALSE
  /\ csv_rows' = <<>> /\ asked' = <<>> /\ to_write' = <<>> /\ is_first_write' = TRUE /\ made' = 0
  /\ UNCHANGED <<mode, file, reported>>

ReportNext ==
  \/ StartReport \/ MakeRow \/ WriteReport \/ WriteCall \/ StopReport
  \/ \E title \in DOMAIN Nothing \cup {OtherTitle}, v \in CellValues : SetColumn(title, v)

---------------------------------------------------------------------------

\* The lines of the file, of which the last may not be finished, and the
\* cells of a line.
RECURSIVE Split(_, _)
Split(s, at) ==
  LET i == SelectInSeq(s, LAMBDA c : c = at)
  IN IF i = 0 THEN <<s>> ELSE <<SubSeq(s, 1, i - 1)>> \o Split(SubSeq(s, i + 1, Len(s)), at)

CellIn(line, col) ==
  LET cells == Split(line, Comma)
  IN IF col > Len(cells) \/ cells[col] = <<>> THEN Blank ELSE cells[col][1]

Says(line, row) ==
  \A i \in 1 .. Len(Titles) : CellIn(line, i) \in {row[Titles[i]]} \cup (IF row[Titles[i]] = Blank THEN {} ELSE {Torn})

\* Whenever the program ends and however often it is run again, each finished
\* line of the file is the titles or, in order, a row of the last run with
\* every value under its title; a torn value shifts no other.
FileReadsBack ==
  LET lines == Split(file, Newline)
      row(i) == IF i = 1 THEN [t \in DOMAIN Nothing |-> t] ELSE reported[i - 1]
  IN \A i \in 1 .. Len(lines) - 1 : i - 1 <= Len(reported) /\ Says(lines[i], row(i))
=============================================================================
