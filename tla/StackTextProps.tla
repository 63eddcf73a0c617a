--------------------------- MODULE StackTextProps ---------------------------
(* A StackString at work, and what its operations may be relied on to do,   *)
(* each against a definition that says what instead of how.                 *)
EXTENDS StackText
LOCAL INSTANCE FiniteSets
LOCAL INSTANCE SequencesExt

CONSTANTS
  Letters,     \* the characters of texts
  MaxNumber    \* numbers are looked at up to this bound

VARIABLES text, number

text_vars == <<text, number>>

TextInit == text = <<>> /\ number = 1 - Half

TextNext ==
  \/ /\ number = 1 - Half
     /\ \/ \E c \in Letters : text' = Plus(text, <<c>>)
        \/ text' \in {trim_start(text), trim_end(text), trim(text), Reverse(text), Rest(text)}
     /\ UNCHANGED number
  \/ text = <<>> /\ number < MaxNumber /\ number' = number + 1 /\ UNCHANGED text

\* The words of a text: its longest runs without a space, in their order.
Starts(s) == {i \in 1 .. Len(s) : ~isspace(s[i]) /\ (i = 1 \/ isspace(s[i - 1]))}
NthStart(s, n) == CHOOSE i \in Starts(s) : Cardinality({j \in Starts(s) : j <= i}) = n
Words(s) == [n \in 1 .. Cardinality(Starts(s)) |-> Word(From(s, NthStart(s, n) - 1))]

\* What repeated calls of scan() find.
RECURSIVE Scans(_, _)
Scans(s, n) == IF n = 0 THEN <<>> ELSE <<Word(s)>> \o Scans(Rest(s), n - 1)

\* Scanning finds the words of a text one by one and then empty ones; a
\* space in front of them all counts as an empty word (stack_string.hpp:535).
ScansFindWords ==
  LET words == Words(text)
      found == IF words # <<>> /\ isspace(text[1]) THEN <<<<>>>> \o words ELSE words
  IN Scans(text, Len(found) + 2) = found \o <<<<>>, <<>>>>

\* Trimming takes every space off the ends and nothing else: the text is
\* what it was with spaces around, although the loop that looks for the end
\* runs below zero (stack_string.hpp:333).
TrimsExact ==
  LET t == trim(text)
  IN /\ t # <<>> => ~isspace(t[1]) /\ ~isspace(t[Len(t)])
     /\ \E i \in 0 .. Len(text) : /\ SubSeq(text, i + 1, i + Len(t)) = t
                                  /\ is_space(Upto(text, i)) /\ is_space(From(text, i + Len(t)))

\* Each argument stands where its directive is, and what is between the
\* directives stays: the columns of a log line or a cell are not shifted.
\* The text is the template of every other character; %% is not used.
Args == <<[is_text |-> FALSE, n |-> 27], [is_text |-> TRUE, text |-> <<"t">>]>>
Percents(s) == {i \in 1 .. Len(s) : s[i] = "%"}
NextPercent(s, i) == CHOOSE j \in Percents(s) \cup {Len(s) + 1} : j > i /\ Percents(s) \cap (i + 1) .. (j - 1) = {}
Between(s, i) == SubSeq(s, IF i < Len(s) /\ s[i + 1] \in Directives THEN i + 2 ELSE i + 1, NextPercent(s, i) - 1)
Directive(s, i) == IF i < Len(s) THEN s[i + 1] ELSE " "
FormatsInPlace ==
  Cardinality(Percents(text)) = 2 /\ (\A i \in Percents(text) : i + 1 \notin Percents(text)) =>
    LET i == NextPercent(text, 0)
        j == NextPercent(text, i)
    IN format(text, Args) = Fit(Upto(text, i - 1) \o ArgText(Args[1], Directive(text, i)) \o Between(text, i)
                                  \o ArgText(Args[2], Directive(text, j)) \o Between(text, j))

\* A number reads back from its text if it is an int64_t: a size_t above
\* that reads back negative.  So does a hexadecimal one, although nothing is
\* the text of zero.  A fraction is written to the last decimal or, if it is
\* no more than half a unit off an integer, as 0.0 (stack_string.hpp:49).
Hexadecimal(s) == FoldLeft(LAMBDA n, c : 16 * n + Value(c), 0, s)
Decimals(s) == LET point == SelectInSeq(s, LAMBDA c : c = ".") IN Decimal(Upto(s, point - 1) \o From(s, point))
NumbersReadBack ==
  /\ Len(NumberText(number)) < TextSize => to_number(NumberText(number)) = Int64(number)
  /\ number >= 0 => Hexadecimal(HexText(number)) = number
  /\ number >= 0 => \A lost \in BOOLEAN :
       LET s == FloatText(number, lost)
       IN \/ s = <<"0", ".", "0">> /\ (number = 0 \/ number % (2 * Precision) \in {0, 2 * Precision - 1})
          \/ 2 * Decimals(s) - number \in {0, 1}

\* Each operation of a StackString gives what its definition above says.
OperationsExact == ScansFindWords /\ TrimsExact /\ FormatsInPlace /\ NumbersReadBack
=============================================================================
