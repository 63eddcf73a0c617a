----------------------------- MODULE StackText -----------------------------
(***************************************************************************)
(* StackString<Size> (src/src/include/stack_string.hpp): a text of at most *)
(* TextSize characters, what does not fit is cut off; numbers to text and  *)
(* back; format() and scan().  A text is a sequence of characters, an      *)
(* argument of format() a record: a number n or a text.                    *)
(*                                                                         *)
(* A definition D_xyz is D with a plausible mistake in it.  Nothing uses   *)
(* it; PROJECT.json names the mistake that breaks each property.           *)
(***************************************************************************)
EXTENDS Integers, Sequences
LOCAL INSTANCE SequencesExt

CONSTANTS
  TextSize,   \* the template parameter Size
  Half,       \* 2^63: an int64_t is in -Half .. Half - 1
  Precision   \* 10^6: ftoa() writes six decimals

Upto(s, n) == SubSeq(s, 1, IF n < Len(s) THEN n ELSE Len(s))

\* The constructors, =, += and push(): the first TextSize characters.
Fit(s) == Upto(s, TextSize)

Plus(s, t) == Fit(s \o t)

isspace(c) == c = " "

\* The characters before the first one that is, or is not, a space.
Run(s, space) == SelectInSeq(s, LAMBDA c : isspace(c) # space)

Leading(s, space) == IF Run(s, space) = 0 THEN Len(s) ELSE Run(s, space) - 1

is_space(s) == Leading(s, TRUE) = Len(s)

\* slice(i).
From(s, i) == SubSeq(s, i + 1, Len(s))

trim_start(s) == From(s, Leading(s, TRUE))

trim_end(s) == Upto(s, Len(s) - Leading(Reverse(s), TRUE))

trim(s) == trim_end(trim_start(s))

\* scan() finds the first word, empty when a space is in front ...
Word(s) == Upto(s, Leading(s, FALSE))

Rest_KeepsSpaces(s) == From(s, Leading(s, FALSE) + 1)

\* ... and leaves the rest, trimmed unless there are only spaces.
Rest(s) ==
  LET rest == From(s, Leading(s, FALSE) + 1)
  IN IF is_space(rest) THEN rest ELSE trim_start(rest)

---------------------------------------------------------------------------

Digit == <<"0", "1", "2", "3", "4", "5", "6", "7", "8", "9", "A", "B", "C", "D", "E", "F">>

\* The digits of n, of which 0 has none; the first of them is the last.
RECURSIVE Digits(_, _)
Digits(n, radix) == IF n = 0 THEN <<>> ELSE Append(Digits(n \div radix, radix), Digit[(n % radix) + 1])

\* A size_t goes to itoa() as an int64_t.
Int64(n) == IF n >= Half THEN n - 2 * Half ELSE n

\* from_number(), radix 10: itoa().
NumberText(n) ==
  Fit(IF Int64(n) < 0 THEN <<"-">> \o Digits(- Int64(n), 10)
      ELSE IF n = 0 THEN <<"0">> ELSE Digits(n, 10))

\* Radix 16: the text of zero is empty.
HexText(n) == Fit(Digits(n, 16))

\* from_number() of a double: ftoa().  The number is f half units of the
\* last decimal.  Adding half a unit to an integer may be lost in the
\* rounding of the sum, as which the caller of this definition chooses.
FloatText(f, lost) ==
  LET one == 2 * Precision
      fraction == (f + 1) % one
      decimals == Digits(Precision + fraction \div 2, 10)
  IN Fit(IF f < 1 \/ fraction < 1 \/ (fraction = 1 /\ lost) THEN <<"0", ".", "0">>
         ELSE (IF f + 1 < one THEN <<"0">> ELSE Digits((f + 1) \div one, 10))
              \o <<".">> \o Tail(decimals))

\* to_number(): atoi() of the first word, whatever the radix.
Value(c) == CHOOSE d \in 0 .. 15 : Digit[d + 1] = c

Decimal(s) == FoldLeft(LAMBDA n, c : 10 * n + Value(c), 0, s)

to_number(s) ==
  LET word == Word(s)
      negative == word # <<>> /\ word[1] = "-"
      tail == From(word, IF negative THEN 1 ELSE 0)
      other == SelectInSeq(tail, LAMBDA c : c \notin {Digit[d] : d \in 1 .. 10})
      n == Decimal(IF other = 0 THEN tail ELSE Upto(tail, other - 1))
  IN IF negative THEN -n ELSE n

---------------------------------------------------------------------------

\* format_append_impl() under a directive.
ArgText(arg, directive) ==
  IF arg.is_text THEN arg.text
  ELSE IF directive = "x" THEN HexText(arg.n)
  ELSE NumberText(arg.n)

Directives == {"d", "x", "s"}

\* What is left of a template that begins with a directive.
AfterDirective(fmt) ==
  From(fmt, IF Len(fmt) > 1 /\ fmt[2] \in Directives \cup {"%"} THEN 2 ELSE 1)

\* format_append(): a directive takes an argument; so do % with any other
\* character after it, which stays in the text, and %%, after which the
\* last argument is the end of the text.
RECURSIVE Formatted(_, _, _)
Formatted(text, fmt, args) ==
  LET with == Plus(text, ArgText(args[1], IF Len(fmt) > 1 THEN fmt[2] ELSE " "))
      rest == AfterDirective(fmt)
  IN IF fmt = <<>> THEN text
     ELSE IF fmt[1] # "%" THEN Formatted(Plus(text, <<fmt[1]>>), Tail(fmt), args)
     ELSE IF Len(args) > 1 THEN Formatted(with, rest, Tail(args))
     ELSE IF Len(fmt) > 1 /\ fmt[2] = "%" THEN with
     ELSE Plus(with, rest)

format(fmt, args) == Formatted(<<>>, fmt, args)
=============================================================================
