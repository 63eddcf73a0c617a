------------------------------ MODULE StackVec ------------------------------
(***************************************************************************)
(* StackVec<ValueType, Size> (src/src/include/stack_vec.hpp): an array of  *)
(* Size slots, of which the first elements hold something.  Slots beyond   *)
(* them keep what was in them, and two operations give them away: pop() of *)
(* an empty vector and an index out of range.                              *)
(*                                                                         *)
(* A definition D_xyz is D with a plausible mistake in it.  Nothing uses   *)
(* it; PROJECT.json names the mistake that breaks each property.           *)
(***************************************************************************)
EXTENDS Integers, SequencesExt

CONSTANTS VecSize, VecValues, Unset

ASSUME VecAssumption == VecSize \in Nat \ {0} /\ Unset \notin VecValues

VARIABLES
  vec,    \* [data, elements]; the slots are numbered from 0
  popped  \* what the last pop() returned

vec_vars == <<vec, popped>>

EmptyVec == [data |-> [i \in 0 .. VecSize - 1 |-> Unset], elements |-> 0]

Contents(v) == [i \in 1 .. v.elements |-> v.data[i - 1]]

push(v, x) ==
  IF v.elements >= VecSize THEN v
  ELSE [data |-> [v.data EXCEPT ![v.elements] = x], elements |-> v.elements + 1]

\* The slot operator[] refers to.
SlotOf_AlwaysLast(v, index) == IF index >= v.elements - 1 THEN VecSize - 1 ELSE index

SlotOf(v, index) == IF index >= v.elements THEN VecSize - 1 ELSE index

\* operator+= with another vector, a copy, and slice(start, end).
Extend(v, s) == FoldLeft(push, v, s)

slice(v, start, end) ==
  Extend(EmptyVec, SubSeq(Contents(v), start + 1, IF end < v.elements THEN end ELSE v.elements))

---------------------------------------------------------------------------

VecInit == vec = EmptyVec /\ popped = Unset

Push(x) == vec' = push(vec, x) /\ UNCHANGED popped

Pop ==
  IF vec.elements = 0 THEN popped' = vec.data[0] /\ UNCHANGED vec
  ELSE /\ popped' = vec.data[vec.elements - 1]
       /\ vec' = [vec EXCEPT !.elements = @ - 1]

SetAt(index, x) == vec' = [vec EXCEPT !.data[SlotOf(vec, index)] = x] /\ UNCHANGED popped

Append2(x, y) == vec' = Extend(vec, <<x, y>>) /\ UNCHANGED popped

Slice(start, end) == vec' = slice(vec, start, end) /\ UNCHANGED popped

ClearVec == vec' = [vec EXCEPT !.elements = 0] /\ UNCHANGED popped

VecNext ==
  \/ \E x \in VecValues : Push(x)
  \/ \E x, y \in VecValues : Append2(x, y)
  \/ \E index \in 0 .. VecSize, x \in VecValues : SetAt(index, x)
  \/ \E start, end \in 0 .. VecSize : Slice(start, end)
  \/ Pop \/ ClearVec

---------------------------------------------------------------------------

\* A stack that is shorter than the array behaves as a sequence: a call out
\* of range reaches none of its elements.  Only the last element of a full
\* one takes a value written past the end (stack_vec.hpp:56).
VecIsSequence ==
  [][LET s == Contents(vec)
         t == Contents(vec')
     IN /\ \A x \in VecValues : Push(x) => t = IF Len(s) < VecSize THEN Append(s, x) ELSE s
        /\ \A index \in 0 .. VecSize, x \in VecValues :
             SetAt(index, x) => IF index < Len(s) THEN t = [s EXCEPT ![index + 1] = x]
                              ELSE Len(s) < VecSize => t = s
        /\ Pop => IF s = <<>> THEN t = s ELSE s = Append(t, popped')]_vec_vars
=============================================================================
