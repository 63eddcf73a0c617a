---------------------------- MODULE AbstractMap ----------------------------
(***************************************************************************)
(* What a caller of a StackMap relies on: a finite map of at most Capacity *)
(* keys.  A put of a new key into a full map is dropped.  Reading an       *)
(* absent key promises no particular value; it inserts the key when there  *)
(* is room.                                                                *)
(***************************************************************************)
EXTENDS Integers, FiniteSets

CONSTANTS Keys, Values, Capacity, None

VARIABLES
  contents,  \* the map: a function from the keys present to their values
  ret        \* what the last operation returned

vars == <<contents, ret>>

Present == DOMAIN contents

HasRoom == Cardinality(Present) < Capacity

With(k, v) ==
  [x \in Present \cup {k} |-> IF x = k THEN v ELSE contents[x]]

Init == /\ contents = [k \in {} |-> CHOOSE v \in Values : TRUE]
        /\ ret = None

Put(k, v) ==
  /\ contents' = IF k \in Present \/ HasRoom THEN With(k, v) ELSE contents
  /\ ret' = None

Get(k) ==
  \/ /\ k \in Present
     /\ ret' = contents[k]
     /\ UNCHANGED contents
  \/ /\ k \notin Present
     /\ ret' \in Values
     /\ contents' = IF HasRoom THEN With(k, ret') ELSE contents

Has(k) == /\ ret' = (k \in Present)
          /\ UNCHANGED contents

Remove(k) == /\ contents' = [x \in Present \ {k} |-> contents[x]]
             /\ ret' = None

Clear == /\ contents' = [x \in {} |-> contents[x]]
         /\ ret' = None

Next == \/ \E k \in Keys, v \in Values : Put(k, v)
        \/ \E k \in Keys : Get(k) \/ Has(k) \/ Remove(k)
        \/ Clear

Spec == Init /\ [][Next]_vars
=============================================================================
