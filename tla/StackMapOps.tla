---------------------------- MODULE StackMapOps ----------------------------
(***************************************************************************)
(* The open-addressing hash table of src/src/include/stack_map.hpp as pure *)
(* operators on a map value, so that every component that embeds a         *)
(* StackMap (the allocation sites, StackSet, the test live sets) can use   *)
(* the same definitions.                                                   *)
(*                                                                         *)
(* A map value is a record:                                                *)
(*   key[i]    the key in slot i, or Free when hashtable[i].occupied is    *)
(*             false.  The code never reads the key of a free slot, so the *)
(*             stale key a removal leaves behind is not kept.              *)
(*   value[i]  the value in slot i.  It is kept when the slot is freed:    *)
(*             get() hands out the stale value of the slot it claims.      *)
(*   entries   the entry counter, which full(), the probing loops and the  *)
(*             iteration trust.                                            *)
(*                                                                         *)
(* A definition D_xyz is D with a plausible mistake in it.  Nothing uses   *)
(* it; PROJECT.json names the mistake that breaks each property.           *)
(***************************************************************************)
EXTENDS Integers, FiniteSets

CONSTANTS
  Size,     \* the template parameter Size: number of slots
  Keys,     \* the keys callers use
  Values,   \* the values callers store
  Zero,     \* the all-zero value memset leaves in every slot
  Hash,     \* Hash[k] is std::hash<KeyType>{}(k) % Size
  Free      \* marks a slot whose occupied flag is false

ASSUME SizeAssumption == Size \in Nat \ {0}
ASSUME HashAssumption == Hash \in [Keys -> 0 .. Size - 1]
ASSUME ZeroAssumption == Zero \in Values
ASSUME FreeAssumption == Free \notin Keys

Slots == 0 .. Size - 1

MapType == [key     : [Slots -> Keys \cup {Free}],
            value   : [Slots -> Values],
            entries : Nat]

\* What clear(), and so the constructor, leaves: the table is zeroed.
EmptyMap == [key     |-> [i \in Slots |-> Free],
             value   |-> [i \in Slots |-> Zero],
             entries |-> 0]

Occupied(m) == {i \in Slots : m.key[i] # Free}

Full(m) == m.entries >= Size

---------------------------------------------------------------------------
(* Linear probing                                                          *)

\* The slot the probing loop looks at after d steps from the hash of k.
At(k, d) == (Hash[k] + d) % Size

ProbeBound_OffByOne(m) == IF m.entries = 0 THEN 0 ELSE m.entries - 1

\* The loop of put, get and has gives up after this many steps.
ProbeBound(m) == m.entries * 2

\* The loop stops at distance d: the slot is free or holds the key.
StopsAt(m, k, d) == m.key[At(k, d)] \in {Free, k}

\* The distance at which a probing loop with the given bound ends.
Distance(m, k, bound) ==
  CHOOSE d \in 0 .. bound :
    /\ d = bound \/ StopsAt(m, k, d)
    /\ \A e \in 0 .. d - 1 : ~StopsAt(m, k, e)

\* The key is found only when it is met before the bound is reached.
FoundWithin(m, k, bound) ==
  LET d == Distance(m, k, bound)
  IN  d < bound /\ m.key[At(k, d)] = k

ProbeSlot(m, k) == At(k, Distance(m, k, ProbeBound(m)))

Has(m, k) == FoundWithin(m, k, ProbeBound(m))

---------------------------------------------------------------------------
(* The operations                                                          *)

\* hashtable[i] = {k, v, occupied}; entries++
Occupy(m, i, k, v) == [key     |-> [m.key EXCEPT ![i] = k],
                       value   |-> [m.value EXCEPT ![i] = v],
                       entries |-> m.entries + 1]

Put_NoLookup(m, k, v) ==
  IF Full(m) THEN m
  ELSE LET d == CHOOSE e \in 0 .. Size : /\ m.key[At(k, e)] = Free
                                         /\ \A f \in 0 .. e - 1 : m.key[At(k, f)] # Free
       IN  Occupy(m, At(k, d), k, v)

\* put(k, v): overwrite the value of a key that is found, otherwise claim
\* the slot the loop ended at, unless the map is full.
Put(m, k, v) ==
  IF Has(m, k)
  THEN [m EXCEPT !.value[ProbeSlot(m, k)] = v]
  ELSE IF Full(m) THEN m ELSE Occupy(m, ProbeSlot(m, k), k, v)

\* The slot whose value get(k) returns a reference to.
GetSlot(m, k) == IF ~Has(m, k) /\ Full(m) THEN 0 ELSE ProbeSlot(m, k)

\* The map get(k) leaves: an absent key is inserted over a stale value.
GetMap(m, k) ==
  IF Has(m, k) \/ Full(m)
  THEN m
  ELSE Occupy(m, ProbeSlot(m, k), k, m.value[ProbeSlot(m, k)])

\* remove(k): free the first slot of the probe that holds k.  The loop is
\* bounded by Size, and no mark is left for the keys that probed past it.
RemoveMap(m, k) ==
  IF FoundWithin(m, k, Size)
  THEN [m EXCEPT !.key[At(k, Distance(m, k, Size))] = Free, !.entries = @ - 1]
  ELSE m

\* The slots map() and reduce() hand to their function: they walk the table
\* from slot 0 and stop once entries slots have been handed over.
Visited(m) ==
  {i \in Occupied(m) : Cardinality({j \in Occupied(m) : j < i}) < m.entries}
=============================================================================
