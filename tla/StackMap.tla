------------------------------ MODULE StackMap ------------------------------
(***************************************************************************)
(* One StackMap object and the calls its owner makes on it: put, get, has, *)
(* remove, clear (src/src/include/stack_map.hpp).  The calls are           *)
(* sequential; every StackMap of the tracker is guarded by its owner.      *)
(***************************************************************************)
EXTENDS StackMapOps

CONSTANTS
  Removable,  \* the keys the owner ever removes
  None        \* what a call without a result returns

ASSUME RemovableAssumption == Removable \subseteq Keys

VARIABLES
  m,    \* the map
  ret   \* what the last call returned: None, a BOOLEAN or a value

vars == <<m, ret>>

Init == m = EmptyMap /\ ret = None

put(k, v) == m' = Put(m, k, v) /\ ret' = None

get(k) == m' = GetMap(m, k) /\ ret' = m.value[GetSlot(m, k)]

has(k) == ret' = Has(m, k) /\ UNCHANGED m

remove(k) == m' = RemoveMap(m, k) /\ ret' = None

clear == m' = EmptyMap /\ ret' = None

Next == \/ \E k \in Keys, v \in Values : put(k, v)
        \/ \E k \in Keys : get(k) \/ has(k)
        \/ \E k \in Removable : remove(k)
        \/ clear

Spec == Init /\ [][Next]_vars

---------------------------------------------------------------------------
(* Properties                                                              *)

\* The map stays well formed and the call results well typed.
TypeOK == /\ m \in MapType
          /\ ret \in {None} \cup BOOLEAN \cup Values

\* The entry counter is the number of occupied slots whatever the order of
\* insertions, collisions and removals: put and get only ever claim a free
\* slot, although the loop they end may have been cut by its bound
\* (stack_map.hpp:44), and a removal frees exactly one.
EntriesExact == m.entries = Cardinality(Occupied(m))

\* num_entries() * 2 steps always suffice: has(k) answers as a probe of the
\* whole table would (stack_map.hpp:125).
ProbeComplete ==
  \A k \in Keys :
    Has(m, k) <=> \E d \in 0 .. Size - 1 :
                    /\ m.key[At(k, d)] = k
                    /\ \A e \in 0 .. d : m.key[At(k, e)] # Free

\* map() and reduce() stop early, yet hand over every occupied slot
\* (stack_map.hpp:178).
IterationComplete == Visited(m) = Occupied(m)

---------------------------------------------------------------------------
(* Refinement: where no removal can break a probe chain, a StackMap is the *)
(* map its callers expect.                                                 *)

Reachable == {k \in Keys : Has(m, k)}

Abstract == INSTANCE AbstractMap WITH
  contents <- [k \in Reachable |-> m.value[ProbeSlot(m, k)]],
  ret      <- ret,
  Capacity <- Size

ImplementsMap == Abstract!Spec
=============================================================================
