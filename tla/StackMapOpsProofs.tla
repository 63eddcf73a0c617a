------------------------- MODULE StackMapOpsProofs -------------------------
(***************************************************************************)
(* What the StackMap operators compute, for a table of any size, any keys  *)
(* and any hash function: the lemmas that the theorems about StackMap and  *)
(* about the modules that embed one rest on.                               *)
(***************************************************************************)
EXTENDS StackMapOps, FiniteSetTheorems, TLAPS

\* A table as the operations leave it: the counter is exact.
Exact(m) == m \in MapType /\ m.entries = Cardinality(Occupied(m))

---------------------------------------------------------------------------
(* Arithmetic                                                              *)

\* A set of naturals that is not empty has a least element.
LEMMA LeastNatural ==
  ASSUME NEW T, T \subseteq Nat, T # {}
  PROVE  \E x \in T : \A y \in T : x <= y
  <1>1. PICK x \in T : \A y \in T : ~ (<<y, x>> \in OpToRel(<, Nat))
    BY NatLessThanWellFounded, WFMin
  <1>2. \A y \in T : ~(y < x)
    BY <1>1 DEF OpToRel
  <1> QED BY <1>2

\* Adding a step to a slot number wraps around at most once.
LEMMA Wrap ==
  ASSUME NEW x \in 0 .. 2 * Size - 1
  PROVE  x % Size = IF x < Size THEN x ELSE x - Size
  BY SizeAssumption

\* A probe stays in the table.
LEMMA AtType ==
  ASSUME NEW k \in Keys, NEW d \in Nat
  PROVE  At(k, d) \in Slots
  BY SizeAssumption, HashAssumption DEF At, Slots

\* The slot d steps after the hash of k, without the remainder.
LEMMA AtValue ==
  ASSUME NEW k \in Keys, NEW d \in Slots
  PROVE  At(k, d) = IF Hash[k] + d < Size THEN Hash[k] + d ELSE Hash[k] + d - Size
  <1>1. PICK x : x = Hash[k] + d
    OBVIOUS
  <1>2. x \in 0 .. 2 * Size - 1
    BY <1>1, HashAssumption, SizeAssumption DEF Slots
  <1>3. At(k, d) = IF x < Size THEN x ELSE x - Size
    BY <1>1, <1>2, Wrap DEF At
  <1>4. Hash[k] \in Int /\ d \in Int /\ Size \in Int
    BY HashAssumption, SizeAssumption DEF Slots
  <1> QED BY <1>1, <1>3, <1>4

\* A probe of at most Size steps meets no slot twice.
LEMMA AtInjective ==
  ASSUME NEW k \in Keys, NEW d \in Slots, NEW e \in Slots, At(k, d) = At(k, e)
  PROVE  d = e
  <1>1. Hash[k] \in 0 .. Size - 1
    BY HashAssumption
  <1> QED BY <1>1, AtValue, SizeAssumption DEF Slots

\* A probe of Size steps meets every slot.
LEMMA AtSurjective ==
  ASSUME NEW k \in Keys, NEW i \in Slots
  PROVE  \E d \in Slots : At(k, d) = i
  <1> DEFINE d == IF Hash[k] <= i THEN i - Hash[k] ELSE i - Hash[k] + Size
  <1>1. Hash[k] \in 0 .. Size - 1
    BY HashAssumption
  <1>2. d \in Slots
    BY <1>1, SizeAssumption DEF Slots
  <1>3. IF Hash[k] + d < Size THEN Hash[k] + d = i ELSE Hash[k] + d - Size = i
    BY <1>1, SizeAssumption DEF Slots
  <1>4. At(k, d) = i
    <2> HIDE DEF d
    <2> QED BY <1>2, <1>3, AtValue
  <1> QED BY <1>2, <1>4

---------------------------------------------------------------------------
(* Probing                                                                 *)

\* What the probing loop promises: it ends at the first stop, or at its
\* bound.
LEMMA DistanceIsFirst ==
  ASSUME NEW m \in MapType, NEW k \in Keys, NEW bound \in Nat
  PROVE  LET d == Distance(m, k, bound)
         IN  /\ d \in 0 .. bound
             /\ d = bound \/ StopsAt(m, k, d)
             /\ \A e \in 0 .. d - 1 : ~StopsAt(m, k, e)
  <1> DEFINE T == {d \in 0 .. bound : d = bound \/ StopsAt(m, k, d)}
  <1>1. PICK x \in T : \A y \in T : x <= y
    <2>1. T \subseteq Nat /\ bound \in T
      OBVIOUS
    <2> HIDE DEF T
    <2> QED BY <2>1, LeastNatural
  <1>2. \A e \in 0 .. x - 1 : ~StopsAt(m, k, e)
    BY <1>1
  <1>3. \E d \in 0 .. bound : /\ d = bound \/ StopsAt(m, k, d)
                              /\ \A e \in 0 .. d - 1 : ~StopsAt(m, k, e)
    BY <1>1, <1>2
  <1> QED BY <1>3 DEF Distance

\* Occupied slots are finitely many, and at most Size.
LEMMA OccupiedFinite ==
  ASSUME NEW m \in MapType
  PROVE  /\ IsFiniteSet(Occupied(m))
         /\ Cardinality(Occupied(m)) \in 0 .. Size
         /\ Occupied(m) \subseteq Slots
  <1>1. IsFiniteSet(Slots) /\ Cardinality(Slots) = Size
    BY FS_Interval, SizeAssumption DEF Slots
  <1>2. Occupied(m) \in SUBSET Slots
    BY DEF Occupied
  <1> QED BY <1>1, <1>2, FS_Subset, FS_CardinalityType

\* A table that holds a key counts it.
LEMMA KeyIsCounted ==
  ASSUME NEW m, Exact(m), NEW i \in Slots, m.key[i] # Free
  PROVE  m.entries \in Nat /\ m.entries # 0
  <1>1. m \in MapType /\ m.entries = Cardinality(Occupied(m)) /\ m.entries \in Nat
    BY DEF Exact, MapType
  <1>2. IsFiniteSet(Occupied(m)) /\ i \in Occupied(m)
    BY <1>1, OccupiedFinite DEF Occupied
  <1> QED BY <1>1, <1>2, FS_EmptySet

\* A run of occupied slots along a probe is no longer than there are
\* occupied slots.
LEMMA OccupiedRun ==
  ASSUME NEW m, Exact(m), NEW k \in Keys, NEW n \in Slots,
         \A e \in 0 .. n : m.key[At(k, e)] # Free
  PROVE  n < m.entries
  <1> DEFINE f == [e \in 0 .. n |-> At(k, e)]
  <1>1. n \in Nat /\ 0 .. n \subseteq Slots
    BY SizeAssumption DEF Slots
  <1>2. f \in [0 .. n -> Occupied(m)]
    <2> SUFFICES ASSUME NEW e \in 0 .. n
                 PROVE  At(k, e) \in Occupied(m)
      OBVIOUS
    <2>1. e \in Nat
      OBVIOUS
    <2> QED BY <2>1, AtType DEF Occupied
  <1>3. \A d, e \in 0 .. n : f[d] = f[e] => d = e
    BY <1>1, AtInjective
  <1>4. IsFiniteSet(0 .. n) /\ Cardinality(0 .. n) = n + 1
    BY <1>1, FS_Interval
  <1>5. IsFiniteSet(Occupied(m)) /\ m.entries \in Nat
    BY OccupiedFinite DEF Exact, MapType
  <1> HIDE DEF f
  <1>6. ASSUME Cardinality(Occupied(m)) < Cardinality(0 .. n)
        PROVE  FALSE
    <2>1. \E d, e \in 0 .. n : d # e /\ f[d] = f[e]
      BY <1>2, <1>4, <1>5, <1>6, FS_PigeonHole
    <2> QED BY <2>1, <1>3
  <1> QED BY <1>1, <1>4, <1>5, <1>6 DEF Exact

\* In a table with room, the loop of put, get and has stops before its
\* bound cuts it off: at the key or at a free slot.
LEMMA ProbeEnds ==
  ASSUME NEW m, Exact(m), NEW k \in Keys, ~Full(m)
  PROVE  LET d == Distance(m, k, ProbeBound(m))
         IN  /\ d \in 0 .. m.entries
             /\ StopsAt(m, k, d)
             /\ m.entries > 0 => d < ProbeBound(m)
  <1> DEFINE n == m.entries
             d == Distance(m, k, ProbeBound(m))
  <1>1. n \in Nat /\ n < Size /\ m \in MapType
    BY SizeAssumption DEF Exact, MapType, Full
  <1>2. ProbeBound(m) \in Nat /\ ProbeBound(m) = 2 * n
    BY <1>1 DEF ProbeBound
  <1>3. /\ d \in 0 .. ProbeBound(m)
        /\ d = ProbeBound(m) \/ StopsAt(m, k, d)
        /\ \A e \in 0 .. d - 1 : ~StopsAt(m, k, e)
    BY <1>1, <1>2, DistanceIsFirst
  <1>4. PICK e \in 0 .. n : m.key[At(k, e)] = Free
    <2>1. n \in Slots
      BY <1>1, SizeAssumption DEF Slots
    <2>2. ASSUME \A e \in 0 .. n : m.key[At(k, e)] # Free
          PROVE  FALSE
      <3>1. n < m.entries
        BY <2>1, <2>2, OccupiedRun
      <3> QED BY <1>1, <3>1
    <2> QED BY <2>2
  <1>5. StopsAt(m, k, e)
    BY <1>4 DEF StopsAt
  <1>6. d <= e
    BY <1>1, <1>2, <1>3, <1>5
  <1>7. d = e => StopsAt(m, k, d)
    BY <1>5
  <1> QED BY <1>1, <1>2, <1>3, <1>4, <1>6, <1>7

\* The slot put and get claim for a key they have not found is free.
LEMMA FreeFound ==
  ASSUME NEW m, Exact(m), NEW k \in Keys, ~Full(m), ~Has(m, k)
  PROVE  /\ ProbeSlot(m, k) \in Slots
         /\ m.key[ProbeSlot(m, k)] = Free
  <1> DEFINE d == Distance(m, k, ProbeBound(m))
  <1>1. /\ d \in 0 .. m.entries
        /\ StopsAt(m, k, d)
        /\ m.entries > 0 => d < ProbeBound(m)
    BY ProbeEnds
  <1>2. m \in MapType /\ m.entries \in Nat
    BY DEF Exact, MapType
  <1>3. d \in Nat /\ At(k, d) \in Slots
    BY <1>1, <1>2, AtType
  <1>4. CASE m.entries > 0
    BY <1>1, <1>3, <1>4 DEF Has, FoundWithin, StopsAt, ProbeSlot
  <1>5. CASE m.entries = 0
    <2>1. Occupied(m) = {}
      BY <1>2, <1>5, OccupiedFinite, FS_EmptySet DEF Exact
    <2> QED BY <1>3, <2>1 DEF Occupied, ProbeSlot
  <1> QED BY <1>2, <1>4, <1>5

\* The slot a probe has found a key in is a slot, and holds the key.
LEMMA FoundSlot ==
  ASSUME NEW m \in MapType, NEW k \in Keys, NEW bound \in Nat, FoundWithin(m, k, bound)
  PROVE  /\ At(k, Distance(m, k, bound)) \in Occupied(m)
         /\ m.key[At(k, Distance(m, k, bound))] = k
  <1> DEFINE d == Distance(m, k, bound)
  <1>1. d \in Nat
    BY DistanceIsFirst
  <1>2. At(k, d) \in Slots
    BY <1>1, AtType
  <1> QED BY <1>2, FreeAssumption DEF FoundWithin, Occupied

---------------------------------------------------------------------------
(* The operations keep the table exact                                     *)

LEMMA EmptyExact == Exact(EmptyMap)
  <1>1. Occupied(EmptyMap) = {}
    BY DEF Occupied, EmptyMap
  <1> QED BY <1>1, FS_EmptySet, ZeroAssumption DEF Exact, EmptyMap, MapType

\* Claiming a free slot.
LEMMA OccupyExact ==
  ASSUME NEW m, Exact(m), NEW i \in Slots, m.key[i] = Free, NEW k \in Keys, NEW v \in Values
  PROVE  Exact(Occupy(m, i, k, v))
  <1>1. m \in MapType
    BY DEF Exact
  <1>2. Occupied(Occupy(m, i, k, v)) = Occupied(m) \cup {i}
    BY <1>1, FreeAssumption DEF Occupied, Occupy, MapType
  <1>3. i \notin Occupied(m)
    BY DEF Occupied
  <1>4. Cardinality(Occupied(m) \cup {i}) = Cardinality(Occupied(m)) + 1
    BY <1>1, <1>3, OccupiedFinite, FS_AddElement
  <1>5. Occupy(m, i, k, v) \in MapType
    BY <1>1 DEF Occupy, MapType
  <1>6. Occupy(m, i, k, v).entries = m.entries + 1
    BY DEF Occupy
  <1> QED BY <1>2, <1>4, <1>5, <1>6 DEF Exact

\* Overwriting the value in a slot.
LEMMA SetValueExact ==
  ASSUME NEW m, Exact(m), NEW i \in Slots, NEW v \in Values
  PROVE  Exact([m EXCEPT !.value[i] = v])
  BY DEF Exact, MapType, Occupied

LEMMA PutExact ==
  ASSUME NEW m, Exact(m), NEW k \in Keys, NEW v \in Values
  PROVE  Exact(Put(m, k, v))
  <1>1. CASE Has(m, k)
    <2>1. ProbeSlot(m, k) \in Slots
      <3>1. m \in MapType /\ ProbeBound(m) \in Nat
        BY DEF Exact, MapType, ProbeBound
      <3> QED BY <1>1, <3>1, FoundSlot DEF Has, ProbeSlot, Occupied
    <2> QED BY <1>1, <2>1, SetValueExact DEF Put
  <1>2. CASE ~Has(m, k) /\ Full(m)
    BY <1>2 DEF Put
  <1>3. CASE ~Has(m, k) /\ ~Full(m)
    BY <1>3, FreeFound, OccupyExact DEF Put
  <1> QED BY <1>1, <1>2, <1>3

LEMMA GetExact ==
  ASSUME NEW m, Exact(m), NEW k \in Keys
  PROVE  Exact(GetMap(m, k)) /\ m.value[GetSlot(m, k)] \in Values
  <1>1. m \in MapType /\ ProbeBound(m) \in Nat
    BY DEF Exact, MapType, ProbeBound
  <1>2. ProbeSlot(m, k) \in Slots
    <2>1. Distance(m, k, ProbeBound(m)) \in Nat
      BY <1>1, DistanceIsFirst
    <2> QED BY <2>1, AtType DEF ProbeSlot
  <1>3. GetSlot(m, k) \in Slots
    BY <1>2, SizeAssumption DEF GetSlot, Slots
  <1>4. m.value[ProbeSlot(m, k)] \in Values /\ m.value[GetSlot(m, k)] \in Values
    BY <1>1, <1>2, <1>3 DEF MapType
  <1>5. CASE Has(m, k) \/ Full(m)
    BY <1>4, <1>5 DEF GetMap
  <1>6. CASE ~(Has(m, k) \/ Full(m))
    BY <1>4, <1>6, FreeFound, OccupyExact DEF GetMap
  <1> QED BY <1>5, <1>6

LEMMA RemoveExact ==
  ASSUME NEW m, Exact(m), NEW k \in Keys
  PROVE  Exact(RemoveMap(m, k))
  <1> DEFINE i == At(k, Distance(m, k, Size))
             r == [m EXCEPT !.key[i] = Free, !.entries = @ - 1]
  <1>1. m \in MapType
    BY DEF Exact
  <1>2. CASE FoundWithin(m, k, Size)
    <2>1. i \in Occupied(m)
      BY <1>1, <1>2, FoundSlot, SizeAssumption
    <2>2. RemoveMap(m, k) = r
      BY <1>2 DEF RemoveMap
    <2> HIDE DEF i
    <2>3. Occupied(r) = Occupied(m) \ {i}
      BY <1>1, <2>1 DEF Occupied, MapType
    <2>4. Cardinality(Occupied(m) \ {i}) = Cardinality(Occupied(m)) - 1
      BY <1>1, <2>1, OccupiedFinite, FS_RemoveElement
    <2>5. m.entries > 0
      BY <1>1, <2>1, OccupiedFinite, FS_EmptySet DEF Exact, MapType
    <2>6. r \in MapType
      <3>1. i \in Slots /\ m.entries - 1 \in Nat
        BY <1>1, <2>1, <2>5 DEF MapType, Occupied
      <3> QED BY <1>1, <3>1 DEF MapType
    <2>7. r.entries = m.entries - 1
      BY <1>1 DEF MapType
    <2> QED BY <2>2, <2>3, <2>4, <2>6, <2>7 DEF Exact
  <1>3. CASE ~FoundWithin(m, k, Size)
    BY <1>3 DEF RemoveMap
  <1> QED BY <1>2, <1>3

\* A walk that stops at the counter has met every occupied slot.
LEMMA VisitedIsOccupied ==
  ASSUME NEW m, Exact(m)
  PROVE  Visited(m) = Occupied(m)
  <1>1. IsFiniteSet(Occupied(m)) /\ Occupied(m) \subseteq Slots /\ m.entries = Cardinality(Occupied(m))
    BY OccupiedFinite DEF Exact
  <1>2. ASSUME NEW i \in Occupied(m)
        PROVE  Cardinality({j \in Occupied(m) : j < i}) < m.entries
    <2> DEFINE T == {j \in Occupied(m) : j < i}
    <2>1. T \in SUBSET Occupied(m) /\ T # Occupied(m)
      <3>1. i \notin T
        BY <1>1 DEF Slots
      <3> QED BY <3>1
    <2>2. Cardinality(T) <= m.entries /\ Cardinality(T) # m.entries
      BY <1>1, <2>1, FS_Subset
    <2>3. Cardinality(T) \in Nat /\ m.entries \in Nat
      BY <1>1, <2>1, FS_Subset, FS_CardinalityType
    <2> QED BY <2>2, <2>3
  <1> QED BY <1>2 DEF Visited

---------------------------------------------------------------------------
(* The keys a table holds                                                  *)

Held(m) == {m.key[i] : i \in Occupied(m)}

\* A probe for the key in slot i gets there: nothing on the way stops it.
Chained(m, i) ==
  \E d \in Slots : /\ At(m.key[i], d) = i
                   /\ \A e \in 0 .. d - 1 : ~StopsAt(m, m.key[i], e)

\* Every key can be found, in one slot.
Chains(m) == \A i \in Occupied(m) : Chained(m, i)

\* Every key is in the slot of its hash.
AllHome(m) == \A i \in Occupied(m) : Hash[m.key[i]] = i

\* An occupied slot holds a key.
LEMMA HeldIsKey ==
  ASSUME NEW m \in MapType, NEW i \in Occupied(m)
  PROVE  i \in Slots /\ m.key[i] \in Keys /\ m.key[i] # Free
  BY DEF Occupied, MapType

\* A probe with enough steps ends where the chain of a key does.
LEMMA ChainEnds ==
  ASSUME NEW m \in MapType, NEW k \in Keys, NEW bound \in Nat, NEW d \in Slots, d < bound,
         m.key[At(k, d)] = k, \A e \in 0 .. d - 1 : ~StopsAt(m, k, e)
  PROVE  Distance(m, k, bound) = d /\ FoundWithin(m, k, bound)
  <1> DEFINE x == Distance(m, k, bound)
  <1>1. /\ x \in 0 .. bound
        /\ x = bound \/ StopsAt(m, k, x)
        /\ \A e \in 0 .. x - 1 : ~StopsAt(m, k, e)
    BY DistanceIsFirst
  <1>2. StopsAt(m, k, d) /\ d \in Nat
    BY SizeAssumption DEF StopsAt, Slots
  <1> HIDE DEF x
  <1>3. x = d
    BY <1>1, <1>2
  <1> QED BY <1>3 DEF x, FoundWithin

\* In a table of chains has() finds every key, in its slot.
LEMMA HeldFound ==
  ASSUME NEW m, Exact(m), Chains(m), NEW i \in Occupied(m), NEW k, k = m.key[i]
  PROVE  /\ Has(m, k) /\ ProbeSlot(m, k) = i
         /\ FoundWithin(m, k, Size) /\ At(k, Distance(m, k, Size)) = i
  <1>1. m \in MapType /\ k \in Keys /\ k # Free /\ i \in Slots
    BY HeldIsKey DEF Exact
  <1>2. PICK d \in Slots : At(k, d) = i /\ \A e \in 0 .. d - 1 : ~StopsAt(m, k, e)
    BY DEF Chains, Chained
  <1>3. \A e \in 0 .. d : m.key[At(k, e)] # Free
    <2>1. ASSUME NEW e \in 0 .. d PROVE m.key[At(k, e)] # Free
      <3>1. e = d \/ e \in 0 .. d - 1
        BY DEF Slots
      <3> QED BY <1>1, <1>2, <3>1 DEF StopsAt
    <2> QED BY <2>1
  <1>4. d < m.entries /\ m.entries \in Nat /\ d \in Nat /\ d < Size
    BY <1>1, <1>3, OccupiedRun, SizeAssumption DEF MapType, Slots
  <1>5. ProbeBound(m) \in Nat /\ d < ProbeBound(m)
    BY <1>4 DEF ProbeBound
  <1>6. Distance(m, k, ProbeBound(m)) = d /\ FoundWithin(m, k, ProbeBound(m))
    BY <1>1, <1>2, <1>5, ChainEnds
  <1>7. Distance(m, k, Size) = d /\ FoundWithin(m, k, Size)
    BY <1>1, <1>2, <1>4, SizeAssumption, ChainEnds
  <1> QED BY <1>2, <1>6, <1>7 DEF Has, ProbeSlot

\* has() finds a key only where it is.
LEMMA FoundHeld ==
  ASSUME NEW m, Exact(m), NEW k \in Keys, Has(m, k)
  PROVE  /\ ProbeSlot(m, k) \in Occupied(m) /\ m.key[ProbeSlot(m, k)] = k
         /\ k \in Held(m)
  <1>1. m \in MapType /\ ProbeBound(m) \in Nat
    BY DEF Exact, MapType, ProbeBound
  <1> QED BY <1>1, FoundSlot DEF Has, ProbeSlot, Held

\* In a table of chains, what is held is what has() finds, and no key is in
\* two slots: the counter is the number of keys.
LEMMA HeldCounted ==
  ASSUME NEW m, Exact(m), Chains(m)
  PROVE  /\ {k \in Keys : Has(m, k)} = Held(m)
         /\ \A i, j \in Occupied(m) : m.key[i] = m.key[j] => i = j
         /\ Cardinality(Held(m)) = m.entries
  <1>1. m \in MapType /\ IsFiniteSet(Occupied(m))
    BY OccupiedFinite DEF Exact
  <1>2. {k \in Keys : Has(m, k)} = Held(m)
    <2>1. \A k \in Keys : Has(m, k) => k \in Held(m)
      BY FoundHeld
    <2>2. \A i \in Occupied(m) : m.key[i] \in Keys /\ Has(m, m.key[i])
      BY <1>1, HeldIsKey, HeldFound
    <2> QED BY <2>1, <2>2 DEF Held
  <1>3. ASSUME NEW i \in Occupied(m), NEW j \in Occupied(m), m.key[i] = m.key[j] PROVE i = j
    <2>1. ProbeSlot(m, m.key[i]) = i
      BY HeldFound
    <2>2. ProbeSlot(m, m.key[i]) = j
      BY <1>3, HeldFound
    <2> QED BY <2>1, <2>2
  <1>4. Cardinality(Held(m)) = Cardinality(Occupied(m))
    <2> DEFINE f == [i \in Occupied(m) |-> m.key[i]]
    <2>1. f \in Bijection(Occupied(m), Held(m))
      <3>1. f \in [Occupied(m) -> Held(m)]
        BY DEF Held
      <3>2. \A i, j \in Occupied(m) : f[i] = f[j] => i = j
        BY <1>3
      <3>3. \A k \in Held(m) : \E i \in Occupied(m) : f[i] = k
        BY DEF Held
      <3> HIDE DEF f
      <3> QED BY <3>1, <3>2, <3>3 DEF Bijection, Injection, IsInjective, Surjection
    <2> QED BY <1>1, <2>1, FS_Bijection DEF ExistsBijection
  <1> QED BY <1>2, <1>3, <1>4 DEF Exact
---------------------------------------------------------------------------
(* The operations keep the chains                                          *)

\* A key that has() does not find goes to the end of its probe, past which
\* no other key is disturbed.
LEMMA ClaimChains ==
  ASSUME NEW m, Exact(m), Chains(m), NEW k \in Keys, ~Full(m), ~Has(m, k), NEW v \in Values,
         NEW s, s = ProbeSlot(m, k)
  PROVE  LET n == Occupy(m, s, k, v) IN
         /\ Exact(n) /\ Chains(n) /\ Occupied(n) = Occupied(m) \cup {s} /\ s \in Slots \ Occupied(m)
         /\ n.key[s] = k /\ n.value[s] = v
         /\ \A i \in Occupied(m) : n.key[i] = m.key[i] /\ n.value[i] = m.value[i]
         /\ Held(n) = Held(m) \cup {k} /\ k \notin Held(m)
         /\ (AllHome(m) /\ (\A j \in Held(m) : Hash[j] # Hash[k])) => AllHome(n)
  <1> DEFINE n == Occupy(m, s, k, v)
             d == Distance(m, k, ProbeBound(m))
  <1>1. m \in MapType /\ m.entries \in Nat /\ m.entries < Size
    BY SizeAssumption DEF Exact, MapType, Full
  <1>2. s \in Slots /\ m.key[s] = Free
    BY FreeFound
  <1>3. /\ n.key = [m.key EXCEPT ![s] = k] /\ n.value = [m.value EXCEPT ![s] = v]
    BY DEF Occupy
  <1>4. Exact(n)
    BY <1>2, OccupyExact
  <1>5. /\ n.key[s] = k /\ n.value[s] = v /\ k # Free
        /\ \A i \in Slots : i # s => n.key[i] = m.key[i] /\ n.value[i] = m.value[i]
    BY <1>1, <1>2, <1>3, FreeAssumption DEF MapType
  <1>6. Occupied(n) = Occupied(m) \cup {s} /\ s \notin Occupied(m)
    BY <1>2, <1>5 DEF Occupied
  <1>7. \A i \in Occupied(m) : i \in Slots /\ i # s /\ n.key[i] = m.key[i] /\ n.value[i] = m.value[i]
    BY <1>5, <1>6 DEF Occupied
  <1>8. k \notin Held(m)
    BY HeldCounted
  <1>9. Held(n) = Held(m) \cup {k}
    BY <1>5, <1>6, <1>7 DEF Held
  <1> HIDE DEF n
  <1>10. /\ d \in Slots /\ At(k, d) = s /\ \A e \in 0 .. d - 1 : ~StopsAt(m, k, e)
    <2>1. d \in 0 .. m.entries
      BY ProbeEnds
    <2>2. ProbeBound(m) \in Nat
      BY <1>1 DEF ProbeBound
    <2>3. \A e \in 0 .. d - 1 : ~StopsAt(m, k, e)
      BY <1>1, <2>2, DistanceIsFirst
    <2> HIDE DEF d
    <2>4. d \in Slots
      BY <1>1, <2>1, SizeAssumption DEF Slots
    <2>5. At(k, d) = s
      BY DEF ProbeSlot, d
    <2> QED BY <2>3, <2>4, <2>5
  <1> HIDE DEF d
  <1>11. ASSUME NEW j \in Keys, NEW e \in Nat, ~StopsAt(m, j, e) PROVE At(j, e) # s /\ (StopsAt(n, j, e) <=> StopsAt(m, j, e))
    <2>1. At(j, e) \in Slots
      BY AtType
    <2>2. At(j, e) # s
      BY <1>2, <1>11 DEF StopsAt
    <2> QED BY <1>5, <2>1, <2>2 DEF StopsAt
  <1>12. ASSUME NEW i \in Occupied(n) PROVE Chained(n, i)
    <2>1. CASE i = s
      <3>1. \A e \in 0 .. d - 1 : ~StopsAt(n, k, e)
        <4>1. ASSUME NEW e \in 0 .. d - 1 PROVE ~StopsAt(n, k, e)
          <5>1. e \in Nat /\ ~StopsAt(m, k, e)
            BY <1>10, <4>1
          <5> QED BY <1>11, <5>1
        <4> QED BY <4>1
      <3> QED BY <1>5, <1>10, <2>1, <3>1 DEF Chained
    <2>2. CASE i # s
      <3>1. i \in Occupied(m) /\ n.key[i] = m.key[i] /\ m.key[i] \in Keys
        BY <1>1, <1>6, <1>7, <2>2, HeldIsKey
      <3>2. PICK x \in Slots : At(m.key[i], x) = i /\ \A e \in 0 .. x - 1 : ~StopsAt(m, m.key[i], e)
        BY <3>1 DEF Chains, Chained
      <3>3. \A e \in 0 .. x - 1 : ~StopsAt(n, m.key[i], e)
        <4>1. ASSUME NEW e \in 0 .. x - 1 PROVE ~StopsAt(n, m.key[i], e)
          <5>1. e \in Nat /\ ~StopsAt(m, m.key[i], e)
            BY <3>2, <4>1
          <5> QED BY <1>11, <3>1, <5>1
        <4> QED BY <4>1
      <3> QED BY <3>1, <3>2, <3>3 DEF Chained
    <2> QED BY <2>1, <2>2
  <1>13. ASSUME AllHome(m), \A j \in Held(m) : Hash[j] # Hash[k] PROVE AllHome(n)
    <2>1. At(k, 0) = Hash[k] /\ Hash[k] \in Slots /\ 0 \in Slots
      BY HashAssumption, SizeAssumption, AtValue DEF Slots
    <2>2. Hash[k] \notin Occupied(m)
      BY <1>13 DEF AllHome, Held
    <2>3. StopsAt(m, k, 0)
      BY <2>1, <2>2 DEF StopsAt, Occupied
    <2>4. d = 0
      BY <1>10, <2>3 DEF Slots
    <2> QED BY <1>5, <1>6, <1>7, <1>10, <1>13, <2>1, <2>4 DEF AllHome
  <1>14. Chains(n)
    BY <1>12 DEF Chains
  <1> QED BY <1>2, <1>4, <1>5, <1>6, <1>7, <1>8, <1>9, <1>13, <1>14 DEF n

\* A value is overwritten in the slot where has() finds its key.
LEMMA OverwriteChains ==
  ASSUME NEW m, Exact(m), Chains(m), NEW i \in Occupied(m), NEW v \in Values
  PROVE  LET n == [m EXCEPT !.value[i] = v] IN
         /\ Exact(n) /\ Chains(n) /\ Occupied(n) = Occupied(m) /\ n.key = m.key /\ Held(n) = Held(m)
         /\ n.value = [m.value EXCEPT ![i] = v] /\ (AllHome(m) => AllHome(n))
  <1> DEFINE n == [m EXCEPT !.value[i] = v]
  <1>1. m \in MapType /\ i \in Slots
    BY HeldIsKey DEF Exact
  <1>2. n.key = m.key /\ n.value = [m.value EXCEPT ![i] = v]
    BY <1>1 DEF MapType
  <1>3. Exact(n)
    BY <1>1, SetValueExact
  <1> HIDE DEF n
  <1>4. Occupied(n) = Occupied(m)
    BY <1>2 DEF Occupied
  <1>5. Chains(n)
    BY <1>2, <1>4 DEF Chains, Chained, StopsAt
  <1>6. Held(n) = Held(m) /\ (AllHome(m) => AllHome(n))
    BY <1>2, <1>4 DEF Held, AllHome
  <1> QED BY <1>2, <1>3, <1>4, <1>5, <1>6 DEF n

\* A key at home is found at the first step.
LEMMA HomeChains ==
  ASSUME NEW m, Exact(m), AllHome(m)
  PROVE  Chains(m)
  <1>1. ASSUME NEW i \in Occupied(m) PROVE Chained(m, i)
    <2>1. i \in Slots /\ m.key[i] \in Keys /\ Hash[m.key[i]] = i
      BY HeldIsKey DEF Exact, AllHome
    <2>2. 0 \in Slots /\ At(m.key[i], 0) = i
      BY <2>1, AtValue, SizeAssumption DEF Slots
    <2> QED BY <2>2 DEF Chained
  <1> QED BY <1>1 DEF Chains

\* Where every key is at home, a removal breaks no chain.
LEMMA RemoveChains ==
  ASSUME NEW m, Exact(m), AllHome(m), NEW k \in Keys
  PROVE  LET n == RemoveMap(m, k) IN
         /\ Exact(n) /\ AllHome(n) /\ n.value = m.value
         /\ Held(n) = Held(m) \ {k} /\ Occupied(n) \subseteq Occupied(m)
         /\ \A i \in Occupied(n) : n.key[i] = m.key[i]
  <1> DEFINE n == RemoveMap(m, k)
  <1>1. m \in MapType
    BY DEF Exact
  <1>2. Exact(n)
    BY RemoveExact
  <1>3. CASE FoundWithin(m, k, Size)
    <2> DEFINE i == At(k, Distance(m, k, Size))
    <2>1. i \in Occupied(m) /\ m.key[i] = k /\ i \in Slots
      BY <1>1, <1>3, FoundSlot, SizeAssumption DEF Occupied
    <2>2. n.key = [m.key EXCEPT ![i] = Free] /\ n.value = m.value
      BY <1>1, <1>3 DEF RemoveMap, MapType
    <2> HIDE DEF i, n
    <2>3. Occupied(n) = Occupied(m) \ {i} /\ \A j \in Occupied(n) : n.key[j] = m.key[j]
      BY <1>1, <2>1, <2>2 DEF Occupied, MapType
    <2>4. \A j \in Occupied(m) : m.key[j] = k => j = i
      BY <2>1 DEF AllHome
    <2>5. Held(n) = Held(m) \ {k}
      BY <2>1, <2>3, <2>4 DEF Held
    <2>6. AllHome(n)
      BY <2>3 DEF AllHome
    <2> QED BY <1>2, <2>2, <2>3, <2>5, <2>6 DEF n
  <1>4. CASE ~FoundWithin(m, k, Size)
    <2>1. n = m
      BY <1>4 DEF RemoveMap
    <2>2. Chains(m)
      BY HomeChains
    <2>3. k \notin Held(m)
      BY <1>4, <2>2, HeldFound DEF Held
    <2> QED BY <1>2, <2>1, <2>3
  <1> QED BY <1>3, <1>4
=============================================================================
