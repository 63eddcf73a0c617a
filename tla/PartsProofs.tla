----------------------------- MODULE PartsProofs -----------------------------
(***************************************************************************)
(* The theorems about the parts that are modelled on their own: a StackMap *)
(* and its calls, that it implements the map of AbstractMap where no       *)
(* removal can break a chain; a StackVec as a sequence; the heaps of       *)
(* threads and of names with their table; and the page fault handler.      *)
(* They hold for every size, key set and hash function, and for any        *)
(* threads, objects and pages.                                             *)
(***************************************************************************)
EXTENDS StackMap, StackMapOpsProofs, StackVec, BkHeaps, FaultsProps, SequenceTheorems

---------------------------------------------------------------------------
(* A StackMap                                                              *)


\* The inductive invariant: the table is well formed and its counter exact.
\* Well-formedness alone is not inductive: without the exact count a
\* removal could take the counter below zero.
MapInv == Exact(m) /\ ret \in {None} \cup BOOLEAN \cup Values

LEMMA MapInvInit == Init => MapInv
  BY EmptyExact DEF Init, MapInv

LEMMA MapInvNext == MapInv /\ [Next]_vars => MapInv'
  <1> SUFFICES ASSUME MapInv, [Next]_vars
               PROVE  MapInv'
    OBVIOUS
  <1>1. ASSUME NEW k \in Keys, NEW v \in Values, put(k, v)
        PROVE  MapInv'
    BY <1>1, PutExact DEF put, MapInv
  <1>2. ASSUME NEW k \in Keys, get(k)
        PROVE  MapInv'
    BY <1>2, GetExact DEF get, MapInv
  <1>3. ASSUME NEW k \in Keys, has(k)
        PROVE  MapInv'
    BY <1>3 DEF has, MapInv, Has, FoundWithin
  <1>4. ASSUME NEW k \in Removable, remove(k)
        PROVE  MapInv'
    BY <1>4, RemoveExact, RemovableAssumption DEF remove, MapInv
  <1>5. CASE clear
    BY <1>5, EmptyExact DEF clear, MapInv
  <1>6. CASE UNCHANGED vars
    BY <1>6 DEF vars, MapInv
  <1> QED BY <1>1, <1>2, <1>3, <1>4, <1>5, <1>6 DEF Next

THEOREM MapInductive == Spec => []MapInv
  BY MapInvInit, MapInvNext, PTL DEF Spec

\* A StackMap stays well formed whatever its owner calls.
THEOREM TypeCorrect == Spec => []TypeOK
  <1>1. MapInv => TypeOK
    BY DEF MapInv, Exact, TypeOK
  <1> QED BY <1>1, MapInductive, PTL

\* The counter that full(), the probing loops and the iteration trust is
\* the number of occupied slots: put and get never overwrite an occupied
\* slot, although their loop may be cut off by its bound.
THEOREM CounterIsExact == Spec => []EntriesExact
  <1>1. MapInv => EntriesExact
    BY DEF MapInv, Exact, EntriesExact
  <1> QED BY <1>1, MapInductive, PTL

\* Giving up after num_entries() * 2 steps never misses a key that a probe
\* of the whole table would find.
THEOREM ProbesAreComplete == Spec => []ProbeComplete
  <1>1. ASSUME MapInv PROVE ProbeComplete
    <2> SUFFICES ASSUME NEW k \in Keys
                 PROVE  Has(m, k) <=> \E d \in 0 .. Size - 1 :
                                        /\ m.key[At(k, d)] = k
                                        /\ \A e \in 0 .. d : m.key[At(k, e)] # Free
      BY DEF ProbeComplete
    <2> DEFINE b == ProbeBound(m)
               x == Distance(m, k, b)
    <2>1. m \in MapType /\ m.entries \in Nat /\ b \in Nat /\ b = 2 * m.entries
      BY <1>1 DEF MapInv, Exact, MapType, ProbeBound
    <2>2. /\ x \in 0 .. b
          /\ x = b \/ StopsAt(m, k, x)
          /\ \A e \in 0 .. x - 1 : ~StopsAt(m, k, e)
      BY <2>1, DistanceIsFirst
    <2> HIDE DEF x, b
    <2>3. ASSUME Has(m, k)
          PROVE  \E d \in 0 .. Size - 1 : /\ m.key[At(k, d)] = k
                                          /\ \A e \in 0 .. d : m.key[At(k, e)] # Free
      <3>1. m.key[At(k, x)] = k
        BY <2>3 DEF Has, FoundWithin, x, b
      <3>2. \A e \in 0 .. x : m.key[At(k, e)] # Free
        BY <2>1, <2>2, <3>1, FreeAssumption DEF StopsAt
      <3>3. At(k, x) \in Slots
        BY <2>1, <2>2, AtType
      <3>4. PICK e \in Slots : At(k, e) = At(k, x)
        BY <3>3, AtSurjective
      <3>5. StopsAt(m, k, e)
        BY <3>1, <3>4 DEF StopsAt
      <3>6. x <= e /\ x \in Nat
        BY <2>1, <2>2, <3>5 DEF Slots
      <3> QED BY <3>1, <3>2, <3>6, SizeAssumption DEF Slots
    <2>4. ASSUME NEW d \in 0 .. Size - 1, m.key[At(k, d)] = k,
                 \A e \in 0 .. d : m.key[At(k, e)] # Free
          PROVE  Has(m, k)
      <3>1. d < m.entries
        BY <1>1, <2>4, OccupiedRun DEF MapInv, Slots
      <3>2. StopsAt(m, k, d)
        BY <2>4 DEF StopsAt
      <3>3. x <= d
        BY <2>1, <2>2, <3>2
      <3>4. x < b /\ StopsAt(m, k, x)
        BY <2>1, <2>2, <3>1, <3>3
      <3>5. m.key[At(k, x)] # Free
        BY <2>1, <2>2, <2>4, <3>3
      <3> QED BY <3>4, <3>5 DEF StopsAt, Has, FoundWithin, x, b
    <2> QED BY <2>3, <2>4
  <1> QED BY <1>1, MapInductive, PTL

\* map() and reduce() hand over every occupied slot although they stop
\* once the counter says so.
THEOREM IterationsAreComplete == Spec => []IterationComplete
  <1>1. MapInv => IterationComplete
    BY VisitedIsOccupied DEF MapInv, IterationComplete
  <1> QED BY <1>1, MapInductive, PTL

---------------------------------------------------------------------------
(* The map a table stands for                                              *)

\* The values that get() returns of the keys that has() finds.
MapOf(t) == [k \in {j \in Keys : Has(t, j)} |-> t.value[ProbeSlot(t, k)]]

\* The map with k at v.
Updated(t, k, v) == [x \in Held(t) \cup {k} |-> IF x = k THEN v ELSE MapOf(t)[x]]

\* The value of a key is the one in its slot.
LEMMA ContentsInSlots ==
  ASSUME NEW t, Exact(t), Chains(t)
  PROVE  /\ MapOf(t) = [k \in Held(t) |-> MapOf(t)[k]] /\ DOMAIN MapOf(t) = Held(t)
         /\ \A i \in Occupied(t) : MapOf(t)[t.key[i]] = t.value[i]
  <1>1. {j \in Keys : Has(t, j)} = Held(t)
    BY HeldCounted
  <1>2. MapOf(t) = [k \in Held(t) |-> t.value[ProbeSlot(t, k)]]
    BY <1>1 DEF MapOf
  <1>3. ASSUME NEW i \in Occupied(t) PROVE MapOf(t)[t.key[i]] = t.value[i]
    <2>1. t.key[i] \in Held(t)
      BY DEF Held
    <2>2. ProbeSlot(t, t.key[i]) = i
      BY HeldFound
    <2> QED BY <1>2, <2>1, <2>2
  <1> QED BY <1>2, <1>3

\* Two tables with the same keys and the same values in their slots stand
\* for the same map.
LEMMA SameContents ==
  ASSUME NEW n, Exact(n), Chains(n), NEW f, f = [k \in Held(n) |-> f[k]],
         \A i \in Occupied(n) : f[n.key[i]] = n.value[i]
  PROVE  MapOf(n) = f
  <1>1. ASSUME NEW k \in Held(n) PROVE MapOf(n)[k] = f[k]
    <2>1. PICK i \in Occupied(n) : k = n.key[i]
      BY DEF Held
    <2>2. MapOf(n)[n.key[i]] = n.value[i]
      BY ContentsInSlots
    <2> QED BY <2>1, <2>2
  <1>2. MapOf(n) = [k \in Held(n) |-> MapOf(n)[k]]
    BY ContentsInSlots
  <1> QED BY <1>1, <1>2

\* Claiming a slot for a new key adds it, and a full table has Size keys.
LEMMA ClaimContents ==
  ASSUME NEW t, Exact(t), Chains(t), NEW k \in Keys, ~Full(t), ~Has(t, k), NEW v \in Values
  PROVE  LET n == Occupy(t, ProbeSlot(t, k), k, v) IN
         Exact(n) /\ Chains(n) /\ MapOf(n) = Updated(t, k, v)
  <1> DEFINE s == ProbeSlot(t, k)
             n == Occupy(t, s, k, v)
  <1>1. /\ Exact(n) /\ Chains(n) /\ Occupied(n) = Occupied(t) \cup {s} /\ s \in Slots \ Occupied(t)
        /\ n.key[s] = k /\ n.value[s] = v
        /\ \A i \in Occupied(t) : n.key[i] = t.key[i] /\ n.value[i] = t.value[i]
        /\ Held(n) = Held(t) \cup {k} /\ k \notin Held(t)
    BY ClaimChains
  <1> HIDE DEF n, s
  <1>2. Updated(t, k, v) = [x \in Held(n) |-> Updated(t, k, v)[x]]
    BY <1>1 DEF Updated
  <1>3. ASSUME NEW i \in Occupied(n) PROVE Updated(t, k, v)[n.key[i]] = n.value[i]
    <2>1. CASE i = s
      BY <1>1, <2>1 DEF Updated
    <2>2. CASE i # s
      <3>1. i \in Occupied(t) /\ n.key[i] = t.key[i] /\ t.key[i] \in Held(t) /\ t.key[i] # k
        BY <1>1, <1>3, <2>2 DEF Held
      <3>2. MapOf(t)[t.key[i]] = t.value[i]
        BY <3>1, ContentsInSlots
      <3> QED BY <1>1, <3>1, <3>2 DEF Updated
    <2> QED BY <2>1, <2>2
  <1>4. MapOf(n) = Updated(t, k, v)
    BY <1>1, <1>2, <1>3, SameContents
  <1> QED BY <1>1, <1>4 DEF n, s

\* A table is full when it holds Size keys.
LEMMA FullIsFull ==
  ASSUME NEW t, Exact(t), Chains(t)
  PROVE  Full(t) <=> ~(Cardinality(DOMAIN MapOf(t)) < Size)
  <1>1. Cardinality(DOMAIN MapOf(t)) = t.entries
    BY ContentsInSlots, HeldCounted
  <1>2. t.entries \in Nat
    BY DEF Exact, MapType
  <1> QED BY <1>1, <1>2, SizeAssumption DEF Full

\* put(k, v) sets k to v; in a full table a new key is dropped.
LEMMA PutContents ==
  ASSUME NEW t, Exact(t), Chains(t), NEW k \in Keys, NEW v \in Values
  PROVE  /\ Exact(Put(t, k, v)) /\ Chains(Put(t, k, v))
         /\ MapOf(Put(t, k, v)) = IF k \in Held(t) \/ ~Full(t) THEN Updated(t, k, v) ELSE MapOf(t)
  <1>1. Has(t, k) <=> k \in Held(t)
    BY HeldCounted
  <1>2. CASE Has(t, k)
    <2> DEFINE s == ProbeSlot(t, k)
               n == [t EXCEPT !.value[s] = v]
    <2>1. s \in Occupied(t) /\ t.key[s] = k
      BY <1>2, FoundHeld
    <2>2. Put(t, k, v) = n
      BY <1>2 DEF Put
    <2> HIDE DEF s
    <2>3. /\ Exact(n) /\ Chains(n) /\ Occupied(n) = Occupied(t) /\ n.key = t.key /\ Held(n) = Held(t)
          /\ n.value = [t.value EXCEPT ![s] = v]
      BY <2>1, OverwriteChains
    <2> HIDE DEF n
    <2>4. Updated(t, k, v) = [x \in Held(n) |-> Updated(t, k, v)[x]]
      BY <1>1, <1>2, <2>3 DEF Updated
    <2>5. ASSUME NEW i \in Occupied(n) PROVE Updated(t, k, v)[n.key[i]] = n.value[i]
      <3>1. i \in Occupied(t) /\ t.key[i] \in Held(t) /\ t.value \in [Slots -> Values] /\ i \in Slots /\ s \in Slots
        BY <2>1, <2>3, <2>5 DEF Held, Exact, MapType, Occupied
      <3>2. CASE i = s
        BY <2>1, <2>3, <3>1, <3>2 DEF Updated
      <3>3. CASE i # s
        <4>1. t.key[i] # k
          BY <2>1, <3>1, <3>3, HeldCounted
        <4>2. MapOf(t)[t.key[i]] = t.value[i]
          BY <3>1, ContentsInSlots
        <4> QED BY <2>3, <3>1, <3>3, <4>1, <4>2 DEF Updated
      <3> QED BY <3>2, <3>3
    <2>6. MapOf(n) = Updated(t, k, v)
      <3>1. Exact(n) /\ Chains(n)
        BY <2>3
      <3> QED BY <2>4, <2>5, <3>1, SameContents, Zenon
    <2> QED BY <1>1, <1>2, <2>2, <2>3, <2>6
  <1>3. CASE ~Has(t, k) /\ Full(t)
    BY <1>1, <1>3 DEF Put
  <1>4. CASE ~Has(t, k) /\ ~Full(t)
    BY <1>4, ClaimContents DEF Put
  <1> QED BY <1>2, <1>3, <1>4

---------------------------------------------------------------------------
(* The refinement                                                          *)

\* No removal can break a chain: nothing is removed, as in the tracker's map
\* of sites, the tests' accessed sets and PageTracking's map of pages, or
\* every key has a slot of its own.
RemovalsApart == Removable = {} \/ \A j, k \in Keys : Hash[j] = Hash[k] => j = k

\* Every key can be found; where keys are removed, each is at home.
ChainInv == MapInv /\ Chains(m) /\ (Removable # {} => AllHome(m))

\* The refinement mapping takes the table to the map it stands for.
LEMMA ReachableContents ==
  /\ Abstract!Present = DOMAIN MapOf(m)
  /\ [k \in Reachable |-> m.value[ProbeSlot(m, k)]] = MapOf(m)
  BY DEF Abstract!Present, Reachable, MapOf

\* What the abstract operations say of the map a table stands for.
LEMMA AbstractOps ==
  ASSUME ChainInv, NEW k \in Keys
  PROVE  /\ Abstract!Present = Held(m) /\ (Abstract!HasRoom <=> ~Full(m))
         /\ \A v : Abstract!With(k, v) = Updated(m, k, v)
         /\ Has(m, k) <=> k \in Held(m)
  <1>1. Exact(m) /\ Chains(m)
    BY DEF ChainInv, MapInv
  <1>2. Abstract!Present = Held(m) /\ DOMAIN MapOf(m) = Held(m)
    BY <1>1, ReachableContents, ContentsInSlots
  <1>3. Abstract!HasRoom <=> ~Full(m)
    <2>1. Cardinality(Abstract!Present) = Cardinality(DOMAIN MapOf(m))
      BY ReachableContents, Zenon
    <2>2. Abstract!Cardinality(Abstract!Present) = Cardinality(Abstract!Present)
      BY Zenon DEF Abstract!Cardinality, Cardinality
    <2> QED BY <1>1, <2>1, <2>2, FullIsFull DEF Abstract!HasRoom
  <1>4. \A v : Abstract!With(k, v) = Updated(m, k, v)
    BY <1>2, ReachableContents DEF Abstract!With, Updated
  <1>5. Has(m, k) <=> k \in Held(m)
    BY <1>1, HeldCounted
  <1> QED BY <1>2, <1>3, <1>4, <1>5

\* The slots stay at home where keys are removed.
LEMMA ClaimHome ==
  ASSUME RemovalsApart, ChainInv, Removable # {}, NEW k \in Keys, ~Full(m), ~Has(m, k), NEW v \in Values
  PROVE  AllHome(Occupy(m, ProbeSlot(m, k), k, v))
  <1>1. k \notin Held(m) /\ Held(m) \subseteq Keys
    BY AbstractOps, HeldIsKey DEF ChainInv, MapInv, Exact, Held
  <1>2. \A j \in Held(m) : Hash[j] # Hash[k]
    BY <1>1 DEF RemovalsApart
  <1> QED BY <1>2, ClaimChains DEF ChainInv, MapInv

\* put() sets that key alone, or drops it.
LEMMA PutImplements ==
  ASSUME RemovalsApart, ChainInv, NEW k \in Keys, NEW v \in Values, put(k, v)
  PROVE  ChainInv' /\ Abstract!Put(k, v)
  <1>1. m' = Put(m, k, v) /\ ret' = None
    BY DEF put
  <1>2. Exact(m) /\ Chains(m)
    BY DEF ChainInv, MapInv
  <1>3. /\ Exact(m') /\ Chains(m')
        /\ MapOf(m') = IF k \in Held(m) \/ ~Full(m) THEN Updated(m, k, v) ELSE MapOf(m)
    BY <1>1, <1>2, PutContents
  <1>4. Removable # {} => AllHome(m')
    <2> SUFFICES ASSUME Removable # {} PROVE AllHome(m')
      OBVIOUS
    <2>1. CASE Has(m, k)
      <3>1. ProbeSlot(m, k) \in Occupied(m)
        BY <1>2, <2>1, FoundHeld
      <3>2. m' = [m EXCEPT !.value[ProbeSlot(m, k)] = v]
        BY <1>1, <2>1 DEF Put
      <3> QED BY <1>2, <3>1, <3>2, OverwriteChains DEF ChainInv
    <2>2. CASE ~Has(m, k) /\ Full(m)
      BY <1>1, <2>2 DEF Put, ChainInv
    <2>3. CASE ~Has(m, k) /\ ~Full(m)
      BY <1>1, <2>3, ClaimHome DEF Put
    <2> QED BY <2>1, <2>2, <2>3
  <1>5. ChainInv'
    BY <1>1, <1>3, <1>4 DEF ChainInv, MapInv
  <1> QED BY <1>1, <1>3, <1>5, AbstractOps, ReachableContents DEF Abstract!Put, Reachable, MapOf

\* A key that get() does not find it inserts, with the value it returns.
LEMMA GetImplements ==
  ASSUME RemovalsApart, ChainInv, NEW k \in Keys, get(k)
  PROVE  ChainInv' /\ Abstract!Get(k)
  <1>1. m' = GetMap(m, k) /\ ret' = m.value[GetSlot(m, k)]
    BY DEF get
  <1>2. Exact(m) /\ Chains(m)
    BY DEF ChainInv, MapInv
  <1>3. ret' \in Values
    BY <1>1, <1>2, GetExact
  <1>4. CASE Has(m, k)
    <2>1. m' = m
      BY <1>1, <1>4 DEF GetMap
    <2>2. ret' = MapOf(m)[k]
      BY <1>1, <1>4 DEF GetSlot, MapOf
    <2> QED BY <1>3, <1>4, <2>1, <2>2, AbstractOps, ReachableContents DEF Abstract!Get, Reachable, ChainInv, MapInv
  <1>5. CASE ~Has(m, k) /\ Full(m)
    <2>1. m' = m
      BY <1>1, <1>5 DEF GetMap
    <2> QED BY <1>3, <1>5, <2>1, AbstractOps DEF Abstract!Get, Reachable, ChainInv, MapInv
  <1>6. CASE ~Has(m, k) /\ ~Full(m)
    <2>1. m' = Occupy(m, ProbeSlot(m, k), k, ret')
      BY <1>1, <1>6 DEF GetMap, GetSlot
    <2>2. Exact(m') /\ Chains(m') /\ MapOf(m') = Updated(m, k, ret')
      BY <1>2, <1>3, <1>6, <2>1, ClaimContents
    <2>3. Removable # {} => AllHome(m')
      BY <1>3, <1>6, <2>1, ClaimHome
    <2>4. ChainInv'
      BY <1>3, <2>2, <2>3 DEF ChainInv, MapInv
    <2> QED BY <1>3, <1>6, <2>2, <2>4, AbstractOps DEF Abstract!Get, Reachable, MapOf
  <1> QED BY <1>4, <1>5, <1>6

\* A removal takes out that key alone.
LEMMA RemoveImplements ==
  ASSUME RemovalsApart, ChainInv, NEW k \in Removable, remove(k)
  PROVE  ChainInv' /\ Abstract!Remove(k)
  <1>1. m' = RemoveMap(m, k) /\ ret' = None /\ k \in Keys
    BY RemovableAssumption DEF remove
  <1>2. Exact(m) /\ Chains(m) /\ AllHome(m)
    BY DEF ChainInv, MapInv
  <1>3. /\ Exact(m') /\ AllHome(m') /\ m'.value = m.value
        /\ Held(m') = Held(m) \ {k} /\ Occupied(m') \subseteq Occupied(m)
        /\ \A i \in Occupied(m') : m'.key[i] = m.key[i]
    BY <1>1, <1>2, RemoveChains
  <1>4. Chains(m')
    BY <1>3, HomeChains
  <1> DEFINE f == [x \in Held(m) \ {k} |-> MapOf(m)[x]]
  <1>5. MapOf(m') = f
    <2>1. f = [x \in Held(m') |-> f[x]]
      BY <1>3
    <2>2. ASSUME NEW i \in Occupied(m') PROVE f[m'.key[i]] = m'.value[i]
      <3>1. i \in Occupied(m) /\ m'.key[i] = m.key[i] /\ m'.key[i] \in Held(m')
        BY <1>3, <2>2 DEF Held
      <3>2. MapOf(m)[m.key[i]] = m.value[i]
        BY <1>2, <3>1, ContentsInSlots
      <3> QED BY <1>3, <3>1, <3>2
    <2> HIDE DEF f
    <2> QED BY <1>3, <1>4, <2>1, <2>2, SameContents
  <1>6. ChainInv'
    BY <1>1, <1>3, <1>4 DEF ChainInv, MapInv
  <1> QED BY <1>1, <1>5, <1>6, AbstractOps, ReachableContents DEF Abstract!Remove, Reachable, MapOf

\* An empty table is the empty map.
LEMMA EmptyContents ==
  /\ Exact(EmptyMap) /\ Chains(EmptyMap) /\ AllHome(EmptyMap)
  /\ {k \in Keys : Has(EmptyMap, k)} = {}
  <1>1. Occupied(EmptyMap) = {}
    BY DEF Occupied, EmptyMap
  <1>2. Chains(EmptyMap) /\ AllHome(EmptyMap) /\ Held(EmptyMap) = {}
    BY <1>1 DEF Chains, AllHome, Held
  <1> QED BY <1>2, EmptyExact, HeldCounted

\* An empty table is where both begin.
LEMMA ChainInit == Init => ChainInv /\ Abstract!Init
  <1> SUFFICES ASSUME Init PROVE ChainInv /\ Abstract!Init
    OBVIOUS
  <1>1. m = EmptyMap /\ ret = None
    BY DEF Init
  <1>2. ChainInv
    BY <1>1, EmptyContents DEF ChainInv, MapInv
  <1>3. Reachable = {}
    BY <1>1, EmptyContents DEF Reachable
  <1> QED BY <1>1, <1>2, <1>3 DEF Abstract!Init

\* Every call is the abstract call, or leaves both as they are.
LEMMA ChainStep ==
  ASSUME RemovalsApart, ChainInv, [Next]_vars
  PROVE  ChainInv' /\ [Abstract!Next]_(Abstract!vars)
  <1>1. ASSUME NEW k \in Keys, NEW v \in Values, put(k, v) PROVE ChainInv' /\ Abstract!Next
    BY <1>1, PutImplements DEF Abstract!Next
  <1>2. ASSUME NEW k \in Keys, get(k) PROVE ChainInv' /\ Abstract!Next
    BY <1>2, GetImplements DEF Abstract!Next
  <1>3. ASSUME NEW k \in Keys, has(k) PROVE ChainInv' /\ Abstract!Next
    <2>1. m' = m /\ ret' = Has(m, k) /\ ret' \in BOOLEAN
      BY <1>3 DEF has, Has, FoundWithin
    <2>2. Has(m, k) <=> k \in Abstract!Present
      BY AbstractOps
    <2>3. ChainInv'
      BY <2>1 DEF ChainInv, MapInv
    <2>4. ret' = (k \in Abstract!Present)
      <3>1. ret' <=> Has(m, k)
        BY <2>1
      <3> QED BY <2>1, <2>2, <3>1, SMT
    <2>5. Abstract!Has(k)
      BY <2>1, <2>4 DEF Abstract!Has, Reachable
    <2> QED BY <2>3, <2>5 DEF Abstract!Next
  <1>4. ASSUME NEW k \in Removable, remove(k) PROVE ChainInv' /\ Abstract!Next
    BY <1>4, RemoveImplements, RemovableAssumption DEF Abstract!Next
  <1>5. CASE clear
    <2>1. m' = EmptyMap /\ ret' = None
      BY <1>5 DEF clear
    <2>2. ChainInv'
      BY <2>1, EmptyContents DEF ChainInv, MapInv
    <2>3. Reachable' = {}
      BY <2>1, EmptyContents DEF Reachable
    <2>4. Abstract!Clear
      BY <2>1, <2>3 DEF Abstract!Clear
    <2> QED BY <2>2, <2>4 DEF Abstract!Next
  <1>6. CASE UNCHANGED vars
    BY <1>6 DEF vars, ChainInv, MapInv, Abstract!vars, Reachable
  <1> QED BY <1>1, <1>2, <1>3, <1>4, <1>5, <1>6 DEF Next

\* Where no removal can break a chain, a StackMap of any size is the finite
\* map its callers expect, dropping a new key when it is full, whatever
\* collides (stack_map.hpp:37).
THEOREM MapIsImplemented == RemovalsApart => (Spec => ImplementsMap)
  <1> SUFFICES ASSUME RemovalsApart PROVE Spec => ImplementsMap
    OBVIOUS
  <1>1. Init => ChainInv /\ Abstract!Init
    BY ChainInit
  <1>2. ChainInv /\ [Next]_vars => ChainInv' /\ [Abstract!Next]_(Abstract!vars)
    BY ChainStep
  <1> QED BY <1>1, <1>2, PTL DEF Spec, ImplementsMap, Abstract!Spec

---------------------------------------------------------------------------
(* A StackVec *)

VecElements == VecValues \cup {Unset}

\* A vector never has more elements than slots.
Vecs == [data : [0 .. VecSize - 1 -> VecElements], elements : 0 .. VecSize]

VecSpec == VecInit /\ [][VecNext]_vec_vars

Pushes == INSTANCE FoldLaws WITH Op <- push

LEMMA ExtendIs == ASSUME NEW v, NEW s PROVE Extend(v, s) = Pushes!Folded(v, s)
  BY DEF Extend, FoldLeft, MapThenFoldSet, Max, Pushes!Folded, Pushes!FoldLeft, Pushes!MapThenFoldSet, Pushes!Max

LEMMA PushIs ==
  ASSUME NEW v \in Vecs, NEW x \in VecElements
  PROVE  push(v, x) \in Vecs
  <1>1. v.data \in [0 .. VecSize - 1 -> VecElements] /\ v.elements \in 0 .. VecSize /\ VecSize \in Nat \ {0}
    BY VecAssumption DEF Vecs
  <1>2. CASE v.elements >= VecSize
    BY <1>2 DEF push
  <1>3. CASE ~(v.elements >= VecSize)
    <2>1. v.elements \in 0 .. VecSize - 1 /\ v.elements + 1 \in 0 .. VecSize
      BY <1>1, <1>3
    <2>2. [v.data EXCEPT ![v.elements] = x] \in [0 .. VecSize - 1 -> VecElements]
      BY <1>1, <2>1
    <2> QED BY <1>3, <2>1, <2>2 DEF push, Vecs
  <1> QED BY <1>2, <1>3

LEMMA ContentsIs ==
  ASSUME NEW v \in Vecs
  PROVE  /\ Contents(v) \in Seq(VecElements) /\ Len(Contents(v)) = v.elements
         /\ \A i \in 1 .. v.elements : Contents(v)[i] = v.data[i - 1]
  <1>1. v.data \in [0 .. VecSize - 1 -> VecElements] /\ v.elements \in 0 .. VecSize /\ VecSize \in Nat \ {0}
    BY VecAssumption DEF Vecs
  <1>2. \A i \in 1 .. v.elements : v.data[i - 1] \in VecElements
    BY <1>1
  <1>3. v.elements \in Nat
    BY <1>1
  <1> DEFINE n == v.elements
  <1>4. Contents(v) = [i \in 1 .. n |-> v.data[i - 1]]
    BY Zenon DEF Contents
  <1> HIDE DEF n
  <1>5. Contents(v) \in [1 .. n -> VecElements] /\ n \in Nat
    BY <1>2, <1>3, <1>4 DEF n
  <1>6. Contents(v) \in Seq(VecElements) /\ Len(Contents(v)) = n
    BY <1>5
  <1>7. \A i \in 1 .. n : Contents(v)[i] = v.data[i - 1]
    BY <1>4, Zenon
  <1> QED BY <1>6, <1>7 DEF n

LEMMA ExtendStays ==
  ASSUME NEW v \in Vecs, NEW s \in Seq(VecElements)
  PROVE  Extend(v, s) \in Vecs
  <1>1. \A w \in Vecs, x \in VecElements : push(w, x) \in Vecs
    BY PushIs
  <1> QED BY <1>1, ExtendIs, Pushes!FoldStays

\* A part of a sequence, whatever the bounds.
LEMMA PartOf ==
  ASSUME NEW S, NEW s \in Seq(S), NEW i \in Nat \ {0}, NEW j \in 0 .. Len(s)
  PROVE  SubSeq(s, i, j) \in Seq(S)
  <1>1. CASE i <= j
    BY <1>1, SubSeqProperties
  <1>2. CASE i > j
    BY <1>2
  <1> QED BY <1>1, <1>2

LEMMA EmptyVecIs == EmptyVec \in Vecs
  BY VecAssumption DEF EmptyVec, Vecs, VecElements

LEMMA SliceStays ==
  ASSUME NEW v \in Vecs, NEW start \in Nat, NEW end \in Nat
  PROVE  slice(v, start, end) \in Vecs
  <1> DEFINE s == Contents(v)
             j == IF end < v.elements THEN end ELSE v.elements
  <1>1. s \in Seq(VecElements) /\ Len(s) = v.elements /\ v.elements \in Nat
    BY ContentsIs, VecAssumption DEF Vecs
  <1>2. start + 1 \in Nat \ {0} /\ j \in 0 .. Len(s)
    BY <1>1
  <1>3. slice(v, start, end) = Extend(EmptyVec, SubSeq(s, start + 1, j))
    BY Zenon DEF slice
  <1> HIDE DEF s, j
  <1>4. SubSeq(s, start + 1, j) \in Seq(VecElements)
    BY <1>1, <1>2, PartOf
  <1> QED BY <1>3, <1>4, EmptyVecIs, ExtendStays

\* The inductive invariant.
VecInv == vec \in Vecs

LEMMA VecInvNext == VecInv /\ [VecNext]_vec_vars => VecInv'
  <1> SUFFICES ASSUME VecInv, [VecNext]_vec_vars PROVE VecInv'
    OBVIOUS
  <1>0. vec.data \in [0 .. VecSize - 1 -> VecElements] /\ vec.elements \in 0 .. VecSize /\ VecSize \in Nat \ {0}
    BY VecAssumption DEF VecInv, Vecs
  <1>1. ASSUME NEW x \in VecValues, Push(x) PROVE VecInv'
    BY <1>1, PushIs DEF VecInv, Push, VecElements
  <1>2. ASSUME NEW x \in VecValues, NEW y \in VecValues, Append2(x, y) PROVE VecInv'
    <2>1. <<x, y>> \in Seq(VecElements)
      BY DEF VecElements
    <2> QED BY <1>2, <2>1, ExtendStays DEF VecInv, Append2
  <1>3. ASSUME NEW index \in 0 .. VecSize, NEW x \in VecValues, SetAt(index, x) PROVE VecInv'
    <2>1. SlotOf(vec, index) \in 0 .. VecSize - 1
      BY <1>0 DEF SlotOf
    <2>2. [vec.data EXCEPT ![SlotOf(vec, index)] = x] \in [0 .. VecSize - 1 -> VecElements]
      BY <1>0, <2>1 DEF VecElements
    <2>3. vec' = [vec EXCEPT !.data = [vec.data EXCEPT ![SlotOf(vec, index)] = x]]
      BY <1>3, Zenon DEF SetAt
    <2> DEFINE d == [vec.data EXCEPT ![SlotOf(vec, index)] = x]
    <2> HIDE DEF d
    <2>4. d \in [0 .. VecSize - 1 -> VecElements] /\ vec' = [vec EXCEPT !.data = d]
      BY <2>2, <2>3 DEF d
    <2> QED BY <1>0, <2>4 DEF VecInv, Vecs
  <1>4. ASSUME NEW start \in 0 .. VecSize, NEW end \in 0 .. VecSize, Slice(start, end) PROVE VecInv'
    <2>1. start \in Nat /\ end \in Nat
      BY <1>0
    <2> QED BY <1>4, <2>1, SliceStays DEF VecInv, Slice
  <1>5. CASE Pop
    <2>1. vec.elements # 0 => vec.elements - 1 \in 0 .. VecSize
      BY <1>0
    <2> QED BY <1>0, <1>5, <2>1 DEF VecInv, Vecs, Pop
  <1>6. CASE ClearVec
    BY <1>0, <1>6 DEF VecInv, Vecs, ClearVec
  <1>7. CASE UNCHANGED vec_vars
    BY <1>7 DEF VecInv, vec_vars
  <1> QED BY <1>1, <1>2, <1>3, <1>4, <1>5, <1>6, <1>7, Zenon DEF VecNext

LEMMA VecInductive == VecSpec => []VecInv
  <1>1. VecInit => VecInv
    BY EmptyVecIs DEF VecInit, VecInv
  <1> QED BY <1>1, VecInvNext, PTL DEF VecSpec

\* Two sequences of the same length and elements.
LEMMA SameSeq ==
  ASSUME NEW S, NEW s \in Seq(S), NEW t \in Seq(S), Len(s) = Len(t), \A i \in 1 .. Len(s) : s[i] = t[i]
  PROVE  s = t
  OBVIOUS

\* push(), pop() and operator[] of a vector are those of a sequence, for
\* every size and whatever slices and appends came before; a call out of
\* range reaches no element of one that is not full.
THEOREM VecBehavesAsSequence == VecSpec => VecIsSequence
  <1> DEFINE s == Contents(vec)
             t == Contents(vec')
  <1>1. ASSUME VecInv, VecInv'
        PROVE  /\ \A x \in VecValues : Push(x) => t = IF Len(s) < VecSize THEN Append(s, x) ELSE s
               /\ \A index \in 0 .. VecSize, x \in VecValues :
                    SetAt(index, x) => IF index < Len(s) THEN t = [s EXCEPT ![index + 1] = x]
                                       ELSE Len(s) < VecSize => t = s
               /\ Pop => IF s = <<>> THEN t = s ELSE s = Append(t, popped')
    <2>0. /\ vec.data \in [0 .. VecSize - 1 -> VecElements] /\ vec.elements \in 0 .. VecSize /\ VecSize \in Nat \ {0}
          /\ vec.elements \in Nat
      BY <1>1, VecAssumption DEF VecInv, Vecs
    <2>s. /\ s \in Seq(VecElements) /\ Len(s) = vec.elements
          /\ \A i \in 1 .. vec.elements : s[i] = vec.data[i - 1]
      BY <1>1, ContentsIs DEF VecInv
    <2>t. /\ t \in Seq(VecElements) /\ Len(t) = vec'.elements
          /\ \A i \in 1 .. vec'.elements : t[i] = vec'.data[i - 1]
      BY <1>1, ContentsIs DEF VecInv
    <2>1. ASSUME NEW x \in VecValues, Push(x)
          PROVE  t = IF Len(s) < VecSize THEN Append(s, x) ELSE s
      <3>1. CASE vec.elements >= VecSize
        <4>1. vec' = vec
          BY <2>1, <3>1 DEF Push, push
        <4> HIDE DEF s, t
        <4> QED BY <2>0, <2>s, <3>1, <4>1 DEF s, t
      <3>2. CASE vec.elements < VecSize
        <4>1. vec'.elements = vec.elements + 1 /\ vec'.data = [vec.data EXCEPT ![vec.elements] = x]
          BY <2>0, <2>1, <3>2 DEF Push, push
        <4>2. \A i \in 1 .. vec.elements : vec'.data[i - 1] = vec.data[i - 1]
          BY <2>0, <4>1
        <4>3. vec'.data[vec.elements] = x
          BY <2>0, <3>2, <4>1
        <4> DEFINE r == Append(s, x)  n == vec.elements
        <4> HIDE DEF s, t
        <4>4. r \in Seq(VecElements) /\ Len(r) = vec.elements + 1 /\ r[vec.elements + 1] = x
              /\ \A i \in 1 .. vec.elements : r[i] = s[i]
          BY <2>s, <2>0 DEF VecElements
        <4>5. \A i \in 1 .. Len(t) : i \in 1 .. n \/ i = n + 1
          BY <2>0, <2>t, <4>1
        <4>6. \A i \in 1 .. n : t[i] = r[i]
          BY <2>0, <2>s, <2>t, <4>1, <4>2, <4>4
        <4>7. t[n + 1] = r[n + 1]
          BY <2>0, <2>t, <4>1, <4>3, <4>4
        <4> HIDE DEF r, n
        <4>8. \A i \in 1 .. Len(t) : t[i] = r[i]
          BY <4>5, <4>6, <4>7, Zenon
        <4>9. t = r
          BY <2>t, <4>1, <4>4, <4>8, SameSeq
        <4> QED BY <2>s, <3>2, <4>9 DEF r
      <3> QED BY <2>0, <3>1, <3>2
    <2>2. ASSUME NEW index \in 0 .. VecSize, NEW x \in VecValues, SetAt(index, x)
          PROVE  IF index < Len(s) THEN t = [s EXCEPT ![index + 1] = x] ELSE Len(s) < VecSize => t = s
      <3> DEFINE j == SlotOf(vec, index)
      <3>1. j = IF index >= vec.elements THEN VecSize - 1 ELSE index
        BY DEF SlotOf
      <3>2. vec'.elements = vec.elements /\ vec'.data = [vec.data EXCEPT ![j] = x]
        BY <1>1, <2>2 DEF SetAt, VecInv, Vecs
      <3> HIDE DEF j
      <3>3. \A i \in 0 .. VecSize - 1 : vec'.data[i] = IF i = j THEN x ELSE vec.data[i]
        BY <2>0, <3>2
      <3> HIDE DEF s, t
      <3>4. CASE index < Len(s)
        <4> DEFINE r == [s EXCEPT ![index + 1] = x]
        <4>1. r \in Seq(VecElements) /\ Len(r) = Len(s) /\ \A i \in 1 .. Len(s) : r[i] = IF i = index + 1 THEN x ELSE s[i]
          BY <2>s, <2>0, <3>4 DEF VecElements
        <4> HIDE DEF r
        <4>2. ASSUME NEW i \in 1 .. Len(t) PROVE t[i] = r[i]
          <5>1. i \in 1 .. vec.elements /\ i - 1 \in 0 .. VecSize - 1 /\ (i - 1 = j <=> i = index + 1)
            BY <2>0, <2>s, <2>t, <3>1, <3>2, <3>4
          <5>2. t[i] = IF i - 1 = j THEN x ELSE s[i]
            BY <2>s, <2>t, <3>2, <3>3, <5>1
          <5> QED BY <2>s, <4>1, <5>1, <5>2
        <4>3. t = r
          BY <2>s, <2>t, <3>2, <4>1, <4>2, SameSeq
        <4> QED BY <3>4, <4>3 DEF r
      <3>5. CASE index >= Len(s) /\ Len(s) < VecSize
        <4>1. j = VecSize - 1
          BY <2>s, <3>1, <3>5
        <4>2. ASSUME NEW i \in 1 .. Len(t) PROVE t[i] = s[i]
          <5>1. i \in 1 .. vec.elements /\ i - 1 \in 0 .. VecSize - 1 /\ i - 1 # j
            BY <2>0, <2>s, <2>t, <3>2, <3>5, <4>1
          <5> QED BY <2>s, <2>t, <3>2, <3>3, <5>1
        <4>3. t = s
          BY <2>s, <2>t, <3>2, <4>2, SameSeq
        <4> QED BY <2>0, <2>s, <3>5, <4>3
      <3> QED BY <2>0, <2>s, <3>4, <3>5
    <2>3. ASSUME Pop PROVE IF s = <<>> THEN t = s ELSE s = Append(t, popped')
      <3>1. CASE vec.elements = 0
        <4>1. vec' = vec
          BY <2>3, <3>1 DEF Pop
        <4>2. s = <<>>
          BY <2>s, <3>1
        <4> QED BY <4>1, <4>2
      <3>2. CASE vec.elements # 0
        <4>1. vec'.elements = vec.elements - 1 /\ vec'.data = vec.data /\ popped' = vec.data[vec.elements - 1]
          BY <1>1, <2>3, <3>2 DEF Pop, VecInv, Vecs
        <4> DEFINE r == Append(t, popped')
        <4> HIDE DEF s, t
        <4>2. popped' \in VecElements
          BY <2>0, <3>2, <4>1
        <4>3. r \in Seq(VecElements) /\ Len(r) = vec.elements /\ r[vec.elements] = popped'
              /\ \A i \in 1 .. vec.elements - 1 : r[i] = t[i]
          BY <2>0, <2>t, <3>2, <4>1, <4>2
        <4> HIDE DEF r
        <4>4. ASSUME NEW i \in 1 .. Len(s) PROVE s[i] = r[i]
          <5>1. CASE i = vec.elements
            BY <2>0, <2>s, <4>1, <4>3, <5>1
          <5>2. CASE i \in 1 .. vec.elements - 1
            BY <2>0, <2>s, <2>t, <4>1, <4>3, <5>2
          <5> QED BY <2>0, <2>s, <5>1, <5>2
        <4>5. s = r
          BY <2>s, <4>3, <4>4, SameSeq
        <4>6. s # <<>>
          BY <2>s, <3>2
        <4> QED BY <4>5, <4>6 DEF r
      <3> QED BY <3>1, <3>2
    <2> HIDE DEF s, t
    <2> QED BY <2>1, <2>2, <2>3
  <1>2. VecInv /\ VecInv' => [/\ \A x \in VecValues : Push(x) => t = IF Len(s) < VecSize THEN Append(s, x) ELSE s
                              /\ \A index \in 0 .. VecSize, x \in VecValues :
                                   SetAt(index, x) => IF index < Len(s) THEN t = [s EXCEPT ![index + 1] = x]
                                                      ELSE Len(s) < VecSize => t = s
                              /\ Pop => IF s = <<>> THEN t = s ELSE s = Append(t, popped')]_vec_vars
    BY <1>1, Zenon
  <1> QED BY <1>2, VecInductive, PTL DEF VecIsSequence

---------------------------------------------------------------------------
(* The table of heap names                                                 *)

Entries == [key : TableKeys, val : Nat]
Indexes == 1 .. Len(ht_prime_sizes)
Tables(i) ==
  [data : [0 .. ht_prime_sizes[i] - 1 -> Seq(Entries)], len : Nat, size_idx : {i}, load_thresh : Nat]

\* What the table holds, wherever it is.
EntriesOf(t) == UNION {Range(t.data[i]) : i \in DOMAIN t.data}

KeyOnce(chain) == \A j, k \in 1 .. Len(chain) : chain[j].key = chain[k].key => j = k

\* Every entry is in the chain of its key, and the only one of it there.
GoodTable(t) ==
  /\ t.size_idx \in Indexes /\ t \in Tables(t.size_idx)
  /\ \A i \in DOMAIN t.data : \A e \in Range(t.data[i]) : SlotOfKey(t, e.key) = i
  /\ \A i \in DOMAIN t.data : KeyOnce(t.data[i])

Moves == INSTANCE FoldLaws WITH Op <- rehash_insert
ChainsMoved == INSTANCE FoldLaws WITH Op <- rehash_chain

\* The elements of a sequence.
LEMMA InRange ==
  ASSUME NEW S, NEW s \in Seq(S)
  PROVE  /\ Range(s) \subseteq S
         /\ \A x : x \in Range(s) <=> \E i \in 1 .. Len(s) : s[i] = x
  BY DEF Range

\* The elements of a sequence to which one is appended.
LEMMA RangeAppend ==
  ASSUME NEW S, NEW s \in Seq(S), NEW x \in S
  PROVE  Append(s, x) \in Seq(S) /\ Range(Append(s, x)) = Range(s) \cup {x}
  <1> DEFINE r == Append(s, x)
  <1>1. r \in Seq(S) /\ Len(r) = Len(s) + 1 /\ \A i \in 1 .. Len(r) : r[i] = IF i = Len(s) + 1 THEN x ELSE s[i]
    OBVIOUS
  <1> HIDE DEF r
  <1>2. ASSUME NEW y \in Range(r) PROVE y \in Range(s) \cup {x}
    BY <1>1, <1>2, InRange
  <1>3. ASSUME NEW y \in Range(s) PROVE y \in Range(r)
    <2>1. PICK i \in 1 .. Len(s) : s[i] = y
      BY InRange
    <2>2. i \in 1 .. Len(r) /\ r[i] = y
      BY <1>1, <2>1
    <2> QED BY <1>1, <2>2, InRange
  <1>4. x \in Range(r)
    <2>1. Len(r) \in 1 .. Len(r) /\ r[Len(r)] = x
      BY <1>1
    <2> QED BY <1>1, <2>1, InRange
  <1> QED BY <1>1, <1>2, <1>3, <1>4 DEF r

\* A sequence from which one position is taken out.
LEMMA RemoveAtIs ==
  ASSUME NEW S, NEW s \in Seq(S), NEW i \in 1 .. Len(s)
  PROVE  /\ RemoveAt(s, i) \in Seq(S) /\ Len(RemoveAt(s, i)) = Len(s) - 1
         /\ \A j \in 1 .. Len(s) - 1 : RemoveAt(s, i)[j] = IF j < i THEN s[j] ELSE s[j + 1]
  <1> DEFINE a == SubSeq(s, 1, i - 1)  b == SubSeq(s, i + 1, Len(s))  r == RemoveAt(s, i)
  <1>1. a \in Seq(S) /\ Len(a) = i - 1 /\ \A j \in 1 .. i - 1 : a[j] = s[j]
    BY SubSeqProperties
  <1>2. b \in Seq(S) /\ Len(b) = Len(s) - i /\ \A j \in 1 .. Len(s) - i : b[j] = s[i + j]
    <2>1. CASE i = Len(s)
      BY <2>1
    <2>2. CASE i < Len(s)
      BY <2>2, SubSeqProperties
    <2> QED BY <2>1, <2>2
  <1>3. r = a \o b
    BY DEF RemoveAt
  <1> HIDE DEF a, b, r
  <1>4. /\ r \in Seq(S) /\ Len(r) = Len(a) + Len(b)
        /\ \A j \in 1 .. Len(a) + Len(b) : r[j] = IF j <= Len(a) THEN a[j] ELSE b[j - Len(a)]
    BY <1>1, <1>2, <1>3, ConcatProperties
  <1>5. Len(r) = Len(s) - 1
    BY <1>1, <1>2, <1>4
  <1>6. ASSUME NEW j \in 1 .. Len(s) - 1
        PROVE  r[j] = IF j < i THEN s[j] ELSE s[j + 1]
    <2>1. CASE j < i
      BY <1>1, <1>4, <1>5, <2>1
    <2>2. CASE j >= i
      <3>1. r[j] = b[j - Len(a)] /\ j - Len(a) \in 1 .. Len(s) - i
        BY <1>1, <1>4, <1>5, <2>2
      <3>2. b[j - Len(a)] = s[i + (j - Len(a))]
        BY <1>2, <3>1
      <3>3. i + (j - Len(a)) = j + 1
        BY <1>1
      <3> QED BY <2>2, <3>1, <3>2, <3>3
    <2> QED BY <2>1, <2>2
  <1> QED BY <1>4, <1>5, <1>6 DEF r

\* The sizes of a table.
LEMMA SizesOfTable ==
  ASSUME NEW i \in Indexes
  PROVE  ht_prime_sizes[i] \in Nat \ {0, 1}
  BY TableAssumption DEF Indexes

\* A key has a slot.
LEMMA SlotInTable ==
  ASSUME NEW t, GoodTable(t), NEW k \in TableKeys
  PROVE  /\ SlotOfKey(t, k) \in DOMAIN t.data
         /\ t.data[SlotOfKey(t, k)] \in Seq(Entries)
         /\ t.data \in [0 .. ht_prime_sizes[t.size_idx] - 1 -> Seq(Entries)]
  <1>1. t.size_idx \in Indexes /\ t.data \in [0 .. ht_prime_sizes[t.size_idx] - 1 -> Seq(Entries)]
    BY DEF GoodTable, Tables
  <1>2. ht_prime_sizes[t.size_idx] \in Nat \ {0}
    BY <1>1, SizesOfTable
  <1>3. TableHash[k] \in Nat
    BY TableAssumption
  <1>4. SlotOfKey(t, k) \in 0 .. ht_prime_sizes[t.size_idx] - 1
    BY <1>2, <1>3, SMT DEF SlotOfKey
  <1> QED BY <1>1, <1>4

\* What is held is of a chain's, and in the chain of its key.
LEMMA HeldIs ==
  ASSUME NEW t, GoodTable(t)
  PROVE  /\ EntriesOf(t) \subseteq Entries
         /\ \A e \in EntriesOf(t) : e \in Range(t.data[SlotOfKey(t, e.key)])
         /\ \A k \in TableKeys : Range(t.data[SlotOfKey(t, k)]) \subseteq EntriesOf(t)
  <1>1. t.data \in [DOMAIN t.data -> Seq(Entries)]
    BY DEF GoodTable, Tables
  <1>2. ASSUME NEW e \in EntriesOf(t)
        PROVE  e \in Entries /\ e \in Range(t.data[SlotOfKey(t, e.key)])
    <2>1. PICK i \in DOMAIN t.data : e \in Range(t.data[i])
      BY <1>2, Zenon DEF EntriesOf
    <2>2. SlotOfKey(t, e.key) = i
      BY <2>1, Zenon DEF GoodTable
    <2>3. t.data[i] \in Seq(Entries)
      BY <1>1, <2>1
    <2> QED BY <2>1, <2>2, <2>3, InRange
  <1>3. ASSUME NEW k \in TableKeys
        PROVE  Range(t.data[SlotOfKey(t, k)]) \subseteq EntriesOf(t)
    <2>1. SlotOfKey(t, k) \in DOMAIN t.data
      BY SlotInTable
    <2> QED BY <2>1, Zenon DEF EntriesOf
  <1> QED BY <1>2, <1>3, Zenon

\* The least of a set of numbers.
LEMMA LeastIs ==
  ASSUME NEW S \in SUBSET Nat, S # {}
  PROVE  Min(S) \in S
  BY Moves!SmallestNat DEF Min

\* Finding a key is finding the only entry that is held of it.
LEMMA FindIs ==
  ASSUME NEW t, GoodTable(t), NEW k \in TableKeys
  PROVE  /\ Find(t, k) = 0 <=> \A e \in EntriesOf(t) : e.key # k
         /\ Find(t, k) # 0 => /\ Find(t, k) \in 1 .. Len(t.data[SlotOfKey(t, k)])
                              /\ t.data[SlotOfKey(t, k)][Find(t, k)] \in EntriesOf(t)
                              /\ t.data[SlotOfKey(t, k)][Find(t, k)].key = k
         /\ \A e \in EntriesOf(t) : e.key = k => get_val(t, k) = e.val
  <1> DEFINE chain == t.data[SlotOfKey(t, k)]
             I == {i \in 1 .. Len(chain) : chain[i].key = k}
  <1>1. Find(t, k) = IF I # {} THEN Min(I) ELSE 0
    BY Zenon DEF Find, SelectInSeq
  <1>2. chain \in Seq(Entries) /\ KeyOnce(chain)
    <2>1. SlotOfKey(t, k) \in DOMAIN t.data /\ t.data[SlotOfKey(t, k)] \in Seq(Entries)
      BY SlotInTable
    <2> QED BY <2>1, Zenon DEF GoodTable
  <1>3. Range(chain) \subseteq EntriesOf(t) /\ \A e \in EntriesOf(t) : e.key = k => e \in Range(chain)
    BY HeldIs
  <1> HIDE DEF chain
  <1>4. I \in SUBSET Nat /\ \A i \in I : i # 0
    BY <1>2
  <1>5. ASSUME NEW e \in EntriesOf(t), e.key = k
        PROVE  Find(t, k) # 0 /\ get_val(t, k) = e.val
    <2>1. PICK i \in 1 .. Len(chain) : chain[i] = e
      BY <1>2, <1>3, <1>5, InRange
    <2>2. i \in I
      BY <1>5, <2>1
    <2>3. Find(t, k) \in I
      <3> HIDE DEF I
      <3> QED BY <1>1, <1>4, <2>2, LeastIs
    <2>4. Find(t, k) = i
      BY <1>2, <2>2, <2>3 DEF KeyOnce
    <2>5. Find(t, k) # 0
      <3> HIDE DEF I
      <3> QED BY <1>4, <2>3, Zenon
    <2> QED BY <2>1, <2>4, <2>5, Zenon DEF get_val, chain
  <1>6. ASSUME Find(t, k) # 0
        PROVE  Find(t, k) \in 1 .. Len(chain) /\ chain[Find(t, k)].key = k /\ chain[Find(t, k)] \in EntriesOf(t)
    <2>1. Find(t, k) \in I
      <3> HIDE DEF I
      <3> QED BY <1>1, <1>4, <1>6, LeastIs
    <2>2. chain[Find(t, k)] \in Range(chain)
      BY <1>2, <2>1, InRange
    <2> QED BY <1>3, <2>1, <2>2
  <1> QED BY <1>5, <1>6, Zenon DEF chain

\* An entry at the end of the chain of its key.
LEMMA InsertMoves ==
  ASSUME NEW t, GoodTable(t), NEW e \in Entries, \A h \in EntriesOf(t) : h.key # e.key
  PROVE  LET u == rehash_insert(t, e)
         IN /\ GoodTable(u) /\ EntriesOf(u) = EntriesOf(t) \cup {e}
            /\ u.size_idx = t.size_idx /\ u.len = t.len /\ u.load_thresh = t.load_thresh
            /\ DOMAIN u.data = DOMAIN t.data
  <1> DEFINE u == rehash_insert(t, e)
             c == SlotOfKey(t, e.key)
  <1>1. c \in DOMAIN t.data /\ t.data[c] \in Seq(Entries) /\ e.key \in TableKeys
    <2>1. e.key \in TableKeys
      BY DEF Entries
    <2> QED BY <2>1, SlotInTable
  <1>2. t.size_idx \in Indexes /\ t \in Tables(t.size_idx)
    BY DEF GoodTable
  <1>3. Append(t.data[c], e) \in Seq(Entries) /\ Range(Append(t.data[c], e)) = Range(t.data[c]) \cup {e}
    BY <1>1, RangeAppend
  <1>4. u = [t EXCEPT !.data = [t.data EXCEPT ![c] = Append(t.data[c], e)]]
    BY Zenon DEF rehash_insert
  <1> HIDE DEF u, c
  <1>5. /\ u.data = [t.data EXCEPT ![c] = Append(t.data[c], e)]
        /\ u.size_idx = t.size_idx /\ u.len = t.len /\ u.load_thresh = t.load_thresh
        /\ u \in Tables(u.size_idx)
    BY <1>1, <1>2, <1>3, <1>4 DEF Tables
  <1>6. /\ DOMAIN u.data = DOMAIN t.data
        /\ u.data[c] = Append(t.data[c], e)
        /\ \A i \in DOMAIN t.data : i # c => u.data[i] = t.data[i]
    BY <1>1, <1>2, <1>5 DEF Tables
  <1>7. \A k : SlotOfKey(u, k) = SlotOfKey(t, k)
    BY <1>5, Zenon DEF SlotOfKey
  <1>8. EntriesOf(u) = EntriesOf(t) \cup {e}
    <2>1. ASSUME NEW x \in EntriesOf(u) PROVE x \in EntriesOf(t) \cup {e}
      <3>1. PICK i \in DOMAIN t.data : x \in Range(u.data[i])
        BY <1>6, <2>1, Zenon DEF EntriesOf
      <3>2. x \in Range(t.data[i]) \/ x = e
        BY <1>3, <1>6, <3>1, Zenon
      <3> QED BY <3>2, Zenon DEF EntriesOf
    <2>2. ASSUME NEW x \in EntriesOf(t) PROVE x \in EntriesOf(u)
      <3>1. PICK i \in DOMAIN t.data : x \in Range(t.data[i])
        BY <2>2, Zenon DEF EntriesOf
      <3>2. x \in Range(u.data[i])
        BY <1>3, <1>6, <3>1, Zenon
      <3> QED BY <1>6, <3>2, Zenon DEF EntriesOf
    <2>3. e \in EntriesOf(u)
      <3>1. e \in Range(u.data[c])
        BY <1>3, <1>6, Zenon
      <3> QED BY <1>1, <1>6, <3>1, Zenon DEF EntriesOf
    <2> QED BY <2>1, <2>2, <2>3, Zenon
  <1>9. ASSUME NEW i \in DOMAIN u.data
        PROVE  (\A x \in Range(u.data[i]) : SlotOfKey(u, x.key) = i) /\ KeyOnce(u.data[i])
    <2>1. (\A x \in Range(t.data[i]) : SlotOfKey(t, x.key) = i) /\ KeyOnce(t.data[i])
      BY <1>6, Zenon DEF GoodTable
    <2>2. CASE i # c
      BY <1>6, <1>7, <2>1, <2>2, Zenon
    <2>3. CASE i = c
      <3>1. \A x \in Range(u.data[i]) : SlotOfKey(u, x.key) = i
        BY <1>3, <1>6, <1>7, <2>1, <2>3, Zenon DEF c
      <3>2. \A j \in 1 .. Len(t.data[c]) : t.data[c][j].key # e.key
        <4>1. ASSUME NEW j \in 1 .. Len(t.data[c]) PROVE t.data[c][j] \in EntriesOf(t)
          <5>1. t.data[c][j] \in Range(t.data[c])
            BY <1>1, InRange
          <5> QED BY <1>1, <5>1, Zenon DEF EntriesOf
        <4> QED BY <4>1, Zenon
      <3> DEFINE s == t.data[c]
      <3> HIDE DEF s
      <3>3. s \in Seq(Entries) /\ KeyOnce(s) /\ \A j \in 1 .. Len(s) : s[j].key # e.key
        BY <1>1, <2>1, <2>3, <3>2 DEF s
      <3>4. KeyOnce(Append(s, e))
        BY <3>3 DEF KeyOnce
      <3> QED BY <1>6, <2>3, <3>1, <3>4, Zenon DEF s
    <2> QED BY <2>2, <2>3, Zenon
  <1>10. GoodTable(u)
    BY <1>2, <1>5, <1>9, Zenon DEF GoodTable
  <1> QED BY <1>5, <1>6, <1>8, <1>10, Zenon DEF u

Moved(t, chain) == rehash_chain(t, chain)
AllMoved(t, chains) == FoldLeft(rehash_chain, t, chains)

LEMMA MovedIs == ASSUME NEW t, NEW c PROVE Moved(t, c) = Moves!Folded(t, c)
  BY DEF Moved, rehash_chain, FoldLeft, MapThenFoldSet, Max, Moves!Folded, Moves!FoldLeft, Moves!MapThenFoldSet, Moves!Max

LEMMA AllMovedIs == ASSUME NEW t, NEW cs PROVE AllMoved(t, cs) = ChainsMoved!Folded(t, cs)
  BY DEF AllMoved, FoldLeft, MapThenFoldSet, Max, ChainsMoved!Folded, ChainsMoved!FoldLeft, ChainsMoved!MapThenFoldSet, ChainsMoved!Max

\* What a table is after it has taken the entries of a set.
Takes(t, u, es) ==
  /\ GoodTable(u) /\ EntriesOf(u) = EntriesOf(t) \cup es
  /\ u.size_idx = t.size_idx /\ u.len = t.len /\ u.load_thresh = t.load_thresh

First(c, i) == {c[j] : j \in 1 .. i}

\* One chain is carried over ...
LEMMA ChainMoves ==
  ASSUME NEW t, GoodTable(t), NEW c \in Seq(Entries), KeyOnce(c),
         \A h \in EntriesOf(t) : \A e \in Range(c) : h.key # e.key
  PROVE  Takes(t, rehash_chain(t, c), Range(c))
  <1> DEFINE n == Len(c)
  <1>n. n \in Nat
    OBVIOUS
  <1>1. PICK f : /\ f[0] = t
                 /\ \A i \in 1 .. n : f[i] = rehash_insert(f[i - 1], c[i])
                 /\ rehash_chain(t, c) = f[n]
    <2>1. \E f : /\ f[0] = t
                 /\ \A i \in 1 .. n : f[i] = rehash_insert(f[i - 1], c[i])
                 /\ Moved(t, c) = f[n]
      BY Moves!FoldSteps, MovedIs
    <2> QED BY <2>1, Zenon DEF Moved
  <1> DEFINE B == {i \in 0 .. n : ~Takes(t, f[i], First(c, i))}
  <1>2. SUFFICES B = {}
    <2>1. Takes(t, f[n], First(c, n))
      <3>1. n \in 0 .. n
        BY <1>n
      <3> QED BY <1>2, <3>1, Zenon
    <2>2. First(c, n) = Range(c)
      BY DEF First, Range
    <2> QED BY <1>1, <2>1, <2>2, Zenon
  <1>a. SUFFICES ASSUME B # {} PROVE FALSE
    BY Zenon
  <1>0. B \in SUBSET Nat
    <2>1. \A i \in 0 .. n : i \in Nat
      BY <1>n
    <2> QED BY <2>1, Zenon
  <1>3. PICK k \in B : \A j \in B : k <= j
    <2> HIDE DEF B
    <2> QED BY <1>a, <1>0, Moves!SmallestNat
  <1>4. k \in 0 .. n /\ ~Takes(t, f[k], First(c, k))
    BY Zenon
  <1>5. CASE k = 0
    <2>1. First(c, 0) = {}
      BY DEF First
    <2>2. Takes(t, t, {})
      BY Zenon DEF Takes
    <2> QED BY <1>1, <1>4, <1>5, <2>1, <2>2, Zenon
  <1>6. CASE k # 0
    <2>1. k - 1 \in 0 .. n /\ k \in 1 .. n
      BY <1>n, <1>4, <1>6
    <2>2. k - 1 \notin B
      <3>1. ~(k <= k - 1)
        BY <1>4
      <3> HIDE DEF B
      <3> QED BY <1>3, <3>1, Zenon
    <2>3. Takes(t, f[k - 1], First(c, k - 1))
      BY <2>1, <2>2, Zenon
    <2>4. First(c, k) = First(c, k - 1) \cup {c[k]}
      <3>1. \A j : j \in 1 .. k <=> j \in 1 .. k - 1 \/ j = k
        BY <2>1
      <3> QED BY <3>1, Zenon DEF First
    <2>5. c[k] \in Entries /\ c[k] \in Range(c)
      BY <2>1, InRange
    <2>6. \A h \in First(c, k - 1) : h.key # c[k].key
      <3>1. \A j \in 1 .. k - 1 : c[j].key # c[k].key
        BY <2>1 DEF KeyOnce
      <3> QED BY <3>1, Zenon DEF First
    <2>7. \A h \in EntriesOf(f[k - 1]) : h.key # c[k].key
      BY <2>3, <2>5, <2>6, Zenon DEF Takes
    <2> DEFINE g == f[k - 1]  e == c[k]
    <2>8. f[k] = rehash_insert(g, e) /\ GoodTable(g) /\ e \in Entries /\ \A h \in EntriesOf(g) : h.key # e.key
      BY <1>1, <2>1, <2>3, <2>5, <2>7, Zenon DEF Takes
    <2>t. Takes(t, g, First(c, k - 1)) /\ First(c, k) = First(c, k - 1) \cup {e}
      BY <2>3, <2>4
    <2> HIDE DEF g, e, B
    <2> DEFINE u == rehash_insert(g, e)
    <2>u. /\ GoodTable(u) /\ EntriesOf(u) = EntriesOf(g) \cup {e}
          /\ u.size_idx = g.size_idx /\ u.len = g.len /\ u.load_thresh = g.load_thresh
      BY <2>8, InsertMoves
    <2> HIDE DEF u
    <2>v. f[k] = u
      BY <2>8, Zenon DEF u
    <2>9. Takes(t, u, First(c, k))
      BY <2>u, <2>t, Zenon DEF Takes
    <2> QED BY <1>4, <2>9, <2>v, Zenon
  <1> QED BY <1>5, <1>6, Zenon

\* ... and then all, if no two have an entry of the same key.
LEMMA ChainsMove ==
  ASSUME NEW t, GoodTable(t), EntriesOf(t) = {}, NEW cs \in Seq(Seq(Entries)),
         \A i \in 1 .. Len(cs) : KeyOnce(cs[i]),
         \A i, j \in 1 .. Len(cs) : \A d \in Range(cs[i]) : \A e \in Range(cs[j]) : d.key = e.key => i = j
  PROVE  Takes(t, AllMoved(t, cs), UNION {Range(cs[i]) : i \in 1 .. Len(cs)})
  <1> DEFINE n == Len(cs)
             Upto(i) == UNION {Range(cs[j]) : j \in 1 .. i}
  <1>n. n \in Nat
    OBVIOUS
  <1>1. PICK f : /\ f[0] = t
                 /\ \A i \in 1 .. n : f[i] = rehash_chain(f[i - 1], cs[i])
                 /\ AllMoved(t, cs) = f[n]
    <2>1. \E f : /\ f[0] = t
                 /\ \A i \in 1 .. Len(cs) : f[i] = rehash_chain(f[i - 1], cs[i])
                 /\ ChainsMoved!Folded(t, cs) = f[Len(cs)]
      BY ChainsMoved!FoldSteps, ZenonT(60)
    <2> QED BY <2>1, AllMovedIs, Zenon
  <1> DEFINE B == {i \in 0 .. n : ~Takes(t, f[i], Upto(i))}
  <1>2. SUFFICES B = {}
    <2>1. n \in 0 .. n
      BY <1>n
    <2> QED BY <1>1, <1>2, <2>1, Zenon
  <1>a. SUFFICES ASSUME B # {} PROVE FALSE
    BY Zenon
  <1>0. B \in SUBSET Nat
    <2>1. \A i \in 0 .. n : i \in Nat
      BY <1>n
    <2> QED BY <2>1, Zenon
  <1>3. PICK k \in B : \A j \in B : k <= j
    <2> HIDE DEF B
    <2> QED BY <1>a, <1>0, Moves!SmallestNat
  <1>4. k \in 0 .. n /\ ~Takes(t, f[k], Upto(k))
    BY Zenon
  <1>5. CASE k = 0
    <2>1. Upto(0) = {}
      OBVIOUS
    <2>2. Takes(t, t, {})
      BY Zenon DEF Takes
    <2> HIDE DEF Upto
    <2> QED BY <1>1, <1>4, <1>5, <2>1, <2>2, Zenon
  <1>6. CASE k # 0
    <2>1. k - 1 \in 0 .. n /\ k \in 1 .. n
      BY <1>n, <1>4, <1>6
    <2>2. k - 1 \notin B
      <3>1. ~(k <= k - 1)
        BY <1>4
      <3> HIDE DEF B, Upto
      <3> QED BY <1>3, <3>1, Zenon
    <2>3. Takes(t, f[k - 1], Upto(k - 1))
      BY <2>1, <2>2, Zenon
    <2>4. Upto(k) = Upto(k - 1) \cup Range(cs[k])
      <3>1. \A j : j \in 1 .. k <=> j \in 1 .. k - 1 \/ j = k
        BY <2>1
      <3>2. ASSUME NEW x PROVE x \in Upto(k) => x \in Upto(k - 1) \cup Range(cs[k])
        BY <3>1, Zenon
      <3>3. ASSUME NEW x PROVE x \in Upto(k - 1) \cup Range(cs[k]) => x \in Upto(k)
        BY <3>1, Zenon
      <3> HIDE DEF Upto
      <3> QED BY <3>2, <3>3
    <2> DEFINE g == f[k - 1]  c == cs[k]
    <2>5. c \in Seq(Entries) /\ KeyOnce(c)
      BY <2>1
    <2>6. \A h \in Upto(k - 1) : \A e \in Range(c) : h.key # e.key
      <3>1. \A j \in 1 .. k - 1 : j \in 1 .. n /\ j # k
        BY <1>n, <2>1
      <3> QED BY <2>1, <3>1, Zenon
    <2> HIDE DEF Upto, B
    <2>7. f[k] = rehash_chain(g, c) /\ GoodTable(g) /\ \A h \in EntriesOf(g) : \A e \in Range(c) : h.key # e.key
      BY <1>1, <2>1, <2>3, <2>6, Zenon DEF Takes
    <2>t. Takes(t, g, Upto(k - 1)) /\ Upto(k) = Upto(k - 1) \cup Range(c)
      BY <2>3, <2>4
    <2> HIDE DEF g, c
    <2>8. Takes(g, f[k], Range(c))
      BY <2>5, <2>7, ChainMoves
    <2>9. Takes(t, f[k], Upto(k))
      BY <2>8, <2>t, Zenon DEF Takes
    <2> QED BY <1>4, <2>9, Zenon
  <1> QED BY <1>5, <1>6, Zenon

Thresh(i) == (2 * ht_prime_sizes[i]) \div 3

\* Its length and its threshold say nothing of what is in a table.
LEMMA SameEntries ==
  ASSUME NEW u, GoodTable(u), NEW w \in Tables(u.size_idx), w.data = u.data, w.size_idx = u.size_idx
  PROVE  GoodTable(w) /\ EntriesOf(w) = EntriesOf(u)
  <1>1. \A k : SlotOfKey(w, k) = SlotOfKey(u, k)
    BY Zenon DEF SlotOfKey
  <1>2. EntriesOf(w) = EntriesOf(u)
    BY Zenon DEF EntriesOf
  <1>3. w.size_idx \in Indexes /\ w \in Tables(w.size_idx)
    BY Zenon DEF GoodTable
  <1>4. \A i \in DOMAIN w.data : \A e \in Range(w.data[i]) : SlotOfKey(w, e.key) = i
    BY <1>1, Zenon DEF GoodTable
  <1>5. \A i \in DOMAIN w.data : KeyOnce(w.data[i])
    BY Zenon DEF GoodTable
  <1> QED BY <1>2, <1>3, <1>4, <1>5, Zenon DEF GoodTable

\* A table that grows keeps all it holds.
LEMMA RehashKeeps ==
  ASSUME NEW t, GoodTable(t), t.size_idx + 1 \in Indexes
  PROVE  /\ GoodTable(rehash(t)) /\ EntriesOf(rehash(t)) = EntriesOf(t)
         /\ rehash(t).size_idx = t.size_idx + 1 /\ rehash(t).len = t.len
         /\ rehash(t).load_thresh = Thresh(t.size_idx + 1)
  <1> DEFINE larger == [WithSize(t.size_idx + 1) EXCEPT !.len = t.len]
             n == ht_prime_sizes[t.size_idx]
             chains == [i \in 1 .. n |-> t.data[i - 1]]
             u == AllMoved(larger, chains)
  <1>1. t.size_idx \in Indexes /\ t.data \in [0 .. n - 1 -> Seq(Entries)] /\ t.len \in Nat /\ t.size_idx \in Nat
    BY DEF GoodTable, Tables, Indexes
  <1>2. n \in Nat \ {0} /\ ht_prime_sizes[t.size_idx + 1] \in Nat \ {0}
    BY <1>1, SizesOfTable
  <1>3. /\ larger = [data |-> [i \in 0 .. ht_prime_sizes[t.size_idx + 1] - 1 |-> <<>>], len |-> t.len,
                     size_idx |-> t.size_idx + 1, load_thresh |-> 0]
    <2> DEFINE W == WithSize(t.size_idx + 1)
    <2>1. W = [data |-> [i \in 0 .. ht_prime_sizes[t.size_idx + 1] - 1 |-> <<>>], len |-> 0,
               size_idx |-> t.size_idx + 1, load_thresh |-> 0]
      BY Zenon DEF WithSize
    <2> HIDE DEF W
    <2>2. larger = [W EXCEPT !.len = t.len]
      BY Zenon DEF W
    <2> HIDE DEF larger
    <2> QED BY <2>1, <2>2
  <1>4. GoodTable(larger) /\ EntriesOf(larger) = {}
    <2> HIDE DEF larger
    <2>1. larger \in Tables(larger.size_idx) /\ larger.size_idx \in Indexes
      <3>1. <<>> \in Seq(Entries)
        OBVIOUS
      <3> QED BY <1>1, <1>2, <1>3, <3>1 DEF Tables
    <2>2. \A i \in DOMAIN larger.data : larger.data[i] = <<>>
      BY <1>3
    <2>3. Range(<<>>) = {} /\ KeyOnce(<<>>)
      BY DEF Range, KeyOnce
    <2>4. \A i \in DOMAIN larger.data : Range(larger.data[i]) = {} /\ KeyOnce(larger.data[i])
      BY <2>2, <2>3, Zenon
    <2> QED BY <2>1, <2>4, Zenon DEF GoodTable, EntriesOf
  <1>5. chains \in Seq(Seq(Entries)) /\ Len(chains) = n /\ \A i \in 1 .. n : chains[i] = t.data[i - 1] /\ i - 1 \in DOMAIN t.data
    <2>1. \A i \in 1 .. n : i - 1 \in DOMAIN t.data /\ t.data[i - 1] \in Seq(Entries)
      BY <1>1, <1>2
    <2>2. chains \in [1 .. n -> Seq(Entries)] /\ n \in Nat
      BY <1>2, <2>1
    <2> HIDE DEF n
    <2> QED BY <2>1, <2>2
  <1>6. UNION {Range(chains[i]) : i \in 1 .. n} = EntriesOf(t)
    <2>1. ASSUME NEW i \in 1 .. n PROVE Range(chains[i]) \subseteq EntriesOf(t)
      BY <1>5, Zenon DEF EntriesOf
    <2>2. ASSUME NEW j \in DOMAIN t.data PROVE \E i \in 1 .. n : chains[i] = t.data[j]
      <3>1. j + 1 \in 1 .. n /\ (j + 1) - 1 = j
        BY <1>1, <1>2
      <3>2. chains[j + 1] = t.data[(j + 1) - 1]
        BY <1>5, <3>1, Zenon
      <3>3. chains[j + 1] = t.data[j]
        <4> HIDE DEF chains
        <4> QED BY <3>1, <3>2, Zenon
      <3> QED BY <3>1, <3>3, Zenon
    <2> HIDE DEF chains, n
    <2> QED BY <2>1, <2>2, Zenon DEF EntriesOf
  <1>7. \A i \in 1 .. n : KeyOnce(chains[i])
    BY <1>5, Zenon DEF GoodTable
  <1>8. ASSUME NEW i \in 1 .. n, NEW j \in 1 .. n, NEW d \in Range(chains[i]), NEW e \in Range(chains[j]), d.key = e.key
        PROVE  i = j
    <2>1. SlotOfKey(t, d.key) = i - 1 /\ SlotOfKey(t, e.key) = j - 1
      BY <1>5, Zenon DEF GoodTable
    <2>2. i - 1 = j - 1
      BY <1>8, <2>1, Zenon
    <2> QED BY <2>2
  <1> HIDE DEF larger, chains
  <1>9. Takes(larger, u, EntriesOf(t))
    <2>1. Takes(larger, AllMoved(larger, chains), UNION {Range(chains[i]) : i \in 1 .. Len(chains)})
      <3> HIDE DEF n
      <3>1. \A i \in 1 .. Len(chains) : KeyOnce(chains[i])
        BY <1>5, <1>7
      <3>2. \A i, j \in 1 .. Len(chains) : \A d \in Range(chains[i]) : \A e \in Range(chains[j]) : d.key = e.key => i = j
        BY <1>5, <1>8
      <3> QED BY <1>4, <1>5, <3>1, <3>2, ChainsMove
    <2> QED BY <1>5, <1>6, <2>1
  <1>10. rehash(t) = update_load_thresh(u)
    BY Zenon DEF rehash, AllMoved, larger, chains
  <1> HIDE DEF u, n
  <1>11. /\ GoodTable(u) /\ EntriesOf(u) = EntriesOf(t) /\ u.len = t.len /\ u.size_idx = t.size_idx + 1
    BY <1>3, <1>4, <1>9 DEF Takes
  <1> DEFINE w == rehash(t)
  <1>12. /\ w.data = u.data /\ w.len = u.len /\ w.size_idx = u.size_idx
         /\ w.load_thresh = Thresh(t.size_idx + 1)
         /\ w \in Tables(u.size_idx)
    <2>1. u \in Tables(u.size_idx) /\ Thresh(t.size_idx + 1) \in Nat
      <3>1. ht_prime_sizes[t.size_idx + 1] \in Nat
        BY <1>2
      <3>2. Thresh(t.size_idx + 1) \in Nat
        BY <3>1, SMT DEF Thresh
      <3> QED BY <1>11, <3>2, Zenon DEF GoodTable
    <2>2. w = [u EXCEPT !.load_thresh = Thresh(t.size_idx + 1)]
      BY <1>10, <1>11, Zenon DEF update_load_thresh, Thresh
    <2> HIDE DEF w
    <2> QED BY <2>1, <2>2 DEF Tables
  <1> HIDE DEF w
  <1>13. GoodTable(w) /\ EntriesOf(w) = EntriesOf(u)
    BY <1>11, <1>12, SameEntries, Zenon
  <1> QED BY <1>11, <1>12, <1>13, Zenon DEF w

\* A larger table takes more before it has to grow.
LEMMA ThreshGrows ==
  ASSUME NEW i \in Indexes
  PROVE  /\ Thresh(i) \in Nat
         /\ i + 1 \in Indexes => Thresh(i) < Thresh(i + 1)
         /\ i + 1 \notin Indexes => Cardinality(TableKeys) < Thresh(i)
  <1>1. i \in Nat /\ i + 1 \in Nat
    BY DEF Indexes
  <1>2. ht_prime_sizes[i] \in Nat
    BY SizesOfTable
  <1>3. Thresh(i) \in Nat
    BY <1>2, SMT DEF Thresh
  <1>4. ASSUME i + 1 \in Indexes PROVE Thresh(i) < Thresh(i + 1)
    <2>1. ht_prime_sizes[i + 1] \in Nat
      BY <1>4, SizesOfTable
    <2>2. ht_prime_sizes[i] + 2 <= ht_prime_sizes[i + 1]
      BY <1>4, TableAssumption DEF Indexes
    <2> DEFINE p == ht_prime_sizes[i]  q == ht_prime_sizes[i + 1]
    <2> HIDE DEF p, q
    <2>3. p \in Nat /\ q \in Nat /\ p + 2 <= q
      BY <1>2, <2>1, <2>2 DEF p, q
    <2>4. (2 * p) \div 3 < (2 * q) \div 3
      BY <2>3, SMT
    <2> QED BY <2>4 DEF p, q, Thresh
  <1>5. ASSUME i + 1 \notin Indexes PROVE Cardinality(TableKeys) < Thresh(i)
    <2>1. i = Len(ht_prime_sizes)
      BY <1>5, TableAssumption DEF Indexes
    <2> DEFINE p == ht_prime_sizes[i]  c == Cardinality(TableKeys)
    <2>2. c \in Nat
      BY TableAssumption, FS_CardinalityType
    <2>3. 3 * c + 3 <= 2 * p
      BY <2>1, TableAssumption
    <2> HIDE DEF p, c
    <2>4. p \in Nat
      BY <1>2 DEF p
    <2>5. c < (2 * p) \div 3
      BY <2>2, <2>3, <2>4, SMT
    <2> QED BY <2>5 DEF p, c, Thresh
  <1> QED BY <1>3, <1>4, <1>5

\* A table that holds n entries and is below its threshold.
Sized(t, n) == GoodTable(t) /\ t.len = n /\ t.load_thresh = Thresh(t.size_idx) /\ t.len < t.load_thresh

\* A new entry, with the growth it may bring.
LEMMA InsertAdds ==
  ASSUME NEW n \in Nat, NEW t, Sized(t, n), n < Cardinality(TableKeys),
         NEW k \in TableKeys, NEW v \in Nat, Find(t, k) = 0
  PROVE  Sized(insert(t, k, v), n + 1) /\ EntriesOf(insert(t, k, v)) = EntriesOf(t) \cup {[key |-> k, val |-> v]}
  <1> DEFINE e == [key |-> k, val |-> v]
             u == rehash_insert(t, e)
             w == [u EXCEPT !.len = @ + 1]
  <1>1. e \in Entries /\ e.key = k
    BY DEF Entries
  <1>2. \A h \in EntriesOf(t) : h.key # e.key
    BY <1>1, FindIs DEF Sized
  <1>3. /\ GoodTable(u) /\ EntriesOf(u) = EntriesOf(t) \cup {e}
        /\ u.size_idx = t.size_idx /\ u.len = n /\ u.load_thresh = t.load_thresh
    <2> HIDE DEF e
    <2> QED BY <1>1, <1>2, InsertMoves DEF Sized
  <1>4. insert(t, k, v) = IF w.len = w.load_thresh THEN rehash(w) ELSE w
    BY Zenon DEF insert
  <1> HIDE DEF e, u
  <1>5. w \in Tables(u.size_idx) /\ w.data = u.data /\ w.size_idx = u.size_idx /\ w.len = n + 1 /\ w.load_thresh = u.load_thresh
    BY <1>3 DEF GoodTable, Tables
  <1> HIDE DEF w
  <1>6. GoodTable(w) /\ EntriesOf(w) = EntriesOf(t) \cup {e}
    BY <1>3, <1>5, SameEntries, Zenon
  <1>7. w.load_thresh = Thresh(w.size_idx) /\ n < w.load_thresh /\ w.size_idx \in Indexes
    BY <1>3, <1>5, <1>6, Zenon DEF Sized, GoodTable
  <1>8. w.load_thresh \in Nat
    BY <1>7, ThreshGrows, Zenon
  <1>9. CASE w.len # w.load_thresh
    BY <1>4, <1>5, <1>6, <1>7, <1>8, <1>9 DEF Sized, e
  <1>10. CASE w.len = w.load_thresh
    <2> DEFINE i == w.size_idx
    <2>c. Cardinality(TableKeys) \in Nat
      BY TableAssumption, FS_CardinalityType
    <2> HIDE DEF i
    <2>1. i \in Indexes /\ Thresh(i) = n + 1
      BY <1>5, <1>7, <1>10 DEF i
    <2>2. i + 1 \in Indexes /\ Thresh(i) < Thresh(i + 1)
      BY <2>1, <2>c, ThreshGrows
    <2>3. /\ GoodTable(rehash(w)) /\ EntriesOf(rehash(w)) = EntriesOf(w)
          /\ rehash(w).size_idx = i + 1 /\ rehash(w).len = n + 1 /\ rehash(w).load_thresh = Thresh(i + 1)
      BY <1>5, <1>6, <2>2, RehashKeeps DEF i
    <2>4. Sized(rehash(w), n + 1)
      BY <2>1, <2>2, <2>3 DEF Sized
    <2> QED BY <1>4, <1>6, <1>10, <2>3, <2>4 DEF e
  <1> QED BY <1>9, <1>10

\* A sequence from which the only entry of a key is taken out.
LEMMA RemovedIs ==
  ASSUME NEW s \in Seq(Entries), KeyOnce(s), NEW i \in 1 .. Len(s)
  PROVE  /\ RemoveAt(s, i) \in Seq(Entries) /\ KeyOnce(RemoveAt(s, i))
         /\ Range(RemoveAt(s, i)) = {e \in Range(s) : e.key # s[i].key}
  <1> DEFINE r == RemoveAt(s, i)
             n == Len(s)
  <1>1. /\ r \in Seq(Entries) /\ Len(r) = n - 1
        /\ \A j \in 1 .. n - 1 : r[j] = IF j < i THEN s[j] ELSE s[j + 1]
    BY RemoveAtIs
  <1>n. n \in Nat /\ i \in 1 .. n
    OBVIOUS
  <1> HIDE DEF r
  <1> DEFINE from(j) == IF j < i THEN j ELSE j + 1
  <1>2. \A j \in 1 .. n - 1 : from(j) \in 1 .. n /\ from(j) # i /\ r[j] = s[from(j)]
    <2> HIDE DEF n
    <2> QED BY <1>1, <1>n
  <1>3. \A j, k \in 1 .. n - 1 : from(j) = from(k) => j = k
    <2> HIDE DEF n
    <2> QED BY <1>n
  <1>4. ASSUME NEW j \in 1 .. n, j # i PROVE \E k \in 1 .. n - 1 : from(k) = j
    <2> HIDE DEF n
    <2>1. CASE j < i
      <3>1. j \in 1 .. n - 1 /\ from(j) = j
        BY <1>n, <2>1
      <3> HIDE DEF from
      <3> QED BY <3>1, Zenon
    <2>2. CASE j > i
      <3>1. j - 1 \in 1 .. n - 1 /\ from(j - 1) = j
        BY <1>n, <2>2
      <3> HIDE DEF from
      <3> QED BY <3>1, Zenon
    <2> QED BY <1>n, <1>4, <2>1, <2>2
  <1> HIDE DEF from
  <1>5. \A j \in 1 .. n : j # i => s[j].key # s[i].key
    BY <1>n, Zenon DEF KeyOnce
  <1>6. KeyOnce(r)
    <2> SUFFICES ASSUME NEW j \in 1 .. n - 1, NEW k \in 1 .. n - 1, r[j].key = r[k].key PROVE j = k
      BY <1>1, Zenon DEF KeyOnce
    <2> QED BY <1>2, <1>3, Zenon DEF KeyOnce
  <1>7. ASSUME NEW e \in Range(r) PROVE e \in Range(s) /\ e.key # s[i].key
    <2>1. PICK j \in 1 .. n - 1 : r[j] = e
      BY <1>1, InRange
    <2>2. from(j) \in 1 .. n /\ from(j) # i /\ s[from(j)] = e
      BY <1>2, <2>1, Zenon
    <2>3. e \in Range(s)
      BY <2>2, InRange
    <2> QED BY <1>5, <2>2, <2>3, Zenon
  <1>8. ASSUME NEW e \in Range(s), e.key # s[i].key PROVE e \in Range(r)
    <2>1. PICK j \in 1 .. n : s[j] = e
      BY InRange
    <2>2. j # i
      BY <1>8, <2>1
    <2>3. PICK k \in 1 .. n - 1 : from(k) = j
      BY <1>4, <2>2, Zenon
    <2>4. k \in 1 .. Len(r) /\ r[k] = e
      BY <1>1, <1>2, <2>1, <2>3
    <2> QED BY <1>1, <2>4, InRange
  <1>9. Range(r) = {e \in Range(s) : e.key # s[i].key}
    BY <1>7, <1>8
  <1> QED BY <1>1, <1>6, <1>9 DEF r

\* The entry of a key goes, and no other.
LEMMA DeleteTakes ==
  ASSUME NEW n \in Nat, NEW t, Sized(t, n + 1), NEW k \in TableKeys, Find(t, k) # 0
  PROVE  Sized(delete(t, k), n) /\ EntriesOf(delete(t, k)) = {e \in EntriesOf(t) : e.key # k}
  <1> DEFINE i == Find(t, k)
             c == SlotOfKey(t, k)
             s == t.data[c]
             r == RemoveAt(s, i)
             u == delete(t, k)
  <1>1. GoodTable(t) /\ t.len = n + 1
    BY DEF Sized
  <1>2. c \in DOMAIN t.data /\ s \in Seq(Entries) /\ KeyOnce(s)
    <2>1. c \in DOMAIN t.data /\ s \in Seq(Entries)
      BY <1>1, SlotInTable
    <2> QED BY <1>1, <2>1, Zenon DEF GoodTable
  <1>3. i \in 1 .. Len(s) /\ s[i].key = k
    BY <1>1, FindIs
  <1>4. u = [t EXCEPT !.data = [t.data EXCEPT ![c] = r], !.len = t.len - 1]
    BY Zenon DEF delete
  <1>5. t.size_idx \in Indexes /\ t \in Tables(t.size_idx)
    BY <1>1, Zenon DEF GoodTable
  <1> HIDE DEF i, s, u
  <1>6. r \in Seq(Entries) /\ KeyOnce(r) /\ Range(r) = {e \in Range(s) : e.key # k}
    BY <1>2, <1>3, RemovedIs
  <1> HIDE DEF r, c
  <1>7. /\ u.data = [t.data EXCEPT ![c] = r]
        /\ u.size_idx = t.size_idx /\ u.len = n /\ u.load_thresh = t.load_thresh
        /\ u \in Tables(t.size_idx)
    <2> DEFINE d == [t.data EXCEPT ![c] = r]
    <2>1. d \in [0 .. ht_prime_sizes[t.size_idx] - 1 -> Seq(Entries)]
      BY <1>2, <1>5, <1>6 DEF Tables
    <2>2. n = t.len - 1
      BY <1>1
    <2>3. u = [t EXCEPT !.data = d, !.len = n]
      BY <1>4, <2>2, Zenon
    <2> HIDE DEF d
    <2>4. u.data = d /\ u.size_idx = t.size_idx /\ u.len = n /\ u.load_thresh = t.load_thresh /\ u \in Tables(t.size_idx)
      BY <1>5, <2>1, <2>3 DEF Tables
    <2> QED BY <2>4, Zenon DEF d
  <1>8. /\ DOMAIN u.data = DOMAIN t.data /\ u.data[c] = r
        /\ \A j \in DOMAIN t.data : j # c => u.data[j] = t.data[j]
    BY <1>2, <1>5, <1>7 DEF Tables
  <1>9. \A x : SlotOfKey(u, x) = SlotOfKey(t, x)
    BY <1>7, Zenon DEF SlotOfKey
  <1>s. Range(t.data[c]) = Range(s)
    BY Zenon DEF s
  <1>10. ASSUME NEW j \in DOMAIN u.data PROVE Range(u.data[j]) = {e \in Range(t.data[j]) : e.key # k}
    <2>1. CASE j = c
      BY <1>6, <1>8, <1>s, <2>1, Zenon
    <2>2. CASE j # c
      <3>1. u.data[j] = t.data[j]
        BY <1>8, <2>2, Zenon
      <3>2. \A e \in Range(t.data[j]) : e.key # k
        <4>1. \A e \in Range(t.data[j]) : SlotOfKey(t, e.key) = j
          BY <1>1, <1>8, Zenon DEF GoodTable
        <4> QED BY <2>2, <4>1, Zenon DEF c
      <3> QED BY <3>1, <3>2, Zenon
    <2> QED BY <2>1, <2>2
  <1>11. EntriesOf(u) = {e \in EntriesOf(t) : e.key # k}
    <2>1. ASSUME NEW e \in EntriesOf(u) PROVE e \in EntriesOf(t) /\ e.key # k
      <3>1. PICK j \in DOMAIN u.data : e \in Range(u.data[j])
        BY <2>1, Zenon DEF EntriesOf
      <3>2. e \in Range(t.data[j]) /\ e.key # k
        BY <1>10, <3>1, Zenon
      <3> QED BY <1>8, <3>1, <3>2, Zenon DEF EntriesOf
    <2>2. ASSUME NEW e \in EntriesOf(t), e.key # k PROVE e \in EntriesOf(u)
      BY <1>8, <1>10, <2>2, Zenon DEF EntriesOf
    <2> QED BY <2>1, <2>2
  <1>12. ASSUME NEW j \in DOMAIN u.data
         PROVE  (\A e \in Range(u.data[j]) : SlotOfKey(u, e.key) = j) /\ KeyOnce(u.data[j])
    <2>1. (\A e \in Range(t.data[j]) : SlotOfKey(t, e.key) = j) /\ KeyOnce(t.data[j])
      BY <1>1, <1>8, Zenon DEF GoodTable
    <2>2. KeyOnce(u.data[j])
      BY <1>6, <1>8, <2>1, Zenon
    <2> QED BY <1>9, <1>10, <2>1, <2>2, Zenon
  <1>13. GoodTable(u)
    BY <1>5, <1>7, <1>12, Zenon DEF GoodTable
  <1>14. n < n + 1 /\ n + 1 < t.load_thresh /\ t.load_thresh \in Nat /\ t.load_thresh = Thresh(t.size_idx)
    BY <1>1, <1>5, ThreshGrows DEF Sized
  <1>15. Sized(u, n)
    BY <1>7, <1>13, <1>14 DEF Sized
  <1> QED BY <1>11, <1>15, Zenon DEF u

\* A new table.
LEMMA MakeIsSized == Sized(make, 0) /\ EntriesOf(make) = {}
  <1> DEFINE W == WithSize(1)
             size == ht_prime_sizes[1]
  <1>1. 1 \in Indexes
    BY TableAssumption DEF Indexes
  <1>2. size \in Nat \ {0, 1}
    BY <1>1, SizesOfTable
  <1>3. W = [data |-> [i \in 0 .. size - 1 |-> <<>>], len |-> 0, size_idx |-> 1, load_thresh |-> 0]
    BY Zenon DEF WithSize
  <1>4. make = [W EXCEPT !.load_thresh = Thresh(1)]
    <2>1. W.size_idx = 1
      BY <1>3
    <2> HIDE DEF W
    <2>2. make = [W EXCEPT !.load_thresh = (2 * ht_prime_sizes[W.size_idx]) \div 3]
      BY Zenon DEF make, update_load_thresh, W
    <2> QED BY <2>1, <2>2, Zenon DEF Thresh
  <1>5. Thresh(1) \in Nat /\ 0 < Thresh(1)
    <2> HIDE DEF size
    <2>1. (2 * size) \div 3 \in Nat /\ 0 < (2 * size) \div 3
      BY <1>2, SMT
    <2> QED BY <2>1 DEF Thresh, size
  <1> HIDE DEF W, size
  <1>6. make = [data |-> [i \in 0 .. size - 1 |-> <<>>], len |-> 0, size_idx |-> 1, load_thresh |-> Thresh(1)]
    BY <1>3, <1>4
  <1>7. <<>> \in Seq(Entries) /\ Range(<<>>) = {} /\ KeyOnce(<<>>)
    BY DEF Range, KeyOnce
  <1>8. make \in Tables(1)
    <2>1. [i \in 0 .. size - 1 |-> <<>>] \in [0 .. size - 1 -> Seq(Entries)]
      BY <1>7, Zenon
    <2> QED BY <1>5, <1>6, <2>1 DEF Tables, size
  <1>9. \A i \in DOMAIN make.data : make.data[i] = <<>>
    BY <1>6
  <1>10. make.size_idx = 1 /\ make.len = 0 /\ make.load_thresh = Thresh(1)
    BY <1>6
  <1>11. \A i \in DOMAIN make.data : Range(make.data[i]) = {} /\ KeyOnce(make.data[i])
    BY <1>7, <1>9, Zenon
  <1> HIDE DEF make
  <1> QED BY <1>1, <1>5, <1>8, <1>10, <1>11, Zenon DEF Sized, GoodTable, EntriesOf

---------------------------------------------------------------------------
(* Threads, slots and names *)

HeapStates == {"raw", "ready", "freed"}

Typed ==
  /\ Fresh \in Nat \ {0} /\ heaps \in [0 .. Fresh - 1 -> HeapStates]
  /\ slots \in [Cpus -> [heap : DOMAIN heaps \cup {NoValue}, lock : BkThreads \cup {Nobody}, is_valid : BOOLEAN]]
  /\ local \in [BkThreads -> BOOLEAN]
  /\ bk_user_heaps_lock \in BkThreads \cup {Nobody}
  /\ DOMAIN at = BkThreads
  /\ got \in [BkThreads -> DOMAIN heaps \cup {NoValue}]
  /\ named \in [TableKeys -> DOMAIN heaps \cup {NoValue}]

\* A lock is held by the thread that is between it and its unlock.
Inside(t) == at[t].pc \in {"check", "init", "valid", "unlock"}
User(t) == at[t].pc \in {"heap", "destroy", "free", "unlock users", "undefined"}

Locked ==
  \A t \in BkThreads :
    /\ at[t].pc \in {"idle", "lock"} \/ Inside(t) \/ User(t)
    /\ Inside(t) <=> slots[CpuOf[t]].lock = t
    /\ User(t) <=> bk_user_heaps_lock = t
    /\ at[t].pc \in {"heap", "destroy"} => at[t].name \in TableKeys

\* A heap is in a slot that is not valid only while the thread that put it
\* there holds the lock.
Filled ==
  /\ heaps[Global] = "ready"
  /\ \A c \in Cpus :
       /\ slots[c].is_valid => slots[c].heap # NoValue /\ heaps[slots[c].heap] = "ready"
       /\ ~slots[c].is_valid /\ slots[c].heap # NoValue =>
            \E t \in BkThreads : CpuOf[t] = c /\ at[t].pc \in {"init", "valid"}
       /\ slots[c].heap = Global => c = MainCpu
       /\ \A d \in Cpus : c # d /\ slots[c].heap # NoValue => slots[c].heap # slots[d].heap
  /\ \A t \in BkThreads :
       /\ at[t].pc = "init" => /\ slots[CpuOf[t]].heap \notin {NoValue, Global} /\ ~slots[CpuOf[t]].is_valid
                               /\ heaps[slots[CpuOf[t]].heap] = "raw"
       /\ at[t].pc = "valid" => slots[CpuOf[t]].heap # NoValue /\ heaps[slots[CpuOf[t]].heap] = "ready"
       /\ at[t].pc = "unlock" => slots[CpuOf[t]].is_valid

\* A thread that has _bk_local_thr is at the slot or has a valid one.
Given ==
  \A t \in BkThreads :
    /\ got[t] # NoValue => got[t] = Global \/ (got[t] = slots[CpuOf[t]].heap /\ slots[CpuOf[t]].is_valid)
    /\ local[t] => slots[CpuOf[t]].is_valid \/ at[t].pc \in {"lock", "check", "init", "valid"}

\* A named heap is no slot's and no other name's, and neither is one about
\* to be freed.
Apart ==
  /\ \A k \in TableKeys : named[k] # NoValue =>
       /\ named[k] # Global /\ heaps[named[k]] = "ready"
       /\ \A l \in TableKeys : k # l => named[l] # named[k]
       /\ \A c \in Cpus : slots[c].heap # named[k]
  /\ \A t \in BkThreads : at[t].pc = "free" =>
       /\ at[t].heapp \in DOMAIN heaps \ {Global}
       /\ \A k \in TableKeys : named[k] # at[t].heapp
       /\ \A c \in Cpus : slots[c].heap # at[t].heapp

Named == {k \in TableKeys : named[k] # NoValue}

\* The table holds the names that have a heap, with their heaps.
Tabled ==
  /\ Sized(bk_user_heaps, Cardinality(Named))
  /\ EntriesOf(bk_user_heaps) = {[key |-> k, val |-> named[k]] : k \in Named}

HeapsInv == Typed /\ Locked /\ Filled /\ Given /\ Apart /\ Tabled

HeapsSpec == HeapsInit /\ [][HeapsNext]_heap_vars

\* The next heap is one that was not made yet.
LEMMA HeapMade ==
  ASSUME Typed, NEW v \in HeapStates, new_heap(v)
  PROVE  /\ heaps' \in [0 .. Fresh' - 1 -> HeapStates] /\ Fresh' = Fresh + 1 /\ DOMAIN heaps' = DOMAIN heaps \cup {Fresh}
         /\ heaps'[Fresh] = v /\ \A h \in DOMAIN heaps : heaps'[h] = heaps[h]
         /\ Fresh \notin DOMAIN heaps /\ Fresh # NoValue /\ Fresh # Global
  <1> DEFINE n == Fresh
  <1>1. n \in Nat \ {0} /\ heaps \in [0 .. n - 1 -> HeapStates]
    BY DEF Typed
  <1>2. heaps' = [h \in DOMAIN heaps \cup {n} |-> IF h = n THEN v ELSE heaps[h]]
    BY Zenon DEF new_heap
  <1> HIDE DEF n
  <1>3. heaps' = [h \in 0 .. n |-> IF h = n THEN v ELSE heaps[h]]
    <2>1. DOMAIN heaps \cup {n} = 0 .. n
      BY <1>1
    <2> QED BY <1>2, <2>1, Zenon
  <1>4. Cardinality(DOMAIN heaps') = n + 1
    <2>1. DOMAIN heaps' = 0 .. n
      BY <1>3
    <2> QED BY <1>1, <2>1, FS_Interval
  <1>5. Fresh' = n + 1
    BY <1>4, Zenon DEF Fresh
  <1>6. NoValue # n /\ n # Global
    BY <1>1, TableAssumption DEF Global
  <1>7. heaps' \in [0 .. (n + 1) - 1 -> HeapStates]
    <2>1. (n + 1) - 1 = n
      BY <1>1
    <2>2. \A h \in 0 .. n : h # n => h \in 0 .. n - 1
      BY <1>1
    <2> QED BY <1>1, <1>3, <2>1, <2>2
  <1>8. DOMAIN heaps' = DOMAIN heaps \cup {n} /\ n \notin DOMAIN heaps
    BY <1>1, <1>3
  <1>9. heaps'[n] = v /\ \A h \in DOMAIN heaps : heaps'[h] = heaps[h]
    BY <1>1, <1>3
  <1> QED BY <1>1, <1>5, <1>6, <1>7, <1>8, <1>9 DEF n

LEMMA HeapsInvInit == HeapsInit => HeapsInv
  <1> SUFFICES ASSUME HeapsInit PROVE HeapsInv
    OBVIOUS
  <1>1. heaps = [h \in {0} |-> "ready"]
    BY DEF HeapsInit, Global
  <1>2. Fresh = 1
    BY <1>1, FS_Singleton DEF Fresh
  <1>3. 0 .. 1 - 1 = {0}
    OBVIOUS
  <1>4. NoValue \notin {0}
    BY TableAssumption
  <1>5. Typed
    BY <1>1, <1>2, <1>3 DEF HeapsInit, Typed, HeapStates
  <1>6. Locked
    BY HeapsAssumption DEF HeapsInit, Locked, Inside, User, Cpus
  <1>7. Filled
    BY <1>1, <1>4 DEF HeapsInit, Filled, Global, Cpus
  <1>8. Given /\ Apart
    BY DEF HeapsInit, Given, Apart
  <1>9. Named = {}
    BY DEF HeapsInit, Named
  <1>10. Cardinality(Named) = 0
    BY <1>9, FS_EmptySet
  <1>11. Tabled
    BY <1>9, <1>10, MakeIsSized DEF HeapsInit, Tabled
  <1> QED BY <1>5, <1>6, <1>7, <1>8, <1>11 DEF HeapsInv

\* The table is another matter: a step that leaves it and the names alone
\* keeps it.
LEMMA TableLeft ==
  ASSUME Tabled, UNCHANGED <<bk_user_heaps, named>>
  PROVE  Tabled'
  BY DEF Tabled, Named

LEMMA InitStep ==
  ASSUME HeapsInv, bk_init
  PROVE  HeapsInv'
  <1>1. Typed'
    BY DEF HeapsInv, Typed, bk_init, table_vars, Fresh
  <1>2. Locked' /\ Filled' /\ Apart'
    <2>1. UNCHANGED <<slots, heaps, at, named, bk_user_heaps_lock>>
      BY DEF bk_init, table_vars
    <2>2. Locked'
      BY <2>1, Zenon DEF HeapsInv, Locked, Inside, User
    <2>3. Filled'
      BY <2>1, Zenon DEF HeapsInv, Filled
    <2>4. Apart'
      BY <2>1, Zenon DEF HeapsInv, Apart
    <2> QED BY <2>2, <2>3, <2>4
  <1>3. Given'
    BY DEF HeapsInv, Given, bk_init
  <1>4. Tabled'
    BY TableLeft DEF HeapsInv, bk_init, table_vars
  <1> QED BY <1>1, <1>2, <1>3, <1>4 DEF HeapsInv

LEMMA GetHeapStep ==
  ASSUME HeapsInv, NEW t \in BkThreads, GetHeap(t)
  PROVE  HeapsInv'
  <1> USE DEF HeapsInv, GetHeap, Return, goto, table_vars
  <1>0. CpuOf[t] \in Cpus
    BY DEF Cpus
  <1>1. Typed'
    <2>1. Global \in DOMAIN heaps
      BY DEF Typed, Global
    <2>2. slots[CpuOf[t]].heap \in DOMAIN heaps \cup {NoValue}
      BY <1>0 DEF Typed
    <2>3. local' \in [BkThreads -> BOOLEAN]
      BY DEF Typed
    <2>4. got' \in [BkThreads -> DOMAIN heaps \cup {NoValue}]
      BY <2>1, <2>2 DEF Typed
    <2> QED BY <2>3, <2>4 DEF Typed, Fresh
  <1>2. \A u \in BkThreads : at'[u].pc = IF u = t THEN at'[t].pc ELSE at[u].pc
    BY DEF Typed
  <1>3. at[t].pc = "idle" /\ at'[t].pc \in {"idle", "lock"}
    BY DEF Typed
  <1>4. Locked'
    <2>1. /\ \A u \in BkThreads : u # t => at'[u] = at[u]
          /\ ~Inside(t) /\ ~Inside(t)' /\ ~User(t) /\ ~User(t)' /\ at'[t].pc \notin {"heap", "destroy"}
      BY <1>3 DEF Inside, User, Typed
    <2>2. \A u \in BkThreads : (Inside(u)' <=> Inside(u)) /\ (User(u)' <=> User(u))
      BY <2>1, Zenon DEF Inside, User
    <2> QED BY <1>3, <2>1, <2>2 DEF Locked
  <1>5. Filled'
    BY <1>2, <1>3 DEF Filled
  <1>6. Given'
    BY <1>0, <1>2, <1>3 DEF Given, Typed
  <1>7. Apart'
    BY <1>2, <1>3 DEF Apart, Typed
  <1>8. Tabled'
    BY TableLeft
  <1> QED BY <1>1, <1>4, <1>5, <1>6, <1>7, <1>8

LEMMA LockSlotStep ==
  ASSUME HeapsInv, NEW t \in BkThreads, LockSlot(t)
  PROVE  HeapsInv'
  <1> USE DEF HeapsInv, LockSlot, goto, table_vars
  <1>0. CpuOf[t] \in Cpus
    BY DEF Cpus
  <1>1. Typed'
    <2>1. [slots[CpuOf[t]] EXCEPT !.lock = t] \in
            [heap : DOMAIN heaps \cup {NoValue}, lock : BkThreads \cup {Nobody}, is_valid : BOOLEAN]
      <3>1. slots[CpuOf[t]] \in
            [heap : DOMAIN heaps \cup {NoValue}, lock : BkThreads \cup {Nobody}, is_valid : BOOLEAN]
        BY <1>0 DEF Typed
      <3> QED BY <3>1
    <2>2. slots' = [slots EXCEPT ![CpuOf[t]] = [slots[CpuOf[t]] EXCEPT !.lock = t]]
      BY Zenon
    <2>3. slots' \in [Cpus -> [heap : DOMAIN heaps \cup {NoValue}, lock : BkThreads \cup {Nobody}, is_valid : BOOLEAN]]
      BY <1>0, <2>1, <2>2, Zenon DEF Typed
    <2> QED BY <2>3 DEF Typed, Fresh
  <1>2. \A u \in BkThreads : at'[u] = IF u = t THEN [pc |-> "check"] ELSE at[u]
    BY DEF Typed
  <1>3. \A c \in Cpus : /\ slots'[c].heap = slots[c].heap /\ slots'[c].is_valid = slots[c].is_valid
                        /\ slots'[c].lock = IF c = CpuOf[t] THEN t ELSE slots[c].lock
    BY <1>0 DEF Typed
  <1>4. Locked'
    <2>1. /\ ~Inside(t) /\ Inside(t)' /\ ~User(t) /\ ~User(t)' /\ at'[t].pc \notin {"heap", "destroy"}
      <3>1. at[t].pc = "lock" /\ at'[t].pc = "check"
        BY <1>2
      <3> QED BY ONLY <3>1 DEF Inside, User
    <2>2. \A u \in BkThreads : u # t => at'[u] = at[u]
      BY <1>2
    <2>3. \A u \in BkThreads : u # t => (Inside(u)' <=> Inside(u)) /\ (User(u)' <=> User(u))
      BY <2>2, Zenon DEF Inside, User
    <2>4. \A u \in BkThreads : u # t /\ CpuOf[u] = CpuOf[t] => ~Inside(u)
      BY HeapsAssumption DEF Locked
    <2>5. \A u \in BkThreads : CpuOf[u] \in Cpus
      BY DEF Cpus
    <2>6. \A u \in BkThreads : Inside(u)' <=> slots'[CpuOf[u]].lock = u
      BY <1>3, <2>1, <2>3, <2>4, <2>5 DEF Locked
    <2> QED BY <2>1, <2>2, <2>3, <2>6 DEF Locked
  <1>5. Filled'
    BY <1>2, <1>3 DEF Filled, Cpus
  <1>6. Given'
    BY <1>2, <1>3 DEF Given, Cpus
  <1>7. Apart'
    BY <1>2, <1>3 DEF Apart
  <1>8. Tabled'
    BY TableLeft
  <1> QED BY <1>1, <1>4, <1>5, <1>6, <1>7, <1>8

\* Of the threads of a slot one at most is between its lock and unlock.
LEMMA OneInside ==
  ASSUME Locked, NEW t \in BkThreads, NEW u \in BkThreads, CpuOf[t] = CpuOf[u], Inside(t), Inside(u)
  PROVE  t = u
  BY DEF Locked

LEMMA CheckSlotStep ==
  ASSUME HeapsInv, NEW t \in BkThreads, CheckSlot(t)
  PROVE  HeapsInv'
  <1> DEFINE c == CpuOf[t]
  <1> USE DEF HeapsInv, goto, table_vars
  <1>0. c \in Cpus
    BY DEF Cpus
  <1>a. /\ at[t].pc = "check"
        /\ UNCHANGED <<bk_is_initialized, local, table_vars, got>>
        /\ \E p \in {"unlock", "valid", "init"} : at' = [at EXCEPT ![t] = [pc |-> p]]
    BY DEF CheckSlot
  <1>b. Tabled'
    BY <1>a, TableLeft
  <1>1. CASE slots[c].is_valid
    <2>1. UNCHANGED <<slots, heaps>> /\ \A u \in BkThreads : at'[u] = IF u = t THEN [pc |-> "unlock"] ELSE at[u]
      BY <1>1 DEF CheckSlot, Typed
    <2>2. Typed'
      BY <1>a, <2>1 DEF Typed, Fresh
    <2>3. Locked'
      <3>1. /\ Inside(t) /\ Inside(t)' /\ ~User(t) /\ ~User(t)' /\ at'[t].pc \notin {"heap", "destroy"}
        <4>1. at[t].pc = "check" /\ at'[t].pc = "unlock"
          BY <1>a, <2>1
        <4> QED BY ONLY <4>1 DEF Inside, User
      <3>2. \A u \in BkThreads : u # t => at'[u] = at[u]
        BY <2>1
      <3>3. \A u \in BkThreads : (Inside(u)' <=> Inside(u)) /\ (User(u)' <=> User(u))
        BY <3>1, <3>2, Zenon DEF Inside, User
      <3> QED BY <1>a, <2>1, <3>1, <3>2, <3>3 DEF Locked
    <2>4. Filled'
      BY <1>1, <1>a, <2>1 DEF Filled
    <2>5. Given'
      BY <1>1, <1>a, <2>1 DEF Given
    <2>6. Apart'
      BY <1>a, <2>1 DEF Apart
    <2> QED BY <1>b, <2>2, <2>3, <2>4, <2>5, <2>6
  <1>2. CASE ~slots[c].is_valid
    \* Nobody else is at the slot, so it has no heap yet.
    <2>1. slots[c].heap = NoValue
      <3>1. \A u \in BkThreads : CpuOf[u] = c => at[u].pc \notin {"init", "valid"}
        BY <1>a, OneInside DEF Inside
      <3> QED BY <1>0, <1>2, <3>1 DEF Filled
    <2> DEFINE h == slots'[c].heap
               p == at'[t].pc
    <2>2. /\ \A u \in BkThreads : at'[u].pc = IF u = t THEN p ELSE at[u].pc
          /\ \A u \in BkThreads : u # t => at'[u] = at[u]
          /\ p \in {"init", "valid"}
      BY <1>2, <1>a DEF CheckSlot, Typed
    <2>3. slots' = [slots EXCEPT ![c].heap = h]
      BY <1>0, <1>2 DEF CheckSlot, Typed
    <2>4. \A d \in Cpus : /\ slots'[d].heap = IF d = c THEN h ELSE slots[d].heap
                          /\ slots'[d].is_valid = slots[d].is_valid /\ slots'[d].lock = slots[d].lock
      BY <1>0, <2>3 DEF Typed
    <2>5. \/ p = "valid" /\ h = Global /\ c = MainCpu /\ heaps' = heaps
          \/ p = "init" /\ h = Fresh /\ new_heap("raw")
      BY <1>0, <1>2, <1>a DEF CheckSlot, Typed
    <2> HIDE DEF h, p
    <2>6. /\ heaps' \in [0 .. Fresh' - 1 -> HeapStates] /\ Fresh' \in Nat \ {0}
          /\ DOMAIN heaps \subseteq DOMAIN heaps' /\ h \in DOMAIN heaps' /\ h # NoValue
          /\ \A x \in DOMAIN heaps : heaps'[x] = heaps[x]
          /\ \/ p = "valid" /\ h = Global /\ c = MainCpu /\ heaps'[h] = "ready"
             \/ p = "init" /\ h \notin DOMAIN heaps /\ heaps'[h] = "raw"
          /\ Global \in DOMAIN heaps
      <3>0. Global \in DOMAIN heaps /\ NoValue # Global
        BY TableAssumption DEF Typed, Global
      <3>1. CASE p = "valid" /\ h = Global /\ c = MainCpu /\ heaps' = heaps
        <4>1. heaps[Global] = "ready"
          BY DEF Filled
        <4> QED BY <3>0, <3>1, <4>1 DEF Typed, Fresh
      <3>2. CASE p = "init" /\ h = Fresh /\ new_heap("raw")
        <4>1. "raw" \in HeapStates
          BY DEF HeapStates
        <4>2. Fresh + 1 \in Nat \ {0}
          BY DEF Typed
        <4> QED BY <3>0, <3>2, <4>1, <4>2, HeapMade
      <3> QED BY <2>5, <3>1, <3>2
    <2>7. \A d \in Cpus : slots[d].heap \in DOMAIN heaps \cup {NoValue}
      BY DEF Typed
    <2>8. Typed'
      <3>1. slots' \in [Cpus -> [heap : DOMAIN heaps' \cup {NoValue}, lock : BkThreads \cup {Nobody}, is_valid : BOOLEAN]]
        <4> DEFINE S == [heap : DOMAIN heaps' \cup {NoValue}, lock : BkThreads \cup {Nobody}, is_valid : BOOLEAN]
        <4>1. \A d \in Cpus : slots[d] \in S
          BY <2>6 DEF Typed
        <4>2. [slots[c] EXCEPT !.heap = h] \in S
          BY <1>0, <2>6, <4>1
        <4>3. slots' = [slots EXCEPT ![c] = [slots[c] EXCEPT !.heap = h]]
          BY <2>3, Zenon
        <4>4. slots \in [Cpus -> S]
          <5>1. slots = [d \in Cpus |-> slots[d]]
            BY DEF Typed
          <5> HIDE DEF S
          <5> QED BY <4>1, <5>1, Zenon
        <4> HIDE DEF S
        <4>5. slots' \in [Cpus -> S]
          BY <1>0, <4>2, <4>3, <4>4, Zenon
        <4> QED BY <4>5 DEF S
      <3>2. DOMAIN at' = BkThreads
        BY <1>a DEF Typed
      <3> QED BY <1>a, <2>6, <3>1, <3>2 DEF Typed
    <2>9. Locked'
      <3>1. /\ Inside(t) /\ Inside(t)' /\ ~User(t) /\ ~User(t)' /\ at'[t].pc \notin {"heap", "destroy"}
        BY <1>a, <2>2 DEF Inside, User, p
      <3>2. \A u \in BkThreads : (Inside(u)' <=> Inside(u)) /\ (User(u)' <=> User(u))
        BY <2>2, <3>1, Zenon DEF Inside, User
      <3>3. \A u \in BkThreads : slots'[CpuOf[u]].lock = slots[CpuOf[u]].lock
        BY <2>4 DEF Cpus
      <3> QED BY <1>a, <2>2, <3>1, <3>2, <3>3 DEF Locked
    <2>10. Filled'
      <3>1. heaps'[Global] = "ready"
        BY <2>6 DEF Filled
      <3>2. ASSUME NEW d \in Cpus
            PROVE  /\ slots'[d].is_valid => slots'[d].heap # NoValue /\ heaps'[slots'[d].heap] = "ready"
                   /\ ~slots'[d].is_valid /\ slots'[d].heap # NoValue =>
                        \E u \in BkThreads : CpuOf[u] = d /\ at'[u].pc \in {"init", "valid"}
                   /\ slots'[d].heap = Global => d = MainCpu
        <4>1. CASE d = c
          BY <1>2, <2>2, <2>4, <2>6, <4>1
        <4>2. CASE d # c
          BY <2>2, <2>4, <2>6, <2>7, <4>2 DEF Filled
        <4> QED BY <4>1, <4>2
      <3>3. ASSUME NEW d \in Cpus, NEW e \in Cpus, d # e, slots'[d].heap # NoValue
            PROVE  slots'[d].heap # slots'[e].heap
        <4>1. \A x \in Cpus : x # c => slots[x].heap # h
          BY <2>6, <2>7 DEF Filled
        <4> QED BY <2>4, <3>3, <4>1 DEF Filled
      <3>4. ASSUME NEW u \in BkThreads
            PROVE  /\ at'[u].pc = "init" => /\ slots'[CpuOf[u]].heap \notin {NoValue, Global} /\ ~slots'[CpuOf[u]].is_valid
                                            /\ heaps'[slots'[CpuOf[u]].heap] = "raw"
                   /\ at'[u].pc = "valid" => slots'[CpuOf[u]].heap # NoValue /\ heaps'[slots'[CpuOf[u]].heap] = "ready"
                   /\ at'[u].pc = "unlock" => slots'[CpuOf[u]].is_valid
        <4>0. CpuOf[u] \in Cpus
          BY DEF Cpus
        <4>1. CASE u = t
          BY <1>0, <1>2, <2>2, <2>4, <2>6, <4>1
        <4>2. CASE u # t /\ CpuOf[u] = c
          <5>1. ~Inside(u)
            BY <1>a, <4>2, OneInside DEF Inside
          <5> QED BY <2>2, <4>2, <5>1 DEF Inside
        <4>3. CASE u # t /\ CpuOf[u] # c
          BY <2>2, <2>4, <2>6, <2>7, <4>0, <4>3 DEF Filled
        <4> QED BY <4>1, <4>2, <4>3
      <3> QED BY <3>1, <3>2, <3>3, <3>4 DEF Filled
    <2>11. Given'
      <3>1. \A u \in BkThreads : CpuOf[u] \in Cpus
        BY DEF Cpus
      <3>2. \A u \in BkThreads : slots'[CpuOf[u]].is_valid = slots[CpuOf[u]].is_valid
        BY <2>4, <3>1
      <3>3. \A u \in BkThreads : slots[CpuOf[u]].is_valid => slots'[CpuOf[u]].heap = slots[CpuOf[u]].heap
        BY <1>2, <2>4, <3>1
      <3> QED BY <1>a, <2>2, <3>2, <3>3 DEF Given
    <2>12. Apart'
      <3>1. \A k \in TableKeys : named[k] # NoValue => named[k] \in DOMAIN heaps /\ named[k] # h
        BY <2>6 DEF Apart, Typed
      <3>2. \A u \in BkThreads : at'[u].pc = "free" => at[u].pc = "free" /\ at'[u] = at[u] /\ at[u].heapp # h
        BY <2>2, <2>6 DEF Apart
      <3> QED BY <1>a, <2>4, <2>6, <3>1, <3>2 DEF Apart
    <2> QED BY <1>b, <2>8, <2>9, <2>10, <2>11, <2>12
  <1> QED BY <1>1, <1>2

LEMMA InitHeapStep ==
  ASSUME HeapsInv, NEW t \in BkThreads, InitHeap(t)
  PROVE  HeapsInv'
  <1> DEFINE c == CpuOf[t]
             h == slots[c].heap
  <1>0. c \in Cpus
    BY DEF Cpus
  <1>a. /\ at[t].pc = "init" /\ heaps' = [heaps EXCEPT ![h] = "ready"] /\ at' = [at EXCEPT ![t] = [pc |-> "valid"]]
        /\ UNCHANGED <<bk_is_initialized, slots, local, bk_user_heaps, bk_user_heaps_lock, named, got>>
    BY DEF InitHeap, goto, table_vars
  <1>b. h \in DOMAIN heaps /\ heaps[h] = "raw" /\ h # Global /\ ~slots[c].is_valid
    BY <1>0, <1>a DEF HeapsInv, Typed, Filled
  <1> HIDE DEF c, h
  <1>1. \A u \in BkThreads : at'[u] = IF u = t THEN [pc |-> "valid"] ELSE at[u]
    BY <1>a DEF HeapsInv, Typed
  <1>2. /\ DOMAIN heaps' = DOMAIN heaps /\ Fresh' = Fresh /\ heaps'[h] = "ready"
        /\ \A x \in DOMAIN heaps : x # h => heaps'[x] = heaps[x]
        /\ heaps' \in [0 .. Fresh - 1 -> HeapStates]
    <2>1. heaps' \in [0 .. Fresh - 1 -> HeapStates] /\ DOMAIN heaps' = DOMAIN heaps
      BY <1>a DEF HeapsInv, Typed, HeapStates
    <2>2. Fresh' = Fresh
      BY <2>1, Zenon DEF Fresh
    <2> QED BY <1>a, <1>b, <2>1, <2>2
  <1>3. Typed'
    BY <1>a, <1>2 DEF HeapsInv, Typed
  <1>4. Locked'
    <2>1. at[t].pc = "init" /\ at'[t].pc = "valid"
      BY <1>1, <1>a
    <2>2. Inside(t) /\ Inside(t)' /\ ~User(t) /\ ~User(t)' /\ at'[t].pc \notin {"heap", "destroy"}
      BY ONLY <2>1 DEF Inside, User
    <2>3. \A u \in BkThreads : (Inside(u)' <=> Inside(u)) /\ (User(u)' <=> User(u))
      BY <1>1, <2>2, Zenon DEF Inside, User
    <2> QED BY <1>1, <1>a, <2>2, <2>3 DEF HeapsInv, Locked
  <1>5. Filled'
    <2>1. \A d \in Cpus : slots[d].heap \in DOMAIN heaps \cup {NoValue} /\ (slots[d].heap = h => d = c)
      BY <1>0, <1>a, <1>b, TableAssumption DEF HeapsInv, Typed, Filled, c, h
    <2>2. heaps'[Global] = "ready" /\ Global \in DOMAIN heaps
      BY <1>2, <1>b DEF HeapsInv, Typed, Filled, Global
    <2>3. ASSUME NEW d \in Cpus
          PROVE  /\ slots'[d].is_valid => slots'[d].heap # NoValue /\ heaps'[slots'[d].heap] = "ready"
                 /\ ~slots'[d].is_valid /\ slots'[d].heap # NoValue =>
                      \E u \in BkThreads : CpuOf[u] = d /\ at'[u].pc \in {"init", "valid"}
                 /\ slots'[d].heap = Global => d = MainCpu
                 /\ \A e \in Cpus : d # e /\ slots'[d].heap # NoValue => slots'[d].heap # slots'[e].heap
      <3>1. slots'[d].is_valid => slots'[d].heap # NoValue /\ heaps'[slots'[d].heap] = "ready"
        BY <1>2, <1>a, <1>b, <2>1 DEF HeapsInv, Filled
      <3>2. ~slots'[d].is_valid /\ slots'[d].heap # NoValue =>
              \E u \in BkThreads : CpuOf[u] = d /\ at'[u].pc \in {"init", "valid"}
        BY <1>1, <1>a DEF HeapsInv, Filled
      <3> QED BY <1>a, <3>1, <3>2 DEF HeapsInv, Filled
    <2>4. ASSUME NEW u \in BkThreads
          PROVE  /\ at'[u].pc = "init" => /\ slots'[CpuOf[u]].heap \notin {NoValue, Global} /\ ~slots'[CpuOf[u]].is_valid
                                          /\ heaps'[slots'[CpuOf[u]].heap] = "raw"
                 /\ at'[u].pc = "valid" => slots'[CpuOf[u]].heap # NoValue /\ heaps'[slots'[CpuOf[u]].heap] = "ready"
                 /\ at'[u].pc = "unlock" => slots'[CpuOf[u]].is_valid
      <3>0. CpuOf[u] \in Cpus
        BY DEF Cpus
      <3>1. CASE u = t
        BY <1>1, <1>2, <1>a, <1>b, <3>1, TableAssumption DEF HeapsInv, Typed, c, h
      <3>2. CASE u # t /\ Inside(u)
        <4>1. CpuOf[u] # c
          BY <1>a, <3>2, OneInside DEF HeapsInv, Inside, c
        <4>2. slots[CpuOf[u]].heap # h
          BY <2>1, <3>0, <4>1
        <4> QED BY <1>1, <1>2, <1>a, <2>1, <3>0, <3>2, <4>2 DEF HeapsInv, Filled
      <3>3. CASE u # t /\ ~Inside(u)
        BY <1>1, <3>3 DEF Inside
      <3> QED BY <3>1, <3>2, <3>3
    <2> QED BY <2>2, <2>3, <2>4 DEF Filled
  <1>6. Given'
    BY <1>1, <1>a DEF HeapsInv, Given
  <1>7. Apart'
    <2>1. \A k \in TableKeys : named[k] # h /\ (named[k] # NoValue => named[k] \in DOMAIN heaps)
      BY <1>0, <1>b, TableAssumption DEF HeapsInv, Apart, Typed, h
    <2> QED BY <1>1, <1>2, <1>a, <2>1 DEF HeapsInv, Apart
  <1>8. Tabled'
    BY <1>a, TableLeft DEF HeapsInv
  <1> QED BY <1>3, <1>4, <1>5, <1>6, <1>7, <1>8 DEF HeapsInv

LEMMA PublishStep ==
  ASSUME HeapsInv, NEW t \in BkThreads, Publish(t)
  PROVE  HeapsInv'
  <1> DEFINE c == CpuOf[t]
             S == [heap : DOMAIN heaps \cup {NoValue}, lock : BkThreads \cup {Nobody}, is_valid : BOOLEAN]
  <1>0. c \in Cpus
    BY DEF Cpus
  <1>a. /\ at[t].pc = "valid" /\ slots' = [slots EXCEPT ![c].is_valid = TRUE] /\ at' = [at EXCEPT ![t] = [pc |-> "unlock"]]
        /\ UNCHANGED <<bk_is_initialized, heaps, local, bk_user_heaps, bk_user_heaps_lock, named, got>>
    BY DEF Publish, goto, table_vars
  <1>1. \A u \in BkThreads : at'[u] = IF u = t THEN [pc |-> "unlock"] ELSE at[u]
    BY <1>a DEF HeapsInv, Typed
  <1>2. \A d \in Cpus : /\ slots'[d].heap = slots[d].heap /\ slots'[d].lock = slots[d].lock
                        /\ slots'[d].is_valid <=> d = c \/ slots[d].is_valid
    BY <1>0, <1>a DEF HeapsInv, Typed
  <1>c. \A u \in BkThreads : CpuOf[u] \in Cpus
    BY DEF Cpus
  <1> HIDE DEF c
  <1>3. Typed'
    <2>1. slots \in [Cpus -> S]
      BY DEF HeapsInv, Typed
    <2>2. [slots[c] EXCEPT !.is_valid = TRUE] \in S
      BY <1>0, <2>1
    <2>3. slots' = [slots EXCEPT ![c] = [slots[c] EXCEPT !.is_valid = TRUE]]
      BY <1>a, Zenon
    <2>4. slots' \in [Cpus -> S]
      <3> HIDE DEF S
      <3> QED BY <1>0, <2>1, <2>2, <2>3, Zenon
    <2> QED BY <1>a, <2>4 DEF HeapsInv, Typed, Fresh
  <1>4. Locked'
    <2>1. at[t].pc = "valid" /\ at'[t].pc = "unlock"
      BY <1>1, <1>a
    <2>2. Inside(t) /\ Inside(t)' /\ ~User(t) /\ ~User(t)' /\ at'[t].pc \notin {"heap", "destroy"}
      BY ONLY <2>1 DEF Inside, User
    <2>3. \A u \in BkThreads : (Inside(u)' <=> Inside(u)) /\ (User(u)' <=> User(u))
      BY <1>1, <2>2, Zenon DEF Inside, User
    <2>4. \A u \in BkThreads : slots'[CpuOf[u]].lock = slots[CpuOf[u]].lock
      BY <1>2, <1>c
    <2> QED BY <1>1, <1>a, <2>2, <2>3, <2>4 DEF HeapsInv, Locked
  <1>5. Filled'
    <2>1. slots[c].heap # NoValue /\ heaps[slots[c].heap] = "ready"
      BY <1>a DEF HeapsInv, Filled, c
    <2>2. ASSUME NEW d \in Cpus
          PROVE  /\ slots'[d].is_valid => slots'[d].heap # NoValue /\ heaps'[slots'[d].heap] = "ready"
                 /\ ~slots'[d].is_valid /\ slots'[d].heap # NoValue =>
                      \E u \in BkThreads : CpuOf[u] = d /\ at'[u].pc \in {"init", "valid"}
                 /\ slots'[d].heap = Global => d = MainCpu
                 /\ \A e \in Cpus : d # e /\ slots'[d].heap # NoValue => slots'[d].heap # slots'[e].heap
      <3>1. slots'[d].is_valid => slots'[d].heap # NoValue /\ heaps'[slots'[d].heap] = "ready"
        BY <1>2, <1>a, <2>1 DEF HeapsInv, Filled
      <3>2. ~slots'[d].is_valid /\ slots'[d].heap # NoValue =>
              \E u \in BkThreads : CpuOf[u] = d /\ at'[u].pc \in {"init", "valid"}
        <4>1. CASE d = c
          BY <1>2, <4>1
        <4>2. CASE d # c
          <5> SUFFICES ASSUME ~slots[d].is_valid, slots[d].heap # NoValue
                       PROVE  \E u \in BkThreads : CpuOf[u] = d /\ at'[u].pc \in {"init", "valid"}
            BY <1>2, <4>2
          <5>1. PICK u \in BkThreads : CpuOf[u] = d /\ at[u].pc \in {"init", "valid"}
            BY DEF HeapsInv, Filled
          <5>2. at'[u] = at[u]
            BY <1>1, <4>2, <5>1 DEF c
          <5> QED BY <5>1, <5>2
        <4> QED BY <4>1, <4>2
      <3>3. /\ slots[d].heap = Global => d = MainCpu
            /\ \A e \in Cpus : d # e /\ slots[d].heap # NoValue => slots[d].heap # slots[e].heap
        BY DEF HeapsInv, Filled
      <3> QED BY <1>2, <3>1, <3>2, <3>3
    <2>3. ASSUME NEW u \in BkThreads
          PROVE  /\ at'[u].pc = "init" => /\ slots'[CpuOf[u]].heap \notin {NoValue, Global} /\ ~slots'[CpuOf[u]].is_valid
                                          /\ heaps'[slots'[CpuOf[u]].heap] = "raw"
                 /\ at'[u].pc = "valid" => slots'[CpuOf[u]].heap # NoValue /\ heaps'[slots'[CpuOf[u]].heap] = "ready"
                 /\ at'[u].pc = "unlock" => slots'[CpuOf[u]].is_valid
      <3>1. CASE u = t
        <4>1. at'[u].pc = "unlock" /\ CpuOf[u] = c
          BY <1>1, <3>1 DEF c
        <4> QED BY <1>0, <1>2, <4>1
      <3>2. CASE u # t /\ Inside(u)
        <4>1. CpuOf[u] # c
          BY <1>a, <3>2, OneInside DEF HeapsInv, Inside, c
        <4> QED BY <1>1, <1>2, <1>a, <1>c, <3>2, <4>1 DEF HeapsInv, Filled
      <3>3. CASE u # t /\ ~Inside(u)
        BY <1>1, <3>3 DEF Inside
      <3> QED BY <3>1, <3>2, <3>3
    <2>4. heaps'[Global] = "ready"
      BY <1>a DEF HeapsInv, Filled
    <2> QED BY <2>2, <2>3, <2>4 DEF Filled
  <1>6. Given'
    <2>1. \A u \in BkThreads : /\ slots'[CpuOf[u]].heap = slots[CpuOf[u]].heap
                               /\ slots[CpuOf[u]].is_valid => slots'[CpuOf[u]].is_valid
      BY <1>2, <1>c
    <2>2. slots'[CpuOf[t]].is_valid
      BY <1>0, <1>2 DEF c
    <2>3. \A u \in BkThreads : u # t => at'[u].pc = at[u].pc
      BY <1>1
    <2> QED BY <1>a, <2>1, <2>2, <2>3 DEF HeapsInv, Given
  <1>7. Apart'
    BY <1>1, <1>2, <1>a DEF HeapsInv, Apart
  <1>8. Tabled'
    BY <1>a, TableLeft DEF HeapsInv
  <1> QED BY <1>3, <1>4, <1>5, <1>6, <1>7, <1>8 DEF HeapsInv

LEMMA UnlockSlotStep ==
  ASSUME HeapsInv, NEW t \in BkThreads, UnlockSlot(t)
  PROVE  HeapsInv'
  <1> DEFINE c == CpuOf[t]
             S == [heap : DOMAIN heaps \cup {NoValue}, lock : BkThreads \cup {Nobody}, is_valid : BOOLEAN]
  <1>0. c \in Cpus
    BY DEF Cpus
  <1>a. /\ at[t].pc = "unlock" /\ slots' = [slots EXCEPT ![c].lock = Nobody] /\ at' = [at EXCEPT ![t] = [pc |-> "idle"]]
        /\ got' = [got EXCEPT ![t] = slots[c].heap]
        /\ UNCHANGED <<bk_is_initialized, heaps, local, bk_user_heaps, bk_user_heaps_lock, named>>
    BY DEF UnlockSlot, Return, goto, table_vars
  <1>1. \A u \in BkThreads : at'[u] = IF u = t THEN [pc |-> "idle"] ELSE at[u]
    BY <1>a DEF HeapsInv, Typed
  <1>2. \A d \in Cpus : /\ slots'[d].heap = slots[d].heap /\ slots'[d].is_valid = slots[d].is_valid
                        /\ slots'[d].lock = IF d = c THEN Nobody ELSE slots[d].lock
    BY <1>0, <1>a DEF HeapsInv, Typed
  <1>c. \A u \in BkThreads : CpuOf[u] \in Cpus
    BY DEF Cpus
  <1>v. slots[c].is_valid
    BY <1>a DEF HeapsInv, Filled
  <1> HIDE DEF c
  <1>3. Typed'
    <2>1. slots \in [Cpus -> S]
      BY DEF HeapsInv, Typed
    <2>2. [slots[c] EXCEPT !.lock = Nobody] \in S
      BY <1>0, <2>1
    <2>3. slots' = [slots EXCEPT ![c] = [slots[c] EXCEPT !.lock = Nobody]]
      BY <1>a, Zenon
    <2>4. slots' \in [Cpus -> S]
      <3> HIDE DEF S
      <3> QED BY <1>0, <2>1, <2>2, <2>3, Zenon
    <2>5. slots[c].heap \in DOMAIN heaps \cup {NoValue}
      BY <1>0, <2>1
    <2> QED BY <1>a, <2>4, <2>5 DEF HeapsInv, Typed, Fresh
  <1>4. Locked'
    <2>1. at[t].pc = "unlock" /\ at'[t].pc = "idle"
      BY <1>1, <1>a
    <2>2. Inside(t) /\ ~Inside(t)' /\ ~User(t) /\ ~User(t)' /\ at'[t].pc \in {"idle", "lock"} /\ at'[t].pc \notin {"heap", "destroy"}
      BY ONLY <2>1 DEF Inside, User
    <2>3. \A u \in BkThreads : u # t => (Inside(u)' <=> Inside(u)) /\ (User(u)' <=> User(u))
      BY <1>1, Zenon DEF Inside, User
    <2>4. \A u \in BkThreads : slots'[CpuOf[u]].lock = u <=> u # t /\ slots[CpuOf[u]].lock = u
      <3>1. slots[c].lock = t
        BY <2>2 DEF HeapsInv, Locked, c
      <3> QED BY <1>2, <1>c, <3>1, HeapsAssumption DEF c
    <2>5. \A u \in BkThreads : Inside(u)' <=> slots'[CpuOf[u]].lock = u
      BY <2>2, <2>3, <2>4 DEF HeapsInv, Locked
    <2> QED BY <1>1, <1>a, <2>2, <2>3, <2>5 DEF HeapsInv, Locked
  <1>5. Filled'
    <2>1. ASSUME NEW d \in Cpus
          PROVE  ~slots'[d].is_valid /\ slots'[d].heap # NoValue =>
                      \E u \in BkThreads : CpuOf[u] = d /\ at'[u].pc \in {"init", "valid"}
      BY <1>1, <1>2, <1>a DEF HeapsInv, Filled
    <2>2. \A u \in BkThreads : at'[u].pc \in {"init", "valid", "unlock"} => at'[u].pc = at[u].pc
      BY <1>1
    <2> QED BY <1>2, <1>a, <1>c, <2>1, <2>2 DEF HeapsInv, Filled
  <1>6. Given'
    BY <1>0, <1>1, <1>2, <1>a, <1>c, <1>v DEF HeapsInv, Given, Typed, c
  <1>7. Apart'
    BY <1>1, <1>2, <1>a DEF HeapsInv, Apart
  <1>8. Tabled'
    BY <1>a, TableLeft DEF HeapsInv
  <1> QED BY <1>3, <1>4, <1>5, <1>6, <1>7, <1>8 DEF HeapsInv

\* A step of a thread at the names leaves the slots as they are, and all
\* that is said of them, if the thread stays away from them and the heaps
\* of the slots stay.
LEMMA SlotsLeft ==
  ASSUME HeapsInv, NEW t \in BkThreads, ~Inside(t), ~Inside(t)', at[t].pc # "lock" \/ at'[t].pc = "lock",
         \A u \in BkThreads : u # t => at'[u] = at[u],
         UNCHANGED <<slots, local, got>>,
         heaps'[Global] = heaps[Global],
         \A c \in Cpus : slots[c].heap # NoValue => heaps'[slots[c].heap] = heaps[slots[c].heap]
  PROVE  Filled' /\ Given'
  <1>1. \A u \in BkThreads : at[u].pc \in {"init", "valid"} => at'[u] = at[u]
    BY DEF Inside
  <1>2. \A u \in BkThreads : at'[u].pc \in {"init", "valid", "unlock"} => at'[u] = at[u]
    BY DEF Inside
  <1>3. \A u \in BkThreads : CpuOf[u] \in Cpus
    BY DEF Cpus
  <1>4. Filled'
    <2>1. ASSUME NEW c \in Cpus
          PROVE  ~slots'[c].is_valid /\ slots'[c].heap # NoValue =>
                   \E u \in BkThreads : CpuOf[u] = c /\ at'[u].pc \in {"init", "valid"}
      BY <1>1 DEF HeapsInv, Filled
    <2> QED BY <1>2, <1>3, <2>1 DEF HeapsInv, Filled
  <1>5. Given'
    <2>1. \A u \in BkThreads : at[u].pc \in {"lock", "check", "init", "valid"} => at'[u].pc \in {"lock", "check", "init", "valid"}
      BY DEF Inside
    <2> QED BY <2>1 DEF HeapsInv, Given
  <1> QED BY <1>4, <1>5

\* Of the users of the table one at most is between its lock and unlock.
LEMMA OneUser ==
  ASSUME Locked, NEW t \in BkThreads, NEW u \in BkThreads, User(t), User(u)
  PROVE  t = u
  BY DEF Locked

LEMMA LockUsersStep ==
  ASSUME HeapsInv, NEW t \in BkThreads, NEW op \in {"heap", "destroy"}, NEW name \in TableKeys, LockUsers(t, op, name)
  PROVE  HeapsInv'
  <1>a. /\ at[t].pc = "idle" /\ bk_user_heaps_lock = Nobody /\ bk_user_heaps_lock' = t
        /\ at' = [at EXCEPT ![t] = [pc |-> op, name |-> name]]
        /\ UNCHANGED <<slots, local, bk_user_heaps, heaps, got, named>>
    BY DEF LockUsers
  <1>1. \A u \in BkThreads : at'[u] = IF u = t THEN [pc |-> op, name |-> name] ELSE at[u]
    BY <1>a DEF HeapsInv, Typed
  <1>2. ~Inside(t) /\ ~Inside(t)' /\ ~User(t) /\ User(t)' /\ at'[t].pc # "free" /\ at'[t].name = name
    <2>1. at'[t].pc \in {"heap", "destroy"} /\ at'[t].name = name
      BY <1>1
    <2> QED BY <1>a, <2>1 DEF Inside, User
  <1>3. \A u \in BkThreads : u # t => (Inside(u)' <=> Inside(u)) /\ (User(u)' <=> User(u))
    BY <1>1, Zenon DEF Inside, User
  <1>4. Typed'
    BY <1>a DEF HeapsInv, Typed, Fresh
  <1>5. Locked'
    <2>1. \A u \in BkThreads : ~User(u)
      BY <1>a, HeapsAssumption DEF HeapsInv, Locked
    <2> QED BY <1>1, <1>2, <1>3, <1>a, <2>1 DEF HeapsInv, Locked
  <1>6. Filled' /\ Given'
    BY <1>1, <1>2, <1>a, SlotsLeft
  <1>7. Apart'
    BY <1>1, <1>2, <1>a DEF HeapsInv, Apart
  <1>8. Tabled'
    BY <1>a, TableLeft DEF HeapsInv
  <1> QED BY <1>4, <1>5, <1>6, <1>7, <1>8 DEF HeapsInv

LEMMA UnlockUsersStep ==
  ASSUME HeapsInv, NEW t \in BkThreads, UnlockUsers(t)
  PROVE  HeapsInv'
  <1>a. /\ at[t].pc = "unlock users" /\ bk_user_heaps_lock' = Nobody
        /\ at' = [at EXCEPT ![t] = [pc |-> "idle"]]
        /\ UNCHANGED <<slots, local, bk_user_heaps, heaps, got, named>>
    BY DEF UnlockUsers, goto, slot_vars
  <1>1. \A u \in BkThreads : at'[u] = IF u = t THEN [pc |-> "idle"] ELSE at[u]
    BY <1>a DEF HeapsInv, Typed
  <1>2. ~Inside(t) /\ ~Inside(t)' /\ User(t) /\ ~User(t)' /\ at'[t].pc = "idle"
    <2>1. at'[t].pc = "idle"
      BY <1>1
    <2> QED BY <1>a, <2>1 DEF Inside, User
  <1>3. \A u \in BkThreads : u # t => (Inside(u)' <=> Inside(u)) /\ (User(u)' <=> User(u))
    BY <1>1, Zenon DEF Inside, User
  <1>4. Typed'
    BY <1>a DEF HeapsInv, Typed, Fresh
  <1>5. Locked'
    <2>1. \A u \in BkThreads : u # t => ~User(u)
      BY <1>2, OneUser DEF HeapsInv
    <2>2. \A u \in BkThreads : ~User(u)' /\ bk_user_heaps_lock' # u
      BY <1>2, <1>3, <1>a, <2>1, HeapsAssumption
    <2>3. \A u \in BkThreads : Inside(u)' <=> slots'[CpuOf[u]].lock = u
      BY <1>2, <1>3, <1>a DEF HeapsInv, Locked
    <2> QED BY <1>1, <1>2, <1>3, <2>2, <2>3 DEF HeapsInv, Locked
  <1>6. Filled' /\ Given'
    BY <1>1, <1>2, <1>a, SlotsLeft
  <1>7. Apart'
    <2>1. \A u \in BkThreads : at'[u].pc = "free" => at'[u] = at[u]
      BY <1>1, <1>2
    <2>2. named' = named /\ slots' = slots /\ heaps' = heaps
      BY <1>a
    <2> QED BY <2>1, <2>2 DEF HeapsInv, Apart
  <1>8. Tabled'
    BY <1>a, TableLeft DEF HeapsInv
  <1> QED BY <1>4, <1>5, <1>6, <1>7, <1>8 DEF HeapsInv

\* What a look-up returns.
LEMMA Lookup ==
  ASSUME Typed, Tabled, NEW k \in TableKeys
  PROVE  /\ get_val(bk_user_heaps, k) = named[k]
         /\ Find(bk_user_heaps, k) = 0 <=> named[k] = NoValue
  <1> DEFINE T == bk_user_heaps
  <1>1. GoodTable(T) /\ EntriesOf(T) = {[key |-> l, val |-> named[l]] : l \in Named}
    BY DEF Tabled, Sized
  <1> HIDE DEF T
  <1>2. CASE named[k] = NoValue
    <2>1. \A e \in EntriesOf(T) : e.key # k
      BY <1>1, <1>2 DEF Named
    <2>2. Find(T, k) = 0
      BY <1>1, <2>1, FindIs
    <2>3. get_val(T, k) = NoValue
      BY <2>2, Zenon DEF get_val
    <2> QED BY <1>2, <2>2, <2>3 DEF T
  <1>3. CASE named[k] # NoValue
    <2>1. [key |-> k, val |-> named[k]] \in EntriesOf(T)
      BY <1>1, <1>3 DEF Named
    <2> DEFINE e == [key |-> k, val |-> named[k]]
    <2>2. e.key = k /\ e.val = named[k] /\ e \in EntriesOf(T)
      BY <2>1
    <2> HIDE DEF e
    <2>3. Find(T, k) # 0 /\ get_val(T, k) = named[k]
      BY <1>1, <2>2, FindIs
    <2> QED BY <1>3, <2>3 DEF T
  <1> QED BY <1>2, <1>3

LEMMA NamedFinite == IsFiniteSet(Named) /\ Cardinality(Named) \in Nat
  <1>1. Named \subseteq TableKeys
    BY DEF Named
  <1> QED BY <1>1, TableAssumption, FS_Subset, FS_CardinalityType

LEMMA BkHeapStep ==
  ASSUME HeapsInv, NEW t \in BkThreads, bk_heap(t)
  PROVE  HeapsInv'
  <1> DEFINE name == at[t].name
  <1>a. /\ at[t].pc = "heap" /\ bk_user_heaps_lock' = Nobody
        /\ at' = [at EXCEPT ![t] = [pc |-> "idle"]]
        /\ UNCHANGED <<slots, local, got>>
    BY DEF bk_heap, goto, slot_vars
  <1>0. name \in TableKeys
    BY <1>a DEF HeapsInv, Locked
  <1>1. \A u \in BkThreads : at'[u] = IF u = t THEN [pc |-> "idle"] ELSE at[u]
    BY <1>a DEF HeapsInv, Typed
  <1>2. ~Inside(t) /\ ~Inside(t)' /\ User(t) /\ ~User(t)' /\ at'[t].pc = "idle"
    <2>1. at'[t].pc = "idle"
      BY <1>1
    <2> QED BY <1>a, <2>1 DEF Inside, User
  <1>3. \A u \in BkThreads : u # t => (Inside(u)' <=> Inside(u)) /\ (User(u)' <=> User(u))
    BY <1>1, Zenon DEF Inside, User
  <1>4. \A u \in BkThreads : at'[u].pc # "free"
    BY <1>1, <1>2, OneUser DEF HeapsInv, User
  <1>5. Locked'
    <2>1. \A u \in BkThreads : u # t => ~User(u)
      BY <1>2, OneUser DEF HeapsInv
    <2>2. \A u \in BkThreads : ~User(u)' /\ bk_user_heaps_lock' # u
      BY <1>2, <1>3, <1>a, <2>1, HeapsAssumption
    <2>3. \A u \in BkThreads : Inside(u)' <=> slots'[CpuOf[u]].lock = u
      BY <1>2, <1>3, <1>a DEF HeapsInv, Locked
    <2> QED BY <1>1, <1>2, <1>3, <2>2, <2>3 DEF HeapsInv, Locked
  <1>6. get_val(bk_user_heaps, name) = named[name] /\ (Find(bk_user_heaps, name) = 0 <=> named[name] = NoValue)
    BY <1>0, Lookup DEF HeapsInv
  <1>7. CASE named[name] # NoValue
    <2>1. UNCHANGED <<bk_user_heaps, heaps, named>>
      BY <1>6, <1>7 DEF bk_heap
    <2>2. Typed'
      BY <1>a, <2>1 DEF HeapsInv, Typed, Fresh
    <2>3. Filled' /\ Given'
      BY <1>1, <1>2, <1>a, <2>1, SlotsLeft
    <2>4. Apart'
      BY <1>4, <1>a, <2>1 DEF HeapsInv, Apart
    <2>5. Tabled'
      BY <2>1, TableLeft DEF HeapsInv
    <2> QED BY <1>5, <2>2, <2>3, <2>4, <2>5 DEF HeapsInv
  <1>8. CASE named[name] = NoValue
    <2>1. /\ new_heap("ready") /\ bk_user_heaps' = insert(bk_user_heaps, name, Fresh)
          /\ named' = [named EXCEPT ![name] = Fresh]
      BY <1>6, <1>8 DEF bk_heap
    <2> HIDE DEF name
    <2> DEFINE h == Fresh
    <2>2. /\ heaps' \in [0 .. Fresh' - 1 -> HeapStates] /\ Fresh' = h + 1 /\ DOMAIN heaps' = DOMAIN heaps \cup {h}
          /\ heaps'[h] = "ready" /\ \A x \in DOMAIN heaps : heaps'[x] = heaps[x]
          /\ h \notin DOMAIN heaps /\ h # NoValue /\ h # Global
      BY <2>1, HeapMade DEF HeapsInv, HeapStates
    <2>3. h \in Nat \ {0}
      BY DEF HeapsInv, Typed
    <2>4. named' = [named EXCEPT ![name] = h]
      BY <2>1
    <2> HIDE DEF h
    <2>5. /\ named \in [TableKeys -> DOMAIN heaps \cup {NoValue}]
          /\ \A k \in TableKeys : named'[k] = IF k = name THEN h ELSE named[k]
      BY <1>0, <2>4 DEF HeapsInv, Typed
    <2>t. Typed'
      <3>1. named' \in [TableKeys -> DOMAIN heaps' \cup {NoValue}]
        BY <1>0, <2>2, <2>4, <2>5
      <3>2. slots' \in [Cpus -> [heap : DOMAIN heaps' \cup {NoValue}, lock : BkThreads \cup {Nobody}, is_valid : BOOLEAN]]
        BY <1>a, <2>2 DEF HeapsInv, Typed
      <3>3. got' \in [BkThreads -> DOMAIN heaps' \cup {NoValue}]
        BY <1>a, <2>2 DEF HeapsInv, Typed
      <3>4. Fresh' \in Nat \ {0}
        BY <2>2, <2>3
      <3> QED BY <1>a, <2>2, <3>1, <3>2, <3>3, <3>4 DEF HeapsInv, Typed
    <2>6. \A c \in Cpus : slots[c].heap \in DOMAIN heaps \cup {NoValue}
      BY DEF HeapsInv, Typed
    <2>7. Global \in DOMAIN heaps
      BY DEF HeapsInv, Typed, Global
    <2>8. Filled' /\ Given'
      BY <1>1, <1>2, <1>a, <2>2, <2>6, <2>7, SlotsLeft
    <2>9. Apart'
      <3> SUFFICES ASSUME NEW k \in TableKeys, named'[k] # NoValue
                   PROVE  /\ named'[k] # Global /\ heaps'[named'[k]] = "ready"
                          /\ \A l \in TableKeys : k # l => named'[l] # named'[k]
                          /\ \A c \in Cpus : slots[c].heap # named'[k]
        BY <1>4, <1>a DEF Apart
      <3>1. CASE k = name
        BY <2>2, <2>5, <2>6, <3>1
      <3>2. CASE k # name
        <4>1. named'[k] = named[k] /\ named[k] \in DOMAIN heaps /\ named[k] # h
          BY <2>2, <2>5, <3>2
        <4> QED BY <2>2, <2>5, <3>2, <4>1 DEF HeapsInv, Apart
      <3> QED BY <3>1, <3>2
    <2>10. Tabled'
      <3> DEFINE n == Cardinality(Named)
                 T == bk_user_heaps
                 e == [key |-> name, val |-> h]
      <3>1. n \in Nat /\ n < Cardinality(TableKeys) /\ Cardinality(Named') = n + 1
            /\ \A k : k \in Named' <=> k \in Named \/ k = name
        <4>1. Named' = Named \cup {name} /\ name \notin Named
          BY <1>0, <1>8, <2>2, <2>5 DEF Named
        <4>2. Cardinality(Named') = n + 1 /\ n \in Nat
          BY <4>1, NamedFinite, FS_AddElement
        <4>3. Named' \subseteq TableKeys
          BY DEF Named
        <4>4. Cardinality(Named') <= Cardinality(TableKeys) /\ Cardinality(TableKeys) \in Nat
          BY <4>3, TableAssumption, FS_Subset, FS_CardinalityType
        <4> QED BY <4>1, <4>2, <4>4
      <3>2. Find(T, name) = 0 /\ Sized(T, n) /\ bk_user_heaps' = insert(T, name, h)
        BY <1>6, <1>8, <2>1 DEF HeapsInv, Tabled, h
      <3> HIDE DEF n, T
      <3>3. Sized(bk_user_heaps', n + 1) /\ EntriesOf(bk_user_heaps') = EntriesOf(T) \cup {e}
        BY <1>0, <2>3, <3>1, <3>2, InsertAdds
      <3>4. EntriesOf(T) = {[key |-> k, val |-> named[k]] : k \in Named}
        BY DEF HeapsInv, Tabled, T
      <3>5. \A k \in Named : named'[k] = named[k]
        BY <1>8, <2>5 DEF Named
      <3>6. EntriesOf(bk_user_heaps') = {[key |-> k, val |-> named'[k]] : k \in Named'}
        <4>1. ASSUME NEW x \in EntriesOf(T) \cup {e} PROVE \E k \in Named' : x = [key |-> k, val |-> named'[k]]
          <5>1. CASE x = e
            BY <1>0, <2>5, <3>1, <5>1
          <5>2. CASE x \in EntriesOf(T)
            <6>1. PICK k \in Named : x = [key |-> k, val |-> named[k]]
              BY <3>4, <5>2, Zenon
            <6> QED BY <3>1, <3>5, <6>1
          <5> QED BY <5>1, <5>2
        <4>2. ASSUME NEW k \in Named' PROVE [key |-> k, val |-> named'[k]] \in EntriesOf(T) \cup {e}
          <5>1. CASE k = name
            BY <1>0, <2>5, <5>1
          <5>2. CASE k # name
            <6>1. k \in Named /\ named'[k] = named[k]
              BY <3>1, <3>5, <5>2
            <6> QED BY <3>4, <6>1
          <5> QED BY <5>1, <5>2
        <4> HIDE DEF e
        <4> QED BY <3>3, <4>1, <4>2
      <3> QED BY <3>1, <3>3, <3>6 DEF Tabled
    <2> QED BY <1>5, <2>t, <2>8, <2>9, <2>10 DEF HeapsInv
  <1> QED BY <1>7, <1>8

LEMMA DeleteNameStep ==
  ASSUME HeapsInv, NEW t \in BkThreads, DeleteName(t)
  PROVE  HeapsInv'
  <1> DEFINE name == at[t].name
             h == named[name]
             r == IF h = NoValue THEN [pc |-> "unlock users"] ELSE [pc |-> "free", heapp |-> h]
  <1>b. at[t].pc = "destroy" /\ UNCHANGED <<slots, local, heaps, got, bk_user_heaps_lock>>
    BY DEF DeleteName, slot_vars
  <1>0. name \in TableKeys
    BY <1>b DEF HeapsInv, Locked
  <1>6. get_val(bk_user_heaps, name) = h /\ (Find(bk_user_heaps, name) = 0 <=> h = NoValue)
    BY <1>0, Lookup DEF HeapsInv
  <1>a. /\ at' = [at EXCEPT ![t] = r]
        /\ bk_user_heaps' = delete(bk_user_heaps, name)
        /\ named' = [named EXCEPT ![name] = NoValue]
    BY <1>6, Zenon DEF DeleteName, goto
  <1> HIDE DEF name, h
  <1>1. \A u \in BkThreads : at'[u] = IF u = t THEN r ELSE at[u]
    BY <1>a DEF HeapsInv, Typed
  <1>2. /\ ~Inside(t) /\ ~Inside(t)' /\ User(t) /\ User(t)' /\ at'[t].pc \notin {"heap", "destroy", "lock"}
        /\ at'[t].pc = "free" => at'[t].heapp = h /\ h # NoValue
    <2>1. at'[t].pc \in {"free", "unlock users"} /\ (at'[t].pc = "free" => at'[t].heapp = h /\ h # NoValue)
      <3>1. at'[t] = r
        BY <1>1, Zenon
      <3>2. r.pc \in {"free", "unlock users"} /\ (r.pc = "free" => r.heapp = h /\ h # NoValue)
        OBVIOUS
      <3> QED BY <3>1, <3>2, Zenon
    <2> QED BY <1>b, <2>1 DEF Inside, User
  <1> HIDE DEF r
  <1>3. \A u \in BkThreads : (Inside(u)' <=> Inside(u)) /\ (User(u)' <=> User(u))
    BY <1>1, <1>2, Zenon DEF Inside, User
  <1>4. \A u \in BkThreads : u # t => at'[u].pc # "free"
    BY <1>1, <1>2, OneUser DEF HeapsInv, User
  <1>5. Locked'
    BY <1>1, <1>2, <1>3, <1>b DEF HeapsInv, Locked
  <1>7. /\ named \in [TableKeys -> DOMAIN heaps \cup {NoValue}]
        /\ \A k \in TableKeys : named'[k] = IF k = name THEN NoValue ELSE named[k]
    BY <1>0, <1>a DEF HeapsInv, Typed
  <1>8. Typed'
    <2>1. named' \in [TableKeys -> DOMAIN heaps \cup {NoValue}]
      BY <1>0, <1>7, <1>a
    <2> QED BY <1>a, <1>b, <2>1 DEF HeapsInv, Typed, Fresh
  <1>9. Filled' /\ Given'
    BY <1>1, <1>2, <1>b, SlotsLeft
  <1>10. Apart'
    <2>1. ASSUME NEW k \in TableKeys, named'[k] # NoValue
          PROVE  /\ named'[k] # Global /\ heaps[named'[k]] = "ready"
                 /\ \A l \in TableKeys : k # l => named'[l] # named'[k]
                 /\ \A c \in Cpus : slots[c].heap # named'[k]
      BY <1>7, <2>1 DEF HeapsInv, Apart
    <2>2. ASSUME h # NoValue
          PROVE  /\ h \in DOMAIN heaps \ {Global}
                 /\ \A k \in TableKeys : named'[k] # h
                 /\ \A c \in Cpus : slots[c].heap # h
      BY <1>0, <1>7, <2>2 DEF HeapsInv, Apart, h
    <2> QED BY <1>2, <1>4, <1>b, <2>1, <2>2 DEF Apart
  <1>11. Tabled'
    <2> DEFINE T == bk_user_heaps
    <2>1. Sized(T, Cardinality(Named)) /\ EntriesOf(T) = {[key |-> k, val |-> named[k]] : k \in Named}
      BY DEF HeapsInv, Tabled
    <2>2. Find(T, name) = 0 <=> h = NoValue
      BY <1>6
    <2>3. bk_user_heaps' = delete(T, name)
      BY <1>a
    <2> HIDE DEF T
    <2>4. CASE h = NoValue
      <3>1. bk_user_heaps' = T
        BY <2>2, <2>3, <2>4, Zenon DEF delete
      <3>2. named' = named
        BY <1>0, <1>7, <1>a, <2>4 DEF h
      <3> QED BY <3>1, <3>2, TableLeft DEF HeapsInv, T
    <2>5. CASE h # NoValue
      <3> DEFINE n == Cardinality(Named')
      <3>1. Named = Named' \cup {name} /\ name \notin Named'
        BY <1>0, <1>7, <2>5 DEF Named, h
      <3>2. n \in Nat /\ Cardinality(Named) = n + 1
        <4>1. Named' \subseteq Named
          BY <3>1
        <4>2. IsFiniteSet(Named')
          BY <4>1, NamedFinite, FS_Subset
        <4> QED BY <3>1, <4>2, FS_CardinalityType, FS_AddElement
      <3> HIDE DEF n
      <3>3. Sized(bk_user_heaps', n) /\ EntriesOf(bk_user_heaps') = {e \in EntriesOf(T) : e.key # name}
        BY <1>0, <2>1, <2>2, <2>3, <2>5, <3>2, DeleteTakes
      <3>4. \A k \in Named' : named'[k] = named[k] /\ k # name
        BY <1>7, <3>1 DEF Named
      <3>5. EntriesOf(bk_user_heaps') = {[key |-> k, val |-> named'[k]] : k \in Named'}
        <4>1. ASSUME NEW e \in EntriesOf(T), e.key # name PROVE \E k \in Named' : e = [key |-> k, val |-> named'[k]]
          <5>1. PICK k \in Named : e = [key |-> k, val |-> named[k]]
            BY <2>1, Zenon
          <5>2. k # name
            BY <4>1, <5>1
          <5>3. k \in Named' /\ named'[k] = named[k]
            BY <3>1, <3>4, <5>2
          <5> QED BY <5>1, <5>3, Zenon
        <4>2. ASSUME NEW k \in Named'
              PROVE  [key |-> k, val |-> named'[k]] \in EntriesOf(T) /\ [key |-> k, val |-> named'[k]].key # name
          <5>1. k \in Named /\ named'[k] = named[k] /\ k # name
            BY <3>1, <3>4
          <5> QED BY <2>1, <5>1
        <4> QED BY <3>3, <4>1, <4>2
      <3> QED BY <3>3, <3>5 DEF Tabled, n
    <2> QED BY <2>4, <2>5
  <1> QED BY <1>5, <1>8, <1>9, <1>10, <1>11 DEF HeapsInv

LEMMA FreeHeapStep ==
  ASSUME HeapsInv, NEW t \in BkThreads, FreeHeap(t)
  PROVE  HeapsInv'
  <1> DEFINE h == at[t].heapp
  <1>a. /\ at[t].pc = "free"
        /\ UNCHANGED <<slots, local, bk_user_heaps, bk_user_heaps_lock, named, got>>
        /\ heaps' = heaps \/ heaps' = [heaps EXCEPT ![h] = "freed"]
        /\ \E p \in {"unlock users", "undefined"} : at' = [at EXCEPT ![t] = [pc |-> p]]
    BY DEF FreeHeap, goto, slot_vars, table_vars
  <1>1. /\ \A u \in BkThreads : u # t => at'[u] = at[u]
        /\ at'[t].pc \in {"unlock users", "undefined"} /\ DOMAIN at' = BkThreads
    <2>1. PICK p \in {"unlock users", "undefined"} : at' = [at EXCEPT ![t] = [pc |-> p]]
      BY <1>a
    <2>2. DOMAIN at = BkThreads
      BY DEF HeapsInv, Typed
    <2> QED BY <2>1, <2>2
  <1>2. ~Inside(t) /\ ~Inside(t)' /\ User(t) /\ User(t)' /\ at'[t].pc \notin {"heap", "destroy", "lock", "free"}
    BY <1>1, <1>a DEF Inside, User
  <1>3. \A u \in BkThreads : (Inside(u)' <=> Inside(u)) /\ (User(u)' <=> User(u))
    BY <1>1, <1>2, Zenon DEF Inside, User
  <1>4. \A u \in BkThreads : at'[u].pc # "free"
    BY <1>1, <1>2, OneUser DEF HeapsInv, User
  <1>5. Locked'
    BY <1>1, <1>2, <1>3, <1>a DEF HeapsInv, Locked
  <1>6. /\ h \in DOMAIN heaps \ {Global}
        /\ \A k \in TableKeys : named[k] # h
        /\ \A c \in Cpus : slots[c].heap # h
    BY <1>a DEF HeapsInv, Apart
  <1> HIDE DEF h
  <1>7. /\ heaps' \in [0 .. Fresh - 1 -> HeapStates] /\ DOMAIN heaps' = DOMAIN heaps
        /\ \A x \in DOMAIN heaps : x # h => heaps'[x] = heaps[x]
    BY <1>a, <1>6 DEF HeapsInv, Typed, HeapStates
  <1>8. Typed'
    <2>1. Fresh' = Fresh
      BY <1>7, Zenon DEF Fresh
    <2> QED BY <1>1, <1>7, <1>a, <2>1 DEF HeapsInv, Typed
  <1>9. /\ Global \in DOMAIN heaps
        /\ \A c \in Cpus : slots[c].heap \in DOMAIN heaps \cup {NoValue}
        /\ \A k \in TableKeys : named[k] \in DOMAIN heaps \cup {NoValue}
    BY DEF HeapsInv, Typed, Global
  <1>10. Filled' /\ Given'
    BY <1>1, <1>2, <1>6, <1>7, <1>9, <1>a, SlotsLeft
  <1>11. Apart'
    BY <1>4, <1>6, <1>7, <1>9, <1>a DEF HeapsInv, Apart
  <1>12. Tabled'
    BY <1>a, TableLeft DEF HeapsInv
  <1> QED BY <1>5, <1>8, <1>10, <1>11, <1>12 DEF HeapsInv

LEMMA HeapsInvNext == HeapsInv /\ [HeapsNext]_heap_vars => HeapsInv'
  <1> SUFFICES ASSUME HeapsInv, [HeapsNext]_heap_vars PROVE HeapsInv'
    OBVIOUS
  <1>1. CASE bk_init
    BY <1>1, InitStep
  <1>2. ASSUME NEW t \in BkThreads,
               GetHeap(t) \/ LockSlot(t) \/ CheckSlot(t) \/ InitHeap(t) \/ Publish(t) \/ UnlockSlot(t)
        PROVE  HeapsInv'
    BY <1>2, GetHeapStep, LockSlotStep, CheckSlotStep, InitHeapStep, PublishStep, UnlockSlotStep
  <1>3. ASSUME NEW t \in BkThreads, NEW name \in TableKeys, NEW op \in {"heap", "destroy"}, LockUsers(t, op, name)
        PROVE  HeapsInv'
    BY <1>3, LockUsersStep
  <1>4. ASSUME NEW t \in BkThreads, bk_heap(t) \/ DeleteName(t) \/ FreeHeap(t) \/ UnlockUsers(t)
        PROVE  HeapsInv'
    BY <1>4, BkHeapStep, DeleteNameStep, FreeHeapStep, UnlockUsersStep
  <1>5. CASE UNCHANGED heap_vars
    <2>1. UNCHANGED <<slots, local, bk_user_heaps, bk_user_heaps_lock, heaps, at, got, named>>
      BY <1>5 DEF heap_vars
    <2>2. Typed' /\ Locked' /\ Filled' /\ Given' /\ Apart'
      <3>1. Typed'
        BY <2>1 DEF HeapsInv, Typed, Fresh
      <3>2. Locked'
        BY <2>1, Zenon DEF HeapsInv, Locked, Inside, User
      <3>3. Filled'
        BY <2>1, Zenon DEF HeapsInv, Filled
      <3>4. Given' /\ Apart'
        BY <2>1, Zenon DEF HeapsInv, Given, Apart
      <3> QED BY <3>1, <3>2, <3>3, <3>4
    <2>3. Tabled'
      BY <2>1, TableLeft DEF HeapsInv
    <2> QED BY <2>2, <2>3 DEF HeapsInv
  <1> QED BY <1>1, <1>2, <1>3, <1>4, <1>5, Zenon DEF HeapsNext

THEOREM HeapsInductive == HeapsSpec => []HeapsInv
  BY HeapsInvInit, HeapsInvNext, PTL DEF HeapsSpec

\* The threads of a slot share one heap, which no other slot and no name
\* has, and no thread gets one that bk_init_heap() has not filled, although
\* BK_GET_HEAP() reads is_valid without the lock: for any number of
\* threads, slots and heaps.
THEOREM HeapsOfSlotsShared == HeapsSpec => []SlotHeapsShared
  <1>1. HeapsInv => SlotHeapsShared
    <2> SUFFICES ASSUME HeapsInv PROVE SlotHeapsShared
      OBVIOUS
    <2>1. \A c \in Cpus : slots[c].is_valid => heaps[slots[c].heap] = "ready"
      BY DEF HeapsInv, Filled
    <2>2. ASSUME NEW t \in BkThreads, got[t] # NoValue PROVE heaps[got[t]] # "raw"
      <3>1. CpuOf[t] \in Cpus
        BY DEF Cpus
      <3> QED BY <2>2, <3>1 DEF HeapsInv, Filled, Given
    <2>3. \A c, d \in Cpus : c # d /\ slots[c].heap # NoValue => slots[c].heap # slots[d].heap
      BY DEF HeapsInv, Filled
    <2>4. \A c \in Cpus, k \in TableKeys : named[k] # NoValue => slots[c].heap # named[k]
      BY DEF HeapsInv, Apart
    <2> QED BY <2>1, <2>2, <2>3, <2>4 DEF SlotHeapsShared
  <1> QED BY <1>1, HeapsInductive, PTL

\* bk_heap() finds for a name the heap it made for it, and nothing after
\* bk_destroy_heap(), whatever other names came, went and made the table
\* grow; the table is never as full as its threshold: for any names,
\* hashes and sizes of the table.
THEOREM HeapsOfNamesKept == HeapsSpec => []NamesKeepHeaps
  <1>1. HeapsInv => NamesKeepHeaps
    <2> SUFFICES ASSUME HeapsInv PROVE NamesKeepHeaps
      OBVIOUS
    <2>1. \A k \in TableKeys : get_val(bk_user_heaps, k) = named[k]
      BY Lookup DEF HeapsInv
    <2>2. \A k, l \in TableKeys : named[k] # NoValue /\ k # l => named[k] # named[l]
      BY DEF HeapsInv, Apart
    <2>3. \A k \in TableKeys : named[k] # NoValue => heaps[named[k]] = "ready"
      BY DEF HeapsInv, Apart
    <2>4. /\ bk_user_heaps.len = Cardinality({k \in TableKeys : named[k] # NoValue})
          /\ bk_user_heaps.len < bk_user_heaps.load_thresh
      BY DEF HeapsInv, Tabled, Sized, Named
    <2> QED BY <2>1, <2>2, <2>3, <2>4 DEF NamesKeepHeaps
  <1> QED BY <1>1, HeapsInductive, PTL

---------------------------------------------------------------------------
(* The page fault handler and the intervals: what is delivered was          *)
(* recorded, what is open was recorded, and the two ways in which the       *)
(* handler and an interval can wait for each other.                         *)

HandlerLabels == {"compare", "count", "lock", "spin", "mark", "open", "retry"}

\* The types the arguments rest on.
TypesOK ==
  /\ config \in Configs
  /\ fpc \in [Threads -> {"run", "interval"} \cup HandlerLabels]
  /\ access \in [Threads -> {<<>>} \cup (Nat \X {"w", "r"})]
  /\ \A t \in Threads : fpc[t] \in HandlerLabels => access[t] \in (Nat \X {"w", "r"})
  /\ protection_lock \in Threads \cup {NoThread}
  /\ perm \in [Pages -> {"none", "r", "rw"}]
  /\ seen \in [Pages -> SUBSET {"w", "r", "tracker"}]
  /\ recorded \in [w : SUBSET Nat, r : SUBSET Nat]
  /\ owed \subseteq Nat \X {"w", "r"}

\* protection_lock is held from its lock() to its unlock().
HandlerHolds ==
  \A t \in Threads : protection_lock = t <=> fpc[t] \in {"spin", "mark", "open"}

\* The thread that runs an interval is in it, or in the handler while its
\* test looks at pages, and no other thread is.
RunnerIsInside ==
  /\ runner \in Threads \cup {NoThread}
  /\ stage \in {"idle", "writes", "reads", "clear", "test"}
  /\ \A t \in Threads : fpc[t] = "interval" => t = runner
  /\ runner = NoThread <=> stage = "idle"
  /\ runner # NoThread /\ stage # "test" => fpc[runner] = "interval"
  /\ runner # NoThread => fpc[runner] # "run"

HandlerInv == TypesOK /\ HandlerHolds /\ RunnerIsInside

\* What the tests may set a page to.
LEMMA TestPermissions ==
  ASSUME config \in Configs
  PROVE  /\ Test.opens \in {"rw", "r", "none", "as is"}
         /\ Test.closes \in {"rw", "none"}
         /\ Test.reads \in BOOLEAN
         /\ Test.reads /\ Test.opens # "none" => Test.opens \in {"rw", "r"}
  <1>1. config.test \in {"page_tracking", "access_patterns", "access_compression", "compression"}
    BY ConfigsAssumption
  <1>2. CASE config.test = "page_tracking"
    BY <1>2 DEF Test, Tests
  <1>3. CASE config.test = "access_patterns"
    BY <1>3 DEF Test, Tests
  <1>4. CASE config.test = "access_compression"
    BY <1>4 DEF Test, Tests
  <1>5. CASE config.test = "compression"
    BY <1>5 DEF Test, Tests
  <1> QED BY <1>1, <1>2, <1>3, <1>4, <1>5
---------------------------------------------------------------------------
(* Who is where                                                            *)

LEMMA PageNumbers ==
  /\ Pages \subseteq Nat
  /\ \A p \in Pages : p * PageSize \in Nat /\ PageOf(p * PageSize) = p
  <1>1. \A a \in Nat : a \div PageSize \in Nat
    BY FaultsAssumption
  <1>2. \A a, n \in Nat : a .. a + n - 1 \subseteq Nat
    OBVIOUS
  <1>3. \A o \in Objects : Protected(o) \subseteq Nat
    <2> SUFFICES ASSUME NEW o \in Objects
                 PROVE  Protected(o) \subseteq Nat
      OBVIOUS
    <2>1. Start[o] \in Nat /\ ObjectSize[o] + PageSize - 1 \in Nat
      BY FaultsAssumption
    <2>2. PageOf(Start[o]) \in Nat /\ (ObjectSize[o] + PageSize - 1) \div PageSize \in Nat
      BY <1>1, <2>1 DEF PageOf
    <2> QED BY <1>2, <2>2 DEF Protected
  <1>4. \A c \in Configs : c.heap \subseteq Nat /\ \A x \in c.accesses : PageOf(x[1]) \in Nat
    BY <1>1, ConfigsAssumption DEF PageOf
  <1>5. Pages \subseteq Nat
    BY <1>3, <1>4 DEF Pages, ObjectPages
  <1>6. \A p \in Nat : p * PageSize \in Nat /\ PageOf(p * PageSize) = p
    <2>1. ASSUME NEW p \in Nat, NEW n \in Nat \ {0}
          PROVE  p * n \in Nat /\ (p * n) \div n = p
      OBVIOUS
    <2> QED BY <2>1, FaultsAssumption DEF PageOf
  <1> QED BY <1>5, <1>6

LEMMA HandlerInvInit == FaultsInit => HandlerInv
  BY FaultsAssumption
  DEF FaultsInit, HandlerInv, TypesOK, HandlerHolds, RunnerIsInside, HandlerLabels

LEMMA HandlerInvHandle ==
  ASSUME HandlerInv, NEW t \in Threads, Handle(t) \/ Fault(t) \/ Begin(t), UNCHANGED config
  PROVE  HandlerInv'
  <1> USE FaultsAssumption
      DEF HandlerInv, TypesOK, HandlerHolds, RunnerIsInside, HandlerLabels, GoTo,
          handler_vars, interval_vars, page_vars
  <1>1. CASE Compare(t)
    BY <1>1 DEF Compare
  <1>2. CASE Count(t)
    BY <1>2 DEF Count
  <1>3. CASE GiveBack(t)
    BY <1>3 DEF GiveBack
  <1>4. CASE Lock(t)
    BY <1>4 DEF Lock
  <1>5. CASE StopSpinning(t)
    BY <1>5 DEF StopSpinning
  <1>6. CASE Mark(t)
    <2>1. access[t] \in Nat \X {"w", "r"} /\ access[t][1] \in Nat /\ access[t][2] \in {"w", "r"}
      BY <1>6 DEF Mark
    <2>2. recorded' \in [w : SUBSET Nat, r : SUBSET Nat]
      <3>1. CASE ~Tracks(access[t][2], access[t][1])
        BY <1>6, <3>1 DEF Mark
      <3>2. CASE Tracks(access[t][2], access[t][1]) /\ access[t][2] = "w"
        BY <1>6, <2>1, <3>2 DEF Mark
      <3>3. CASE Tracks(access[t][2], access[t][1]) /\ access[t][2] = "r"
        BY <1>6, <2>1, <3>3 DEF Mark
      <3> QED BY <2>1, <3>1, <3>2, <3>3
    <2>3. owed' \subseteq Nat \X {"w", "r"} /\ seen' \in [Pages -> SUBSET {"w", "r", "tracker"}]
      <3>1. owed' = owed \/ owed' = owed \cup {access[t]}
        BY <1>6 DEF Mark
      <3>2. owed' \subseteq Nat \X {"w", "r"}
        BY <2>1, <3>1
      <3>3. seen' = seen \/ seen' = [seen EXCEPT ![PageOf(access[t][1])] = @ \cup {access[t][2]}]
        BY <1>6 DEF Mark
      <3>4. seen' \in [Pages -> SUBSET {"w", "r", "tracker"}]
        <4>1. seen \in [Pages -> SUBSET {"w", "r", "tracker"}] /\ access[t][2] \in {"w", "r", "tracker"}
          BY <2>1
        <4> HIDE DEF HandlerInv, TypesOK, HandlerHolds, RunnerIsInside
        <4> QED BY <3>3, <4>1
      <3> QED BY <3>2, <3>4
    <2>4. /\ fpc' = [fpc EXCEPT ![t] = "open"] /\ fpc[t] = "mark"
          /\ UNCHANGED <<access, protection_lock, runner, stage, perm>>
      BY <1>6 DEF Mark
    <2>5. TypesOK'
      BY <2>2, <2>3, <2>4
    <2> QED BY <2>4, <2>5
  <1>7. CASE Open(t)
    <2>1. /\ fpc' = [fpc EXCEPT ![t] = "retry"] /\ fpc[t] = "open" /\ protection_lock' = NoThread
          /\ perm' = [perm EXCEPT ![PageOf(access[t][1])] = Granted(@, access[t][2])]
          /\ UNCHANGED <<access, runner, stage, recorded, owed, seen>>
      BY <1>7 DEF Open
    <2>2. \A p \in {"none", "r", "rw"}, kind \in {"w", "r"} : Granted(p, kind) \in {"none", "r", "rw"}
      BY ConfigsAssumption DEF Granted
    <2>3. access[t][2] \in {"w", "r"}
      BY <2>1
    <2>4. perm' \in [Pages -> {"none", "r", "rw"}]
      BY <2>1, <2>2, <2>3
    <2>5. TypesOK'
      BY <2>1, <2>4
    <2> QED BY <2>1, <2>5
  <1>8. CASE Succeed(t)
    BY <1>8 DEF Succeed
  <1>9. CASE FaultAgain(t)
    BY <1>9 DEF FaultAgain
  <1>10. CASE Fault(t)
    <2>1. config.accesses \subseteq Nat \X {"w", "r"}
      BY ConfigsAssumption
    <2> QED BY <1>10, <2>1 DEF Fault
  <1>11. CASE Begin(t)
    BY <1>11 DEF Begin, Idle
  <1> QED BY <1>1, <1>2, <1>3, <1>4, <1>5, <1>6, <1>7, <1>8, <1>9, <1>10, <1>11 DEF Handle
\* The pages a test opens or closes get one of the permissions there are.
LEMMA SetTypes ==
  ASSUME HandlerInv, NEW o, NEW p \in {"rw", "r", "none", "as is"}, SetPermissions(o, p)
  PROVE  /\ perm' \in [Pages -> {"none", "r", "rw"}]
         /\ seen' \in [Pages -> SUBSET {"w", "r", "tracker"}]
  <1>1. CASE p = "as is"
    BY <1>1 DEF HandlerInv, TypesOK, SetPermissions
  <1>2. CASE p # "as is"
    <2>1. /\ perm' = [q \in Pages |-> IF q \in Protected(o) THEN p ELSE perm[q]]
          /\ seen' = [q \in Pages |-> IF q \notin Protected(o) THEN seen[q]
                                      ELSE IF p = "none" THEN {} ELSE {"tracker"}]
      BY <1>2 DEF SetPermissions
    <2>2. p \in {"rw", "r", "none"}
      BY <1>2
    <2>3. /\ perm \in [Pages -> {"none", "r", "rw"}]
          /\ seen \in [Pages -> SUBSET {"w", "r", "tracker"}]
      BY DEF HandlerInv, TypesOK
    <2>4. perm' \in [Pages -> {"none", "r", "rw"}]
      BY <2>1, <2>2, <2>3
    <2>5. seen' \in [Pages -> SUBSET {"w", "r", "tracker"}]
      BY <2>1, <2>3
    <2> QED BY <2>4, <2>5
  <1> QED BY <1>1, <1>2

LEMMA HandlerInvInterval ==
  ASSUME HandlerInv, IntervalStep, UNCHANGED config
  PROVE  HandlerInv'
  <1> USE FaultsAssumption
      DEF HandlerInv, TypesOK, HandlerHolds, RunnerIsInside, HandlerLabels, GoTo, InInterval,
          handler_vars, interval_vars, page_vars
  <1>1. CASE DeliverWrites
    BY <1>1 DEF DeliverWrites, Deliver
  <1>2. CASE DeliverReads
    BY <1>2 DEF DeliverReads, Deliver
  <1>3. CASE Clear
    BY <1>3 DEF Clear
  <1>4. ASSUME NEW o \in Objects, LookAt(o)
        PROVE  HandlerInv'
    <2>1. Test.opens \in {"rw", "r", "none", "as is"}
      BY TestPermissions
    <2>2. perm' \in [Pages -> {"none", "r", "rw"}] /\ seen' \in [Pages -> SUBSET {"w", "r", "tracker"}]
      <3>1. SetPermissions(o, Test.opens)
        BY <1>4 DEF LookAt
      <3> HIDE DEF HandlerInv
      <3> QED BY <2>1, <3>1, SetTypes
    <2> QED BY <1>4, <2>2 DEF LookAt
  <1>5. ASSUME NEW o \in Objects, Close(o)
        PROVE  HandlerInv'
    <2>1. Test.closes \in {"rw", "none"}
      BY TestPermissions
    <2>2. perm' \in [Pages -> {"none", "r", "rw"}] /\ seen' \in [Pages -> SUBSET {"w", "r", "tracker"}]
      <3>1. SetPermissions(o, Test.closes)
        BY <1>5 DEF Close
      <3> HIDE DEF HandlerInv
      <3> QED BY <2>1, <3>1, SetTypes
    <2> QED BY <1>5, <2>2 DEF Close
  <1>6. ASSUME NEW p \in Pages, ReadPage(p)
        PROVE  HandlerInv'
    BY <1>6 DEF ReadPage
  <1>7. ASSUME NEW p \in Pages, FaultOnPage(p)
        PROVE  HandlerInv'
    <2>1. <<p * PageSize, "r">> \in Nat \X {"w", "r"}
      BY PageNumbers
    <2>2. runner \in Threads
      BY <1>7 DEF FaultOnPage
    <2> QED BY <1>7, <2>1, <2>2 DEF FaultOnPage
  <1>8. ASSUME NEW p \in Pages, FaultOnHeap(p)
        PROVE  HandlerInv'
    <2>1. <<p * PageSize, "w">> \in Nat \X {"w", "r"}
      BY PageNumbers
    <2>2. runner \in Threads
      BY <1>8 DEF FaultOnHeap
    <2> QED BY <1>8, <2>1, <2>2 DEF FaultOnHeap
  <1>9. CASE End
    BY <1>9 DEF End
  <1> QED BY <1>1, <1>2, <1>3, <1>4, <1>5, <1>6, <1>7, <1>8, <1>9 DEF IntervalStep

LEMMA HandlerInvTrack ==
  ASSUME HandlerInv, NEW o \in Objects, Track(o) \/ Untrack(o), UNCHANGED config
  PROVE  HandlerInv'
  BY DEF Track, Untrack, HandlerInv, TypesOK, HandlerHolds, RunnerIsInside, HandlerLabels,
         handler_vars, interval_vars, page_vars

LEMMA HandlerInductive == FaultsSpec => []HandlerInv
  <1>1. HandlerInv /\ [FaultsNext]_faults_vars => HandlerInv'
    <2>1. ASSUME HandlerInv, UNCHANGED faults_vars
          PROVE  HandlerInv'
      BY <2>1 DEF HandlerInv, TypesOK, HandlerHolds, RunnerIsInside, HandlerLabels,
                  faults_vars, handler_vars, interval_vars, page_vars
    <2>2. ASSUME HandlerInv, FaultsNext
          PROVE  HandlerInv'
      BY <2>2, HandlerInvHandle, HandlerInvInterval, HandlerInvTrack DEF FaultsNext
    <2> QED BY <2>1, <2>2
  <1> QED BY <1>1, HandlerInvInit, PTL DEF FaultsSpec

---------------------------------------------------------------------------
(* What is delivered has been recorded                                     *)

\* What is in the access sets is owed to the tests, but for what the running
\* interval has handed over and not cleared.
RecordedIsOwed ==
  /\ stage \in {"idle", "writes", "test"} => \A a \in recorded.w : <<a, "w">> \in owed
  /\ stage \in {"idle", "writes", "reads", "test"} => \A a \in recorded.r : <<a, "r">> \in owed

\* Only the handler adds to the sets, and it adds to what is owed; only the
\* interval moves on, and it clears the sets before the stages start again.
LEMMA RecordedIsOwedStep ==
  ASSUME HandlerInv, RecordedIsOwed, [FaultsNext]_faults_vars
  PROVE  RecordedIsOwed'
  <1>1. CASE UNCHANGED <<stage, recorded, owed>>
    BY <1>1 DEF RecordedIsOwed
  <1>2. ASSUME NEW t \in Threads, Mark(t)
        PROVE  RecordedIsOwed'
    <2>1. access[t] = <<access[t][1], access[t][2]>> /\ access[t][2] \in {"w", "r"}
      BY <1>2 DEF HandlerInv, TypesOK, HandlerLabels, Mark
    <2>2. recorded \in [w : SUBSET Nat, r : SUBSET Nat]
      BY DEF HandlerInv, TypesOK
    <2>3. CASE ~Tracks(access[t][2], access[t][1])
      BY <1>1, <1>2, <2>3 DEF Mark, interval_vars
    <2>4. CASE Tracks(access[t][2], access[t][1]) /\ access[t][2] = "w"
      BY <1>2, <2>1, <2>2, <2>4 DEF Mark, RecordedIsOwed, interval_vars
    <2>5. CASE Tracks(access[t][2], access[t][1]) /\ access[t][2] = "r"
      BY <1>2, <2>1, <2>2, <2>5 DEF Mark, RecordedIsOwed, interval_vars
    <2> QED BY <2>1, <2>3, <2>4, <2>5
  <1>3. CASE DeliverWrites
    BY <1>3 DEF DeliverWrites, Deliver, InInterval, RecordedIsOwed
  <1>4. CASE DeliverReads
    BY <1>4 DEF DeliverReads, Deliver, InInterval, RecordedIsOwed
  <1>5. CASE Clear
    BY <1>5 DEF Clear, RecordedIsOwed
  <1>6. CASE End
    BY <1>6 DEF End, InInterval, RecordedIsOwed, page_vars
  <1>7. ASSUME NEW t \in Threads, Begin(t)
        PROVE  RecordedIsOwed'
    BY <1>7 DEF Begin, Idle, HandlerInv, RunnerIsInside, RecordedIsOwed, page_vars
  <1>8. ASSUME NEW t \in Threads, Handle(t) \/ Fault(t), ~Mark(t)
        PROVE  UNCHANGED <<stage, recorded, owed>>
    BY <1>8 DEF Handle, Fault, Compare, Count, GiveBack, Lock, StopSpinning, Open, Succeed,
                FaultAgain, interval_vars, page_vars
  <1>9. ASSUME NEW o \in Objects, LookAt(o) \/ Close(o) \/ Track(o) \/ Untrack(o)
        PROVE  UNCHANGED <<stage, recorded, owed>>
    BY <1>9 DEF LookAt, Close, Track, Untrack, interval_vars, page_vars
  <1>10. ASSUME NEW p \in Pages, ReadPage(p) \/ FaultOnPage(p) \/ FaultOnHeap(p)
         PROVE  UNCHANGED <<stage, recorded, owed>>
    BY <1>10 DEF ReadPage, FaultOnPage, FaultOnHeap, interval_vars, page_vars
  <1>11. ASSUME UNCHANGED faults_vars
         PROVE  UNCHANGED <<stage, recorded, owed>>
    BY <1>11 DEF faults_vars, interval_vars, page_vars
  <1> QED BY <1>1, <1>2, <1>3, <1>4, <1>5, <1>6, <1>7, <1>8, <1>9, <1>10, <1>11
          DEF FaultsNext, IntervalStep

\* An interval hands a recorded fault to the tests once, whatever the
\* handler records meanwhile.
THEOREM FaultsAreDeliveredOnce == FaultsSpec => DeliveredOnce
  <1>1. FaultsInit => RecordedIsOwed
    BY DEF FaultsInit, RecordedIsOwed
  <1>2. ASSUME HandlerInv, RecordedIsOwed
        PROVE  /\ DeliverWrites => \A o \in Delivered("w") : <<Start[o], "w">> \in owed
               /\ DeliverReads => \A o \in Delivered("r") : <<Start[o], "r">> \in owed
    <2>1. recorded["w"] = recorded.w /\ recorded["r"] = recorded.r
      OBVIOUS
    <2> QED BY <1>2, <2>1 DEF RecordedIsOwed, DeliverWrites, DeliverReads, Deliver, InInterval, Delivered
  <1> QED BY <1>1, <1>2, RecordedIsOwedStep, HandlerInductive, PTL DEF FaultsSpec, DeliveredOnce
---------------------------------------------------------------------------
(* How the handler and an interval can wait for each other                 *)

\* Only pages of objects are ever closed, and only on them is there a fault.
ClosedOnObjects ==
  /\ \A p \in Pages : perm[p] # "rw" => p \in ObjectPages
  /\ \A t \in Threads : fpc[t] \in HandlerLabels => PageOf(access[t][1]) \in ObjectPages

\* Whoever faults does so on a page that is closed.
LEMMA ClosedOnObjectsHandle ==
  ASSUME HandlerInv, ClosedOnObjects, NEW t \in Threads, Handle(t) \/ Fault(t) \/ Begin(t), UNCHANGED config
  PROVE  ClosedOnObjects'
  <1> USE DEF HandlerInv, TypesOK, ClosedOnObjects
  <1>1. ASSUME perm' = perm, access' = access, NEW l \in HandlerLabels, fpc[t] \in HandlerLabels,
               fpc' = [fpc EXCEPT ![t] = l]
        PROVE  ClosedOnObjects'
    BY <1>1
  <1>2. CASE Compare(t) \/ Count(t) \/ Lock(t) \/ StopSpinning(t) \/ Mark(t)
    BY <1>1, <1>2 DEF Compare, Count, Lock, StopSpinning, Mark, GoTo, page_vars, HandlerLabels
  <1>3. CASE GiveBack(t)
    <2>1. /\ perm' = [perm EXCEPT ![PageOf(access[t][1])] = "rw"]
          /\ fpc' = [fpc EXCEPT ![t] = "retry"] /\ fpc[t] = "lock" /\ access' = access
      BY <1>3 DEF GiveBack, GoTo
    <2>2. \A p \in Pages : perm'[p] # "rw" => perm[p] # "rw"
      BY <2>1
    <2> QED BY <2>1, <2>2 DEF HandlerLabels
  <1>4. CASE Open(t)
    <2>1. /\ perm' = [perm EXCEPT ![PageOf(access[t][1])] = Granted(@, access[t][2])]
          /\ fpc' = [fpc EXCEPT ![t] = "retry"] /\ fpc[t] = "open" /\ access' = access
      BY <1>4 DEF Open, GoTo
    <2>2. PageOf(access[t][1]) \in ObjectPages
      BY <2>1 DEF HandlerLabels
    <2>3. \A p \in Pages : perm'[p] # "rw" => p \in ObjectPages
      BY <2>1, <2>2
    <2> QED BY <2>1, <2>3 DEF HandlerLabels
  <1>5. CASE Succeed(t)
    BY <1>5 DEF Succeed, GoTo, page_vars, HandlerLabels
  <1>6. CASE FaultAgain(t)
    BY <1>1, <1>6 DEF FaultAgain, GoTo, page_vars, HandlerLabels
  <1>7. CASE Fault(t)
    <2>1. PICK x \in config.accesses : ~Permits(perm[PageOf(x[1])], x[2]) /\ access' = [access EXCEPT ![t] = x]
      BY <1>7 DEF Fault
    <2>2. PageOf(x[1]) \in Pages
      BY <2>1 DEF Pages
    <2>3. perm[PageOf(x[1])] # "rw"
      BY <2>1 DEF Permits
    <2>4. perm' = perm /\ \A u \in Threads : u # t => fpc'[u] = fpc[u] /\ access'[u] = access[u]
      BY <1>7, <2>1 DEF Fault, GoTo, page_vars
    <2>5. access'[t] = x /\ PageOf(x[1]) \in ObjectPages
      BY <2>1, <2>2, <2>3
    <2> QED BY <2>4, <2>5
  <1>8. CASE Begin(t)
    BY <1>8 DEF Begin, GoTo, page_vars, HandlerLabels
  <1> QED BY <1>2, <1>3, <1>4, <1>5, <1>6, <1>7, <1>8 DEF Handle

\* A test closes the pages of an object.
LEMMA ClosedOnObjectsInterval ==
  ASSUME HandlerInv, ClosedOnObjects, IntervalStep, UNCHANGED config
  PROVE  ClosedOnObjects'
  <1> USE DEF HandlerInv, TypesOK, ClosedOnObjects
  <1>1. ASSUME NEW o \in Objects, LookAt(o) \/ Close(o)
        PROVE  ClosedOnObjects'
    <2>1. Protected(o) \subseteq ObjectPages
      BY DEF ObjectPages
    <2>2. \E p : SetPermissions(o, p)
      BY <1>1 DEF LookAt, Close
    <2>3. \A q \in Pages : perm'[q] # "rw" => perm[q] # "rw" \/ q \in Protected(o)
      <3>1. PICK p : SetPermissions(o, p)
        BY <2>2
      <3>2. perm' = perm \/ perm' = [q \in Pages |-> IF q \in Protected(o) THEN p ELSE perm[q]]
        BY <3>1, Zenon DEF SetPermissions
      <3> HIDE DEF HandlerInv, TypesOK, ClosedOnObjects
      <3> QED BY <3>2
    <2>4. UNCHANGED <<fpc, access>>
      BY <1>1 DEF LookAt, Close, handler_vars
    <2> QED BY <2>1, <2>3, <2>4
  <1>2. ASSUME NEW p \in Pages, NEW kind, perm[p] # "rw", runner \in Threads, perm' = perm,
               access' = [access EXCEPT ![runner] = <<p * PageSize, kind>>],
               fpc' = [fpc EXCEPT ![runner] = "compare"]
        PROVE  ClosedOnObjects'
    <2>1. access'[runner] = <<p * PageSize, kind>> /\ PageOf(p * PageSize) = p /\ p \in ObjectPages
      BY <1>2, PageNumbers
    <2>2. \A u \in Threads : u # runner => fpc'[u] = fpc[u] /\ access'[u] = access[u]
      BY <1>2
    <2>3. PageOf(access'[runner][1]) \in ObjectPages
      BY <2>1
    <2> QED BY <1>2, <2>2, <2>3
  <1>3. ASSUME NEW p \in Pages, FaultOnPage(p)
        PROVE  ClosedOnObjects'
    <2>1. perm[p] # "rw" /\ runner \in Threads /\ perm' = perm
      BY <1>3 DEF FaultOnPage, Permits, InInterval, RunnerIsInside, page_vars
    <2> QED BY <1>2, <1>3, <2>1 DEF FaultOnPage, GoTo
  <1>4. ASSUME NEW p \in Pages, FaultOnHeap(p)
        PROVE  ClosedOnObjects'
    <2>1. perm[p] # "rw" /\ runner \in Threads /\ perm' = perm
      BY <1>4 DEF FaultOnHeap, Permits, InInterval, RunnerIsInside, page_vars
    <2> QED BY <1>2, <1>4, <2>1 DEF FaultOnHeap, GoTo
  <1>5. ASSUME NEW p \in Pages, ReadPage(p)
        PROVE  ClosedOnObjects'
    BY <1>5 DEF ReadPage, handler_vars, page_vars
  <1>6. CASE DeliverWrites \/ DeliverReads \/ Clear
    BY <1>6 DEF DeliverWrites, DeliverReads, Deliver, Clear, handler_vars
  <1>7. CASE End
    BY <1>7 DEF End, GoTo, page_vars, HandlerLabels
  <1> QED BY <1>1, <1>3, <1>4, <1>5, <1>6, <1>7 DEF IntervalStep

\* Under a test that reads no closed page, the page that is read is open, and
\* the thread that reads it enters the handler only for memory of its own.
RunnerReads ==
  /\ looking \subseteq Pages
  /\ ~ReadsClosed => \A p \in looking : Permits(perm[p], "r")
  /\ ~ReadsClosed /\ runner # NoThread /\ fpc[runner] # "interval" =>
       PageOf(access[runner][1]) \in config.heap

\* Nothing but a test takes the permission to read away.
LEMMA RunnerReadsHandle ==
  ASSUME HandlerInv, RunnerReads, NEW t \in Threads, Handle(t) \/ Fault(t) \/ Begin(t), UNCHANGED config
  PROVE  RunnerReads'
  <1>1. ReadsClosed' <=> ReadsClosed
    BY DEF ReadsClosed, Test
  <1>2. ASSUME ~ReadsClosed, runner' # NoThread, fpc'[runner'] # "interval"
        PROVE  PageOf(access'[runner'][1]) \in config.heap
    <2>1. CASE Begin(t)
      BY <1>2, <2>1 DEF Begin, GoTo, HandlerInv, TypesOK
    <2>2. CASE t # runner /\ runner' = runner
      <3>1. fpc'[runner] = fpc[runner] /\ access'[runner] = access[runner]
        <4>1. runner \in Threads /\ DOMAIN fpc = Threads /\ DOMAIN access = Threads
          BY <1>2, <2>2 DEF HandlerInv, TypesOK, RunnerIsInside
        <4>2. CASE Fault(t) \/ Begin(t)
          BY <2>2, <4>1, <4>2 DEF Fault, Begin, GoTo
        <4>3. CASE Handle(t)
          BY <2>2, <4>1, <4>3 DEF Handle, Compare, Count, GiveBack, Lock, StopSpinning, Mark, Open,
                                  Succeed, FaultAgain, GoTo
        <4> QED BY <4>2, <4>3
      <3> QED BY <1>2, <2>2, <3>1 DEF RunnerReads
    <2>3. CASE t = runner /\ runner' = runner /\ ~Begin(t)
      <3>1. fpc[t] # "run" /\ ~Fault(t) /\ Handle(t)
        BY <1>2, <2>3 DEF HandlerInv, RunnerIsInside, Fault
      <3>2. DOMAIN fpc = Threads /\ DOMAIN access = Threads
        BY DEF HandlerInv, TypesOK
      <3>3. CASE Succeed(t)
        BY <1>2, <2>3, <3>2, <3>3 DEF Succeed, GoTo
      <3>4. CASE ~Succeed(t)
        <4>1. fpc[t] # "interval" /\ access' = access
          BY <3>1, <3>4 DEF Handle, Compare, Count, GiveBack, Lock, StopSpinning, Mark, Open, FaultAgain
        <4> QED BY <1>2, <2>3, <4>1 DEF RunnerReads
      <3> QED BY <3>3, <3>4
    <2>4. ~Begin(t) => runner' = runner
      BY DEF Handle, Compare, Count, GiveBack, Lock, StopSpinning, Mark, Open,
             Succeed, FaultAgain, Fault, interval_vars
    <2> QED BY <2>1, <2>2, <2>3, <2>4
  <1>3. looking' = looking
    BY DEF Handle, Compare, Count, GiveBack, Lock, StopSpinning, Mark, Open, Succeed, FaultAgain,
           Fault, Begin, interval_vars
  <1>4. ASSUME NEW p \in looking, Permits(perm[p], "r")
        PROVE  Permits(perm'[p], "r")
    <2>1. p \in Pages /\ perm \in [Pages -> {"none", "r", "rw"}]
      BY DEF RunnerReads, HandlerInv, TypesOK
    <2>2. CASE perm' = perm
      BY <1>4, <2>2
    <2>3. CASE GiveBack(t)
      BY <1>4, <2>1, <2>3 DEF GiveBack, Permits
    <2>4. CASE Open(t)
      <3>1. perm' = [perm EXCEPT ![PageOf(access[t][1])] = Granted(@, access[t][2])]
        BY <2>4 DEF Open
      <3>2. \A q \in {"r", "rw"}, kind \in {"w", "r"} : Permits(Granted(q, kind), "r")
        BY ConfigsAssumption DEF Granted, Permits, HandlerInv, TypesOK
      <3>3. access[t][2] \in {"w", "r"}
        BY <2>4 DEF Open, HandlerInv, TypesOK, HandlerLabels
      <3>4. perm[p] \in {"r", "rw"}
        BY <1>4 DEF Permits
      <3> QED BY <1>4, <2>1, <3>1, <3>2, <3>3, <3>4
    <2> QED BY <2>2, <2>3, <2>4
        DEF Handle, Compare, Count, Lock, StopSpinning, Mark, Succeed, FaultAgain, Fault, Begin, page_vars
  <1> QED BY <1>1, <1>2, <1>3, <1>4 DEF RunnerReads

LEMMA RunnerReadsInterval ==
  ASSUME HandlerInv, RunnerReads, IntervalStep, UNCHANGED config
  PROVE  RunnerReads'
  <1>1. ReadsClosed' <=> ReadsClosed
    BY DEF ReadsClosed, Test
  <1>2. ASSUME NEW o \in Objects, LookAt(o)
        PROVE  RunnerReads'
    <2>1. SetPermissions(o, Test.opens) /\ looking' = IF Test.reads THEN Protected(o) ELSE {}
      BY <1>2 DEF LookAt
    <2>2. Protected(o) \subseteq Pages
      BY DEF Pages, ObjectPages
    <2>3. UNCHANGED <<fpc, access, runner>>
      BY <1>2 DEF LookAt, handler_vars
    <2>4. CASE Test.reads /\ ~ReadsClosed
      <3>1. Test.opens \in {"rw", "r"}
        BY <2>4, TestPermissions DEF ReadsClosed, HandlerInv, TypesOK
      <3>2. \A q \in Protected(o) : perm'[q] = Test.opens
        BY <2>1, <2>2, <3>1 DEF SetPermissions
      <3> QED BY <1>1, <2>1, <2>2, <2>3, <2>4, <3>1, <3>2 DEF RunnerReads, Permits
    <2>5. CASE ReadsClosed
      BY <1>1, <2>1, <2>2, <2>5 DEF RunnerReads
    <2>6. CASE ~Test.reads
      BY <1>1, <2>1, <2>3, <2>6 DEF RunnerReads
    <2>7. Test.reads \in BOOLEAN
      BY TestPermissions DEF HandlerInv, TypesOK
    <2> QED BY <2>4, <2>5, <2>6, <2>7
  <1>3. ASSUME NEW o \in Objects, Close(o)
        PROVE  RunnerReads'
    BY <1>1, <1>3 DEF Close, RunnerReads, handler_vars
  <1>4. ASSUME NEW p \in Pages, ReadPage(p)
        PROVE  RunnerReads'
    BY <1>1, <1>4 DEF ReadPage, RunnerReads, handler_vars, page_vars
  <1>5. ASSUME NEW p \in Pages, FaultOnPage(p)
        PROVE  RunnerReads'
    BY <1>1, <1>5 DEF FaultOnPage, RunnerReads, interval_vars
  <1>6. ASSUME NEW p \in Pages, FaultOnHeap(p)
        PROVE  RunnerReads'
    <2>1. /\ p \in config.heap /\ runner \in Threads /\ runner' = runner
          /\ access' = [access EXCEPT ![runner] = <<p * PageSize, "w">>]
          /\ UNCHANGED <<looking, perm>>
      BY <1>6 DEF FaultOnHeap, InInterval, HandlerInv, RunnerIsInside, interval_vars, page_vars
    <2>2. access'[runner] = <<p * PageSize, "w">> /\ PageOf(p * PageSize) = p
      BY <2>1, PageNumbers DEF HandlerInv, TypesOK
    <2>3. PageOf(access'[runner'][1]) \in config.heap
      BY <2>1, <2>2
    <2> QED BY <1>1, <2>1, <2>3 DEF RunnerReads
  <1>7. CASE DeliverWrites \/ DeliverReads \/ Clear
    BY <1>1, <1>7 DEF DeliverWrites, DeliverReads, Deliver, Clear, RunnerReads, handler_vars
  <1>8. CASE End
    BY <1>1, <1>8 DEF End, RunnerReads, page_vars
  <1> QED BY <1>2, <1>3, <1>4, <1>5, <1>6, <1>7, <1>8 DEF IntervalStep

\* Whatever the pages, the objects and the allocator: the working thread
\* waits for the handler's lock while the lock's holder waits for it only
\* under a test that reads pages it has closed, or for memory it allocated on
\* a page of an object.
THEOREM DeadlockOnlyOnClosedPages == FaultsSpec => []DeadlockNeedsClosedPages
  <1>1. FaultsInit => ClosedOnObjects /\ RunnerReads
    BY DEF FaultsInit, ClosedOnObjects, RunnerReads, HandlerLabels
  <1>2. ASSUME HandlerInv, ClosedOnObjects, [FaultsNext]_faults_vars
        PROVE  ClosedOnObjects'
    <2>1. CASE UNCHANGED faults_vars
      BY <1>2, <2>1 DEF ClosedOnObjects, faults_vars, handler_vars, page_vars
    <2>2. ASSUME NEW o \in Objects, Track(o) \/ Untrack(o)
          PROVE  ClosedOnObjects'
      BY <1>2, <2>2 DEF Track, Untrack, ClosedOnObjects, handler_vars, page_vars
    <2> QED BY <1>2, <2>1, <2>2, ClosedOnObjectsHandle, ClosedOnObjectsInterval DEF FaultsNext
  <1>3. ASSUME HandlerInv, RunnerReads, [FaultsNext]_faults_vars
        PROVE  RunnerReads'
    <2>1. CASE UNCHANGED faults_vars
      BY <1>3, <2>1 DEF RunnerReads, ReadsClosed, Test, faults_vars, handler_vars, interval_vars, page_vars
    <2>2. ASSUME NEW o \in Objects, Track(o) \/ Untrack(o), UNCHANGED config
          PROVE  RunnerReads'
      BY <1>3, <2>2 DEF Track, Untrack, RunnerReads, ReadsClosed, Test, handler_vars, interval_vars, page_vars
    <2> QED BY <1>3, <2>1, <2>2, RunnerReadsHandle, RunnerReadsInterval DEF FaultsNext
  <1>4. HandlerInv /\ ClosedOnObjects /\ RunnerReads => DeadlockNeedsClosedPages
    <2> SUFFICES ASSUME HandlerInv, ClosedOnObjects, RunnerReads, ~ReadsClosed,
                        runner # NoThread, fpc[runner] = "lock"
                 PROVE  PageOf(access[runner][1]) \in config.heap \cap ObjectPages
      BY DEF DeadlockNeedsClosedPages
    <2>1. runner \in Threads
      BY DEF HandlerInv, RunnerIsInside
    <2> QED BY <2>1 DEF ClosedOnObjects, RunnerReads, HandlerLabels
  <1> QED BY <1>1, <1>2, <1>3, <1>4, HandlerInductive, PTL DEF FaultsSpec

---------------------------------------------------------------------------
(* What is open has been recorded                                          *)

\* A thread about to open a page has recorded its access since the page was
\* closed, or the page was closed in between, or the test opened it.
OpenersRecorded ==
  \A t \in Threads : fpc[t] = "open" =>
    \A p \in Pages : p = PageOf(access[t][1]) =>
      p \in slipped \/ "tracker" \in seen[p] \/ access[t][2] \in seen[p]

OpenedInv == OpenersRecorded /\ OpenedAreRecorded

\* What the handler opens it has recorded.
LEMMA OpenedHandle ==
  ASSUME HandlerInv, OpenedInv, NEW t \in Threads, Handle(t) \/ Fault(t) \/ Begin(t), UNCHANGED config
  PROVE  OpenedInv'
  <1> USE DEF HandlerInv, TypesOK, HandlerLabels, GoTo, OpenedInv, OpenersRecorded, OpenedAreRecorded
  <1>1. CASE GiveBack(t)
    <2>1. /\ perm' = [perm EXCEPT ![PageOf(access[t][1])] = "rw"]
          /\ seen' = [seen EXCEPT ![PageOf(access[t][1])] = {"tracker"}]
          /\ fpc[t] = "lock" /\ fpc' = [fpc EXCEPT ![t] = "retry"]
          /\ UNCHANGED <<access, slipped>>
      BY <1>1 DEF GiveBack
    <2>2. OpenersRecorded'
      BY <2>1
    <2>3. ASSUME NEW p \in Pages \ slipped
          PROVE  /\ perm'[p] # "none" => seen'[p] # {}
                 /\ perm'[p] = "rw" /\ config.guard = "hard" =>
                      seen'[p] \cap {"w", "tracker"} # {}
      <3>1. CASE p = PageOf(access[t][1])
        BY <3>1, <2>1
      <3>2. CASE p # PageOf(access[t][1])
        BY <3>2, <2>1
      <3> QED BY <3>1, <3>2
    <2> QED BY <2>1, <2>2, <2>3
  <1>2. CASE Mark(t)
    <2>1. /\ \/ /\ seen' = [seen EXCEPT ![PageOf(access[t][1])] = @ \cup {access[t][2]}]
                /\ slipped' = slipped
             \/ seen' = seen /\ slipped' = slipped \cup {PageOf(access[t][1])}
          /\ fpc' = [fpc EXCEPT ![t] = "open"] /\ UNCHANGED <<access, perm>>
      BY <1>2 DEF Mark
    <2>2. \A p \in Pages :
            /\ seen[p] \subseteq seen'[p] /\ (p \in slipped => p \in slipped')
            /\ p = PageOf(access[t][1]) => access[t][2] \in seen'[p] \/ p \in slipped'
      BY <2>1
    <2>3. OpenersRecorded'
      BY <2>1, <2>2
    <2> QED BY <2>1, <2>2, <2>3
  <1>3. CASE Open(t)
    <2>1. /\ perm' = [perm EXCEPT ![PageOf(access[t][1])] = Granted(@, access[t][2])]
          /\ fpc[t] = "open" /\ fpc' = [fpc EXCEPT ![t] = "retry"]
          /\ UNCHANGED <<access, seen, slipped>>
      BY <1>3 DEF Open
    <2>2. OpenersRecorded'
      BY <2>1
    <2>3. ASSUME NEW p \in Pages \ slipped
          PROVE  /\ perm'[p] # "none" => seen[p] # {}
                 /\ perm'[p] = "rw" /\ config.guard = "hard" => seen[p] \cap {"w", "tracker"} # {}
      <3>1. CASE p # PageOf(access[t][1])
        BY <2>1, <3>1
      <3>2. CASE p = PageOf(access[t][1])
        <4>1. perm'[p] = Granted(perm[p], access[t][2]) /\ access[t][2] \in {"w", "r"}
          BY <2>1, <3>2
        <4>2. "tracker" \in seen[p] \/ access[t][2] \in seen[p]
          BY <2>1, <3>2
        <4>3. config.guard \in {"none", "soft", "hard"}
          BY ConfigsAssumption
        <4>4. config.guard = "hard" /\ access[t][2] = "r" => perm'[p] = "r"
          BY <4>1 DEF Granted
        <4>5. config.guard = "none" => perm'[p] = perm[p]
          BY <4>1 DEF Granted
        <4> QED BY <4>1, <4>2, <4>3, <4>4, <4>5
      <3> QED BY <3>1, <3>2
    <2> QED BY <2>1, <2>2, <2>3
  <1>4. ASSUME ~GiveBack(t), ~Mark(t), ~Open(t)
        PROVE  /\ UNCHANGED <<perm, seen, slipped>>
               /\ \A u \in Threads : fpc'[u] = "open" => fpc[u] = "open" /\ access'[u] = access[u]
    BY <1>4 DEF Handle, Compare, Count, Lock, StopSpinning, Succeed, FaultAgain, Fault, Begin, page_vars
  <1> QED BY <1>1, <1>2, <1>3, <1>4

\* Setting permissions starts the record of a page anew.
LEMMA OpenedSet ==
  ASSUME HandlerInv, OpenedInv, NEW o \in Objects, NEW p \in {"rw", "r", "none", "as is"},
         SetPermissions(o, p), UNCHANGED <<fpc, access, config>>
  PROVE  OpenedInv'
  <1> USE DEF HandlerInv, TypesOK, OpenedInv, OpenersRecorded, OpenedAreRecorded
  <1>1. CASE p = "as is"
    BY <1>1 DEF SetPermissions
  <1>2. CASE p # "as is"
    <2>1. /\ perm' = [q \in Pages |-> IF q \in Protected(o) THEN p ELSE perm[q]]
          /\ seen' = [q \in Pages |-> IF q \notin Protected(o) THEN seen[q]
                                      ELSE IF p = "none" THEN {} ELSE {"tracker"}]
          /\ slipped' = (slipped \ Protected(o)) \cup
               {q \in Protected(o) : p = "none" /\ \E t \in Threads : fpc[t] = "open" /\ PageOf(access[t][1]) = q}
      BY <1>2 DEF SetPermissions
    <2>2. ASSUME NEW t \in Threads, fpc[t] = "open", NEW q \in Pages, q = PageOf(access[t][1])
          PROVE  q \in slipped' \/ "tracker" \in seen'[q] \/ access[t][2] \in seen'[q]
      BY <2>1, <2>2
    <2>3. ASSUME NEW q \in Pages \ slipped'
          PROVE  /\ perm'[q] # "none" => seen'[q] # {}
                 /\ perm'[q] = "rw" /\ config.guard = "hard" => seen'[q] \cap {"w", "tracker"} # {}
      <3>1. CASE q \in Protected(o)
        BY <2>1, <3>1
      <3>2. CASE q \notin Protected(o)
        BY <2>1, <3>2
      <3> QED BY <3>1, <3>2
    <2> QED BY <2>2, <2>3
  <1> QED BY <1>1, <1>2

LEMMA OpenedInterval ==
  ASSUME HandlerInv, OpenedInv, IntervalStep, UNCHANGED config
  PROVE  OpenedInv'
  <1>1. ASSUME NEW o \in Objects, LookAt(o)
        PROVE  OpenedInv'
    <2>1. SetPermissions(o, Test.opens) /\ UNCHANGED <<fpc, access>>
      BY <1>1 DEF LookAt, handler_vars
    <2>2. Test.opens \in {"rw", "r", "none", "as is"}
      BY TestPermissions DEF HandlerInv, TypesOK
    <2> QED BY <2>1, <2>2, OpenedSet
  <1>2. ASSUME NEW o \in Objects, Close(o)
        PROVE  OpenedInv'
    <2>1. SetPermissions(o, Test.closes) /\ UNCHANGED <<fpc, access>>
      BY <1>2 DEF Close, handler_vars
    <2>2. Test.closes \in {"rw", "r", "none", "as is"}
      BY TestPermissions DEF HandlerInv, TypesOK
    <2> QED BY <2>1, <2>2, OpenedSet
  <1>3. ASSUME ~\E o \in Objects : LookAt(o) \/ Close(o)
        PROVE  /\ UNCHANGED <<perm, seen, slipped>>
               /\ \A u \in Threads : fpc'[u] = "open" => fpc[u] = "open" /\ access'[u] = access[u]
    BY <1>3 DEF IntervalStep, DeliverWrites, DeliverReads, Deliver, Clear, ReadPage, FaultOnPage, FaultOnHeap, End, GoTo,
                HandlerInv, TypesOK, handler_vars, page_vars
  <1> QED BY <1>1, <1>2, <1>3 DEF OpenedInv, OpenersRecorded, OpenedAreRecorded

\* However faults and intervals interleave, and whatever the size and the
\* alignment of objects: no page is open to the program without a record of
\* an access to it, unless it slipped through.
THEOREM OpenPagesAreRecorded == FaultsSpec => []OpenedAreRecorded
  <1>1. FaultsInit => OpenedInv
    BY DEF FaultsInit, OpenedInv, OpenersRecorded, OpenedAreRecorded
  <1>2. ASSUME HandlerInv, OpenedInv, [FaultsNext]_faults_vars
        PROVE  OpenedInv'
    <2>1. CASE UNCHANGED faults_vars
      BY <1>2, <2>1 DEF OpenedInv, OpenersRecorded, OpenedAreRecorded, faults_vars, handler_vars, page_vars
    <2>2. ASSUME NEW o \in Objects, Track(o) \/ Untrack(o), UNCHANGED config
          PROVE  OpenedInv'
      BY <1>2, <2>2 DEF Track, Untrack, OpenedInv, OpenersRecorded, OpenedAreRecorded, handler_vars, page_vars
    <2> QED BY <1>2, <2>1, <2>2, OpenedHandle, OpenedInterval DEF FaultsNext
  <1>3. OpenedInv => OpenedAreRecorded
    BY DEF OpenedInv
  <1> QED BY <1>1, <1>2, <1>3, HandlerInductive, PTL DEF FaultsSpec
=============================================================================
