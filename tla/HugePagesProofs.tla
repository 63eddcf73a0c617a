-------------------------- MODULE HugePagesProofs --------------------------
(***************************************************************************)
(* Proofs about AllTest's live set of huge pages when a single thread maps *)
(* and releases blocks, and no two blocks share a slot: for any number of  *)
(* threads and blocks, and an interval that walks the set at any moment,   *)
(* the set and its counter are exact between hooks, a block that is read   *)
(* after it is gone was being released meanwhile, and what the walks miss  *)
(* and do not age is bounded by the hooks that overlapped them.  With two  *)
(* mapping threads the counter is not exact (README, section 5).           *)
(***************************************************************************)
EXTENDS HugePages, FiniteSetTheorems, TLAPS

\* One thread maps, and no two blocks hash to the same slot.
OneMapper ==
  /\ \A t, u \in Mappers : t = u
  /\ \A b, c \in Blocks : Home[b] = Home[c] => b = c

\* The blocks the set has.
Kept == {b \in Blocks : liveset.key[Home[b]] = b}

Walks == [slot : Nat, met : Nat, page : Blocks \cup {NoBlock}]

\* The types the arguments rest on.
HugeTypes ==
  /\ mapped \subseteq Blocks
  /\ liveset \in [key     : [Set!Slots -> Blocks \cup {NoBlock}],
                  value   : [Set!Slots -> Int],
                  entries : Nat]
  /\ pc \in [Threads -> {"run"} \cup Inserting \cup Removing \cup Walking]
  /\ block \in [Threads -> Blocks \cup {NoBlock}]
  /\ loaded \in [Threads -> Nat]
  /\ walk \in Walks
  /\ released \in BOOLEAN /\ crashed \in BOOLEAN

AtHome == \A i \in Set!Slots : liveset.key[i] \in Blocks => Home[liveset.key[i]] = i

\* Only the mapper is in a hook, about a block that is mapped.
HooksOwn ==
  \A t \in Threads : IF InHook(t) THEN t \in Mappers /\ block[t] \in mapped
                                  ELSE block[t] = NoBlock

\* Where the hook's block is mapped and not in the set.
Outside == {"insert", "load_down", "store_down", "unmap"}

\* The set has the other mapped blocks.
KeptExact ==
  \A b \in Blocks :
    b \in Kept <=> b \in mapped /\ \A t \in Threads : block[t] = b => pc[t] \notin Outside

Counting(labels) == \E t \in Threads : pc[t] \in labels

\* The counter is one short or one ahead while a hook is counting.
CounterLags ==
  /\ Counting({"load_up", "store_up"}) => Cardinality(Kept) = liveset.entries + 1
  /\ Counting({"load_down", "store_down"}) => Cardinality(Kept) = liveset.entries - 1
  /\ ~Counting({"load_up", "store_up", "load_down", "store_down"}) =>
       Cardinality(Kept) = liveset.entries
  /\ \A t \in Threads : pc[t] \in {"store_up", "store_down"} => loaded[t] = liveset.entries

OneWalk == \A t, u \in Threads : pc[t] \in Walking /\ pc[u] \in Walking => t = u

\* What the interval knows of a release, and of the block it is to read.
ReleasesSeen ==
  /\ Interval /\ Counting(Removing) => released
  /\ \A t \in Threads : pc[t] = "read" => walk.page \in mapped \/ released
  /\ CrashesNeedRelease

HugeInv ==
  /\ HugeTypes /\ ~aborted
  /\ AtHome /\ HooksOwn /\ KeptExact /\ CounterLags /\ OneWalk /\ ReleasesSeen
---------------------------------------------------------------------------
(* The table                                                               *)

LEMMA WalkTypes ==
  ASSUME NEW w \in Walks
  PROVE  /\ w.slot \in Nat /\ w.met \in Nat
         /\ [w EXCEPT !.slot = @ + 1] \in Walks
         /\ [w EXCEPT !.slot = @ + 1, !.met = @ + 1] \in Walks
         /\ [w EXCEPT !.page = NoBlock] \in Walks
         /\ [slot |-> 0, met |-> 0, page |-> NoBlock] \in Walks
         /\ \A b \in Blocks : [slot |-> w.slot + 1, met |-> w.met + 1, page |-> b] \in Walks
  <1>1. w.slot + 1 \in Nat /\ w.met + 1 \in Nat /\ w.slot \in Nat /\ w.met \in Nat
    BY DEF Walks
  <1>2. [w EXCEPT !.slot = @ + 1] \in Walks
    BY <1>1 DEF Walks
  <1>3. [w EXCEPT !.slot = @ + 1, !.met = @ + 1] \in Walks
    <2>1. [w EXCEPT !.slot = @ + 1, !.met = @ + 1] = [[w EXCEPT !.slot = @ + 1] EXCEPT !.met = @ + 1]
      OBVIOUS
    <2>2. [w EXCEPT !.slot = @ + 1].met = w.met
      BY DEF Walks
    <2> QED BY <1>1, <1>2, <2>1, <2>2 DEF Walks
  <1>4. [w EXCEPT !.page = NoBlock] \in Walks
    BY DEF Walks
  <1> QED BY <1>1, <1>2, <1>3, <1>4 DEF Walks

LEMMA HugeConstants ==
  /\ Capacity \in Nat /\ Capacity > 0
  /\ Set!Slots = 0 .. Capacity - 1
  /\ \A b \in Blocks : Home[b] \in Set!Slots /\ b # NoBlock
  BY CapacityAssumption, HomeAssumption, NoBlockAssumption DEF Set!Slots

LEMMA SlotInTable ==
  ASSUME HugeTypes, walk.slot < Capacity
  PROVE  walk.slot \in Set!Slots
  <1>1. walk.slot \in Nat
    BY WalkTypes DEF HugeTypes
  <1> QED BY <1>1, HugeConstants

\* Blocks with slots of their own are no more than there are slots.
LEMMA FewBlocks ==
  ASSUME OneMapper, NEW K \in SUBSET Blocks
  PROVE  IsFiniteSet(K) /\ Cardinality(K) \in Nat /\ Cardinality(K) <= Capacity
  <1> DEFINE f == [b \in K |-> Home[b]]
  <1>1. f \in Injection(K, 0 .. Capacity - 1)
    BY HugeConstants DEF OneMapper, Injection, IsInjective
  <1>2. IsFiniteSet(0 .. Capacity - 1) /\ Cardinality(0 .. Capacity - 1) = Capacity
    BY HugeConstants, FS_Interval
  <1>3. IsFiniteSet(K) /\ Cardinality(K) <= Capacity
    BY <1>1, <1>2, FS_Injection
  <1> QED BY <1>3, FS_CardinalityType

LEMMA OneMore ==
  ASSUME OneMapper, NEW K \in SUBSET Blocks, NEW b \in Blocks \ K
  PROVE  Cardinality(K \cup {b}) = Cardinality(K) + 1 /\ Cardinality(K) < Capacity
  <1>1. IsFiniteSet(K) /\ Cardinality(K) \in Nat /\ Cardinality(K \cup {b}) <= Capacity
    BY FewBlocks
  <1>2. Cardinality(K \cup {b}) = Cardinality(K) + 1
    BY <1>1, FS_AddElement
  <1> QED BY <1>1, <1>2, HugeConstants

LEMMA OneLess ==
  ASSUME OneMapper, NEW K \in SUBSET Blocks, NEW b \in K
  PROVE  Cardinality(K \ {b}) = Cardinality(K) - 1
  BY FewBlocks, FS_RemoveElement

\* A probe for a block that is at home, or whose home is free, ends there.
LEMMA ProbeIsHome ==
  ASSUME NEW b \in Blocks, NEW bound \in Nat, liveset.key[Home[b]] \in {NoBlock, b}
  PROVE  Set!Distance(liveset, b, bound) = 0 /\ Set!At(b, 0) = Home[b]
  <1>1. Set!At(b, 0) = Home[b]
    BY HugeConstants DEF Set!At
  <1>2. Set!StopsAt(liveset, b, 0)
    BY <1>1 DEF Set!StopsAt
  <1>3. 0 \in 0 .. bound /\ 0 .. 0 - 1 = {}
    OBVIOUS
  <1>4. \A d \in 0 .. bound : (\A e \in 0 .. d - 1 : ~Set!StopsAt(liveset, b, e)) => d = 0
    BY <1>2
  <1>5. Set!Distance(liveset, b, bound) = 0
    BY <1>2, <1>3, <1>4 DEF Set!Distance
  <1> QED BY <1>1, <1>5

\* insert() of a new block writes its slot.
LEMMA InsertIsHome ==
  ASSUME OneMapper, HugeTypes, AtHome, NEW b \in Blocks, b \notin Kept,
         liveset.entries < Capacity
  PROVE  /\ ~Set!Full(liveset) /\ ~Set!Has(liveset, b)
         /\ Set!Put(liveset, b, 0) = [key     |-> [liveset.key EXCEPT ![Home[b]] = b],
                                      value   |-> [liveset.value EXCEPT ![Home[b]] = 0],
                                      entries |-> liveset.entries + 1]
  <1>1. liveset.key[Home[b]] = NoBlock
    BY HugeConstants DEF HugeTypes, AtHome, OneMapper, Kept
  <1>2. liveset.entries * 2 \in Nat
    BY DEF HugeTypes
  <1>3. Set!Distance(liveset, b, liveset.entries * 2) = 0 /\ Set!At(b, 0) = Home[b]
    BY <1>1, <1>2, ProbeIsHome
  <1>4. ~Set!Has(liveset, b)
    BY <1>1, <1>3, HugeConstants DEF Set!Has, Set!FoundWithin, Set!ProbeBound
  <1>5. ~Set!Full(liveset)
    BY HugeConstants DEF Set!Full, HugeTypes
  <1> QED BY <1>3, <1>4, <1>5 DEF Set!Put, Set!Occupy, Set!ProbeSlot, Set!ProbeBound

\* remove() of a block in the set frees its slot.
LEMMA RemoveIsHome ==
  ASSUME HugeTypes, NEW b \in Blocks, b \in Kept
  PROVE  Set!RemoveMap(liveset, b) = [key     |-> [liveset.key EXCEPT ![Home[b]] = NoBlock],
                                   value   |-> liveset.value,
                                   entries |-> liveset.entries - 1]
  <1>1. Set!Distance(liveset, b, Capacity) = 0 /\ Set!At(b, 0) = Home[b]
    BY HugeConstants, ProbeIsHome DEF Kept
  <1>2. Set!FoundWithin(liveset, b, Capacity)
    BY <1>1, HugeConstants DEF Set!FoundWithin, Kept
  <1> QED BY <1>1, <1>2 DEF Set!RemoveMap, HugeTypes
---------------------------------------------------------------------------
(* What a hook leaves alone of the interval, and an interval of the hooks  *)

\* The part of the invariant that the hooks can disturb.
HooksInv == AtHome /\ HooksOwn /\ KeptExact /\ CounterLags

\* A walk moves a thread that is in no hook to where it is in none.
LEMMA WalkKeepsHooks ==
  ASSUME HugeTypes, HooksInv, NEW t \in Threads, ~InHook(t),
         NEW label \in {"run"} \cup Walking, pc' = [pc EXCEPT ![t] = label],
         mapped' = mapped, block' = block, loaded' = loaded,
         liveset'.key = liveset.key, liveset'.entries = liveset.entries
  PROVE  HooksInv'
  <1>1. /\ \A u \in Threads : u # t => pc'[u] = pc[u]
        /\ pc'[t] = label /\ label \notin Inserting \cup Removing
        /\ pc[t] \notin Inserting \cup Removing
    BY DEF HugeTypes, InHook, Inserting, Removing, Walking
  <1>2. \A u \in Threads : InHook(u)' <=> InHook(u)
    BY <1>1 DEF InHook
  <1>3. Kept' = Kept
    BY DEF Kept
  <1>4. AtHome'
    BY DEF HooksInv, AtHome
  <1>5. HooksOwn'
    BY <1>2 DEF HooksInv, HooksOwn
  <1>6. KeptExact'
    <2>1. \A u \in Threads : pc'[u] \in Outside <=> pc[u] \in Outside
      BY <1>1 DEF Outside, Inserting, Removing
    <2> QED BY <1>3, <2>1 DEF HooksInv, KeptExact
  <1>7. CounterLags'
    <2>1. \A u \in Threads : \A l \in {"load_up", "store_up", "load_down", "store_down"} :
            pc'[u] = l <=> pc[u] = l
      BY <1>1 DEF Inserting, Removing
    <2> QED BY <1>3, <2>1 DEF HooksInv, CounterLags, Counting
  <1> QED BY <1>4, <1>5, <1>6, <1>7 DEF HooksInv

\* The mapper is the only thread in a hook.
LEMMA OnlyMapper ==
  ASSUME OneMapper, HooksOwn, NEW t \in Threads, t \in Mappers
  PROVE  \A u \in Threads : u # t => ~InHook(u) /\ block[u] = NoBlock
  BY DEF OneMapper, HooksOwn

\* A step of the mapper's hook leaves the walk alone.
LEMMA HookKeepsWalk ==
  ASSUME HugeTypes, OneWalk, NEW t \in Threads, pc[t] \notin Walking,
         NEW label, label \notin Walking, pc' = [pc EXCEPT ![t] = label]
  PROVE  OneWalk' /\ Interval' = Interval
         /\ \A u \in Threads : pc'[u] = "read" <=> pc[u] = "read"
  <1>1. \A u \in Threads : pc'[u] \in Walking <=> pc[u] \in Walking
    BY DEF HugeTypes
  <1>2. \A u \in Threads : pc'[u] = "read" <=> pc[u] = "read"
    BY DEF HugeTypes, Walking
  <1>3. Interval' <=> Interval
    BY <1>1 DEF Interval
  <1> QED BY <1>1, <1>2, <1>3 DEF OneWalk, Interval

LEMMA Initial == OneMapper /\ Init => HugeInv
  <1> SUFFICES ASSUME OneMapper, Init PROVE HugeInv
    OBVIOUS
  <1> USE HugeConstants DEF Init, Set!EmptyMap
  <1>1. liveset.key = [i \in Set!Slots |-> NoBlock] /\ liveset.entries = 0
    OBVIOUS
  <1>2. Kept = {} /\ Cardinality(Kept) = 0
    BY <1>1, FS_EmptySet DEF Kept
  <1>3. HugeTypes /\ ~aborted
    <2>1. liveset \in [key     : [Set!Slots -> Blocks \cup {NoBlock}],
                       value   : [Set!Slots -> Int],
                       entries : Nat]
      OBVIOUS
    <2>2. walk \in Walks
      BY DEF Walks
    <2>3. pc \in [Threads -> {"run"} \cup Inserting \cup Removing \cup Walking]
      OBVIOUS
    <2>4. released \in BOOLEAN /\ crashed \in BOOLEAN /\ ~aborted
      BY Zenon
    <2> QED BY <2>1, <2>2, <2>3, <2>4 DEF HugeTypes
  <1>4. AtHome /\ HooksOwn /\ KeptExact
    BY <1>1, <1>2, NoBlockAssumption DEF AtHome, HooksOwn, KeptExact, InHook, Inserting, Removing
  <1>5. CounterLags
    BY <1>1, <1>2 DEF CounterLags, Counting
  <1>6. OneWalk /\ ReleasesSeen
    BY DEF OneWalk, ReleasesSeen, CrashesNeedRelease, Interval, Counting, Walking, Removing
  <1> QED BY <1>3, <1>4, <1>5, <1>6 DEF HugeInv

---------------------------------------------------------------------------
(* The hooks                                                               *)

LEMMA MapBlockKeeps ==
  ASSUME OneMapper, HugeInv, NEW t \in Threads, MapBlock(t)
  PROVE  HugeInv'
  <1> PICK b \in Blocks \ mapped : /\ StartHook(t, b, "insert")
                                   /\ mapped' = mapped \cup {b}
                                   /\ UNCHANGED <<liveset, loaded, walk, crashed, aborted, released>>
    BY DEF MapBlock, walk_vars
  <1>1. /\ t \in Mappers /\ pc[t] = "run" /\ pc' = [pc EXCEPT ![t] = "insert"]
        /\ block' = [block EXCEPT ![t] = b]
    BY DEF StartHook, Goto
  <1>2. \A u \in Threads : u # t => ~InHook(u) /\ block[u] = NoBlock /\ pc'[u] = pc[u] /\ block'[u] = block[u]
    BY <1>1, OnlyMapper DEF HugeInv, HugeTypes
  <1>3. pc'[t] = "insert" /\ block'[t] = b /\ block[t] = NoBlock
    BY <1>1 DEF HugeInv, HugeTypes, HooksOwn, InHook, Inserting, Removing
  <1>4. HugeTypes' /\ ~aborted'
    BY <1>1 DEF HugeInv, HugeTypes, Inserting
  <1>5. AtHome' /\ Kept' = Kept
    BY DEF HugeInv, AtHome, Kept
  <1>6. HooksOwn'
    BY <1>1, <1>2, <1>3 DEF HugeInv, HooksOwn, InHook, Inserting
  <1>7. KeptExact'
    <2>1. ASSUME NEW c \in Blocks
          PROVE  c \in Kept' <=> c \in mapped' /\ \A u \in Threads : block'[u] = c => pc'[u] \notin Outside
      <3>1. CASE c = b
        BY <1>3, <1>5, <3>1 DEF HugeInv, KeptExact, Outside
      <3>2. CASE c # b
        BY <1>2, <1>3, <1>5, <3>2, HugeConstants DEF HugeInv, KeptExact
      <3> QED BY <3>1, <3>2
    <2> QED BY <2>1 DEF KeptExact
  <1>8. CounterLags'
    BY <1>1, <1>2, <1>3, <1>5 DEF HugeInv, CounterLags, Counting
  <1>9. OneWalk' /\ Interval' = Interval /\ \A u \in Threads : pc'[u] = "read" <=> pc[u] = "read"
    BY <1>1, HookKeepsWalk DEF HugeInv, Walking
  <1>10. ReleasesSeen'
    <2>1. Counting(Removing)' => Counting(Removing)
      BY <1>2, <1>3 DEF Counting, Removing
    <2> QED BY <1>9, <2>1 DEF HugeInv, ReleasesSeen, CrashesNeedRelease
  <1> QED BY <1>4, <1>5, <1>6, <1>7, <1>8, <1>9, <1>10 DEF HugeInv

LEMMA ReleaseBlockKeeps ==
  ASSUME OneMapper, HugeInv, NEW t \in Threads, ReleaseBlock(t)
  PROVE  HugeInv'
  <1> PICK b \in Live : /\ StartHook(t, b, "remove")
                        /\ released' = (released \/ Interval)
                        /\ UNCHANGED <<mapped, liveset, loaded, walk, crashed, aborted>>
    BY DEF ReleaseBlock, walk_vars
  <1>1. /\ t \in Mappers /\ pc[t] = "run" /\ pc' = [pc EXCEPT ![t] = "remove"]
        /\ block' = [block EXCEPT ![t] = b]
        /\ b \in mapped /\ b \in Blocks
    BY DEF StartHook, Goto, Live, HugeInv, HugeTypes
  <1>2. \A u \in Threads : u # t => ~InHook(u) /\ block[u] = NoBlock /\ pc'[u] = pc[u] /\ block'[u] = block[u]
    BY <1>1, OnlyMapper DEF HugeInv, HugeTypes
  <1>3. pc'[t] = "remove" /\ block'[t] = b /\ block[t] = NoBlock
    BY <1>1 DEF HugeInv, HugeTypes, HooksOwn, InHook, Inserting, Removing
  <1>4. HugeTypes' /\ ~aborted'
    BY <1>1 DEF HugeInv, HugeTypes, Removing, Interval
  <1>5. AtHome' /\ Kept' = Kept
    BY DEF HugeInv, AtHome, Kept
  <1>6. HooksOwn'
    BY <1>1, <1>2, <1>3 DEF HugeInv, HooksOwn, InHook, Removing
  <1>7. KeptExact'
    BY <1>2, <1>3, <1>5, HugeConstants DEF HugeInv, KeptExact, Outside
  <1>8. CounterLags'
    BY <1>1, <1>2, <1>3, <1>5 DEF HugeInv, CounterLags, Counting
  <1>9. OneWalk' /\ Interval' = Interval /\ \A u \in Threads : pc'[u] = "read" <=> pc[u] = "read"
    BY <1>1, HookKeepsWalk DEF HugeInv, Walking
  <1>10. ReleasesSeen'
    BY <1>9 DEF HugeInv, HugeTypes, ReleasesSeen, CrashesNeedRelease, Interval
  <1> QED BY <1>4, <1>5, <1>6, <1>7, <1>8, <1>9, <1>10 DEF HugeInv

\* Before the mapper inserts, the counter is exact and there is room.
LEMMA InsertHasRoom ==
  ASSUME OneMapper, HugeInv, NEW t \in Threads, pc[t] = "insert"
  PROVE  /\ t \in Mappers /\ block[t] \in mapped /\ block[t] \in Blocks /\ block[t] \notin Kept
         /\ Cardinality(Kept) = liveset.entries /\ liveset.entries < Capacity
  <1>1. t \in Mappers /\ block[t] \in mapped /\ block[t] \in Blocks
    BY DEF HugeInv, HugeTypes, HooksOwn, InHook, Inserting
  <1>2. block[t] \notin Kept
    BY <1>1 DEF HugeInv, KeptExact, Outside
  <1>3. ~Counting({"load_up", "store_up", "load_down", "store_down"})
    BY <1>1, OnlyMapper DEF HugeInv, Counting, InHook, Inserting, Removing
  <1>4. Cardinality(Kept) = liveset.entries
    BY <1>3 DEF HugeInv, CounterLags
  <1>5. Kept \in SUBSET Blocks
    BY DEF Kept
  <1> QED BY <1>1, <1>2, <1>4, <1>5, OneMore

LEMMA InsertKeeps ==
  ASSUME OneMapper, HugeInv, NEW t \in Threads, Insert(t)
  PROVE  HugeInv'
  <1> DEFINE b == block[t]
  <1>1. pc[t] = "insert" /\ UNCHANGED <<mapped, loaded, walk, crashed, released>>
    BY DEF Insert, Step, walk_vars, history
  <1>2. /\ t \in Mappers /\ b \in mapped /\ b \in Blocks /\ b \notin Kept
        /\ Cardinality(Kept) = liveset.entries /\ liveset.entries < Capacity
    BY <1>1, InsertHasRoom
  <1>3. Sane
    BY <1>2, HugeConstants DEF Sane, HugeInv, HugeTypes
  <1>4. /\ ~Set!Full(liveset) /\ ~Set!Has(liveset, b)
        /\ Set!Put(liveset, b, 0) = [key     |-> [liveset.key EXCEPT ![Home[b]] = b],
                                     value   |-> [liveset.value EXCEPT ![Home[b]] = 0],
                                     entries |-> liveset.entries + 1]
    BY <1>2, InsertIsHome DEF HugeInv
  <1>5. /\ liveset' = [key     |-> [liveset.key EXCEPT ![Home[b]] = b],
                       value   |-> [liveset.value EXCEPT ![Home[b]] = 0],
                       entries |-> liveset.entries]
        /\ pc' = [pc EXCEPT ![t] = "load_up"] /\ block' = block /\ ~aborted'
    <2>1. liveset' = [Set!Put(liveset, b, 0) EXCEPT !.entries = liveset.entries]
      BY <1>3, <1>4, Zenon DEF Insert
    <2>2. pc' = [pc EXCEPT ![t] = "load_up"] /\ block' = block /\ ~aborted'
      BY <1>3, <1>4, Zenon DEF Insert, Goto
    <2> QED BY <1>4, <2>1, <2>2
  <1>6. \A u \in Threads : u # t => ~InHook(u) /\ block[u] = NoBlock /\ pc'[u] = pc[u]
    BY <1>2, <1>5, OnlyMapper DEF HugeInv, HugeTypes
  <1>7. pc'[t] = "load_up"
    BY <1>5 DEF HugeInv, HugeTypes
  <1>8. HugeTypes'
    BY <1>1, <1>2, <1>5, HugeConstants DEF HugeInv, HugeTypes, Inserting
  <1>9. AtHome' /\ Kept' = Kept \cup {b}
    BY <1>2, <1>5, HugeConstants DEF HugeInv, HugeTypes, AtHome, Kept, OneMapper
  <1>10. HooksOwn'
    BY <1>1, <1>2, <1>5, <1>6, <1>7 DEF HugeInv, HooksOwn, InHook, Inserting
  <1>11. KeptExact'
    BY <1>1, <1>2, <1>5, <1>6, <1>7, <1>9, HugeConstants DEF HugeInv, KeptExact, Outside
  <1>12. CounterLags'
    <2>1. Cardinality(Kept') = Cardinality(Kept) + 1
      BY <1>2, <1>9, OneMore DEF Kept
    <2>2. liveset'.entries = liveset.entries
      BY <1>5
    <2>3. ~Counting({"load_down", "store_down"})' /\ \A u \in Threads : pc'[u] \notin {"store_up", "store_down"}
      BY <1>6, <1>7 DEF Counting, InHook, Inserting, Removing
    <2> QED BY <1>2, <1>7, <2>1, <2>2, <2>3 DEF CounterLags, Counting
  <1>13. OneWalk' /\ Interval' = Interval /\ \A u \in Threads : pc'[u] = "read" <=> pc[u] = "read"
    BY <1>1, <1>5, HookKeepsWalk DEF HugeInv, Walking
  <1>14. ReleasesSeen'
    <2>1. Counting(Removing)' => Counting(Removing)
      BY <1>6, <1>7 DEF Counting, Removing
    <2> QED BY <1>1, <1>13, <2>1 DEF HugeInv, ReleasesSeen, CrashesNeedRelease
  <1> QED BY <1>5, <1>8, <1>9, <1>10, <1>11, <1>12, <1>13, <1>14 DEF HugeInv
\* A block that is being removed was in the set, and is mapped.
LEMMA RemoveFinds ==
  ASSUME OneMapper, HugeInv, NEW t \in Threads, pc[t] = "remove"
  PROVE  /\ t \in Mappers /\ block[t] \in mapped /\ block[t] \in Blocks /\ block[t] \in Kept
         /\ Cardinality(Kept) = liveset.entries
  <1>1. t \in Mappers /\ block[t] \in mapped /\ block[t] \in Blocks
    BY DEF HugeInv, HugeTypes, HooksOwn, InHook, Removing
  <1>2. \A u \in Threads : u # t => ~InHook(u) /\ block[u] = NoBlock
    BY <1>1, OnlyMapper DEF HugeInv
  <1>3. block[t] \in Kept
    BY <1>1, <1>2, HugeConstants DEF HugeInv, KeptExact, Outside
  <1>4. ~Counting({"load_up", "store_up", "load_down", "store_down"})
    BY <1>2 DEF Counting, InHook, Inserting, Removing
  <1> QED BY <1>1, <1>3, <1>4 DEF HugeInv, CounterLags

LEMMA RemoveKeeps ==
  ASSUME OneMapper, HugeInv, NEW t \in Threads, Remove(t)
  PROVE  HugeInv'
  <1> DEFINE b == block[t]
  <1>1. pc[t] = "remove" /\ UNCHANGED <<mapped, block, loaded, walk, crashed, aborted, released>>
    BY DEF Remove, Step, walk_vars, history
  <1>2. /\ t \in Mappers /\ b \in mapped /\ b \in Blocks /\ b \in Kept
        /\ Cardinality(Kept) = liveset.entries
    BY <1>1, RemoveFinds
  <1>3. Set!RemoveMap(liveset, b) = [key     |-> [liveset.key EXCEPT ![Home[b]] = NoBlock],
                                  value   |-> liveset.value,
                                  entries |-> liveset.entries - 1]
    BY <1>2, RemoveIsHome DEF HugeInv
  <1>4. liveset' = [key     |-> [liveset.key EXCEPT ![Home[b]] = NoBlock],
                    value   |-> liveset.value,
                    entries |-> liveset.entries]
    <2>1. liveset' = [Set!RemoveMap(liveset, b) EXCEPT !.entries = liveset.entries]
      BY DEF Remove
    <2> QED BY <1>3, <2>1
  <1>5. pc' = [pc EXCEPT ![t] = "load_down"]
    <2>1. liveset'.key[Home[b]] = NoBlock /\ liveset.key[Home[b]] = b
      BY <1>2, <1>4, HugeConstants DEF Kept, HugeInv, HugeTypes
    <2>2. liveset' # liveset
      BY <1>2, <2>1, HugeConstants
    <2> QED BY <2>2 DEF Remove, Goto
  <1>6. \A u \in Threads : u # t => ~InHook(u) /\ block[u] = NoBlock /\ pc'[u] = pc[u]
    BY <1>2, <1>5, OnlyMapper DEF HugeInv, HugeTypes
  <1>7. pc'[t] = "load_down"
    BY <1>5 DEF HugeInv, HugeTypes
  <1>8. HugeTypes' /\ ~aborted'
    BY <1>1, <1>2, <1>4, <1>5, HugeConstants DEF HugeInv, HugeTypes, Removing
  <1>9. AtHome' /\ Kept' = Kept \ {b}
    BY <1>2, <1>4, HugeConstants DEF HugeInv, HugeTypes, AtHome, Kept, OneMapper
  <1>10. HooksOwn'
    BY <1>1, <1>2, <1>6, <1>7 DEF HugeInv, HooksOwn, InHook, Removing
  <1>11. KeptExact'
    BY <1>1, <1>2, <1>6, <1>7, <1>9, HugeConstants DEF HugeInv, KeptExact, Outside
  <1>12. CounterLags'
    <2>1. Cardinality(Kept') = Cardinality(Kept) - 1
      BY <1>2, <1>9, OneLess DEF Kept
    <2>2. liveset'.entries = liveset.entries
      BY <1>4
    <2>3. ~Counting({"load_up", "store_up"})' /\ \A u \in Threads : pc'[u] \notin {"store_up", "store_down"}
      BY <1>6, <1>7 DEF Counting, InHook, Inserting, Removing
    <2> QED BY <1>2, <1>7, <2>1, <2>2, <2>3 DEF CounterLags, Counting
  <1>13. OneWalk' /\ Interval' = Interval /\ \A u \in Threads : pc'[u] = "read" <=> pc[u] = "read"
    BY <1>1, <1>5, HookKeepsWalk DEF HugeInv, Walking
  <1>14. ReleasesSeen'
    <2>1. Counting(Removing)' => Counting(Removing)
      BY <1>1, <1>6, <1>7 DEF Counting, Removing
    <2> QED BY <1>1, <1>13, <2>1 DEF HugeInv, ReleasesSeen, CrashesNeedRelease
  <1> QED BY <1>8, <1>9, <1>10, <1>11, <1>12, <1>13, <1>14 DEF HugeInv

LEMMA LoadKeeps ==
  ASSUME OneMapper, HugeInv, NEW t \in Threads, Load(t)
  PROVE  HugeInv'
  <1>1. /\ UNCHANGED <<mapped, liveset, block, walk, crashed, aborted, released>>
        /\ loaded' = [loaded EXCEPT ![t] = liveset.entries]
    BY DEF Load, walk_vars, history
  <1>2. PICK label \in {"store_up", "store_down"} :
          /\ pc' = [pc EXCEPT ![t] = label]
          /\ pc[t] = IF label = "store_up" THEN "load_up" ELSE "load_down"
    BY DEF Load, Step, Goto
  <1>3. InHook(t) /\ t \in Mappers
    BY <1>2 DEF InHook, Inserting, Removing, HugeInv, HooksOwn
  <1>4. \A u \in Threads : u # t => ~InHook(u) /\ block[u] = NoBlock /\ pc'[u] = pc[u]
    BY <1>2, <1>3, OnlyMapper DEF HugeInv, HugeTypes
  <1>5. pc'[t] = label /\ loaded'[t] = liveset.entries
    BY <1>1, <1>2 DEF HugeInv, HugeTypes
  <1>6. HugeTypes' /\ ~aborted'
    BY <1>1, <1>2 DEF HugeInv, HugeTypes, Inserting, Removing
  <1>7. AtHome' /\ Kept' = Kept
    BY <1>1 DEF HugeInv, AtHome, Kept
  <1>8. HooksOwn'
    BY <1>1, <1>3, <1>4, <1>5 DEF HugeInv, HooksOwn, InHook, Inserting, Removing
  <1>9. KeptExact'
    BY <1>1, <1>2, <1>4, <1>5, <1>7 DEF HugeInv, KeptExact, Outside
  <1>10. CounterLags'
    <2>1. \A u \in Threads : u # t => pc'[u] \notin {"load_up", "store_up", "load_down", "store_down"}
      BY <1>4 DEF InHook, Inserting, Removing
    <2>2. CASE label = "store_up"
      BY <1>1, <1>2, <1>5, <1>7, <2>1, <2>2 DEF HugeInv, CounterLags, Counting
    <2>3. CASE label = "store_down"
      BY <1>1, <1>2, <1>5, <1>7, <2>1, <2>3 DEF HugeInv, CounterLags, Counting
    <2> QED BY <2>2, <2>3
  <1>11. OneWalk' /\ Interval' = Interval /\ \A u \in Threads : pc'[u] = "read" <=> pc[u] = "read"
    BY <1>2, HookKeepsWalk DEF HugeInv, Walking
  <1>12. ReleasesSeen'
    <2>1. Counting(Removing)' => Counting(Removing)
      BY <1>2, <1>4, <1>5 DEF Counting, Removing
    <2> QED BY <1>1, <1>11, <2>1 DEF HugeInv, ReleasesSeen, CrashesNeedRelease
  <1> QED BY <1>6, <1>7, <1>8, <1>9, <1>10, <1>11, <1>12 DEF HugeInv

\* The wrapped counter is the true one.
LEMMA NoWrap == ASSUME NEW n \in Nat, n <= Capacity PROVE n % Wrap = n
  BY CapacityAssumption

LEMMA StoreUpKeeps ==
  ASSUME OneMapper, HugeInv, NEW t \in Threads, StoreUp(t)
  PROVE  HugeInv'
  <1>1. /\ pc[t] = "store_up" /\ pc' = [pc EXCEPT ![t] = "run"]
        /\ block' = [block EXCEPT ![t] = NoBlock]
        /\ liveset' = [liveset EXCEPT !.entries = (loaded[t] + 1) % Wrap]
        /\ UNCHANGED <<mapped, loaded, walk, crashed, aborted, released>>
    BY DEF StoreUp, Step, Goto, walk_vars, history
  <1>2. InHook(t) /\ t \in Mappers
    BY <1>1 DEF InHook, Inserting, HugeInv, HooksOwn
  <1>3. \A u \in Threads : u # t => ~InHook(u) /\ block[u] = NoBlock /\ pc'[u] = pc[u] /\ block'[u] = NoBlock
    BY <1>1, <1>2, OnlyMapper DEF HugeInv, HugeTypes
  <1>4. pc'[t] = "run" /\ block'[t] = NoBlock
    BY <1>1 DEF HugeInv, HugeTypes
  <1>5. Cardinality(Kept) = liveset.entries + 1 /\ loaded[t] = liveset.entries
    BY <1>1 DEF HugeInv, CounterLags, Counting
  <1>6. liveset'.entries = Cardinality(Kept) /\ liveset'.entries \in Nat
    <2>1. Kept \in SUBSET Blocks
      BY DEF Kept
    <2>2. Cardinality(Kept) \in Nat /\ Cardinality(Kept) % Wrap = Cardinality(Kept)
      BY <2>1, FewBlocks, NoWrap
    <2> QED BY <1>1, <1>5, <2>2 DEF HugeInv, HugeTypes
  <1>7. liveset'.key = liveset.key /\ liveset'.value = liveset.value
    BY <1>1 DEF HugeInv, HugeTypes
  <1>8. HugeTypes' /\ ~aborted'
    <2>1. liveset' \in [key     : [Set!Slots -> Blocks \cup {NoBlock}],
                        value   : [Set!Slots -> Int],
                        entries : Nat]
      <3>1. (loaded[t] + 1) % Wrap \in Nat
        BY <1>1, <1>6 DEF HugeInv, HugeTypes
      <3> QED BY <1>1, <3>1 DEF HugeInv, HugeTypes
    <2> QED BY <1>1, <2>1 DEF HugeInv, HugeTypes
  <1>9. AtHome' /\ Kept' = Kept
    BY <1>7 DEF HugeInv, AtHome, Kept
  <1>10. HooksOwn'
    BY <1>1, <1>3, <1>4 DEF HugeInv, HooksOwn, InHook, Inserting, Removing
  <1>11. KeptExact'
    <2>1. \A b \in Blocks : \A u \in Threads : block'[u] # b
      BY <1>3, <1>4, HugeConstants
    <2>2. \A b \in Blocks : \A u \in Threads : block[u] = b => pc[u] \notin Outside
      BY <1>1, <1>3, HugeConstants DEF Outside
    <2> QED BY <1>1, <1>9, <2>1, <2>2 DEF HugeInv, KeptExact
  <1>12. CounterLags'
    <2>1. \A u \in Threads : pc'[u] \notin {"load_up", "store_up", "load_down", "store_down"}
      BY <1>3, <1>4 DEF InHook, Inserting, Removing
    <2> QED BY <1>6, <1>9, <2>1 DEF CounterLags, Counting
  <1>13. OneWalk' /\ Interval' = Interval /\ \A u \in Threads : pc'[u] = "read" <=> pc[u] = "read"
    BY <1>1, HookKeepsWalk DEF HugeInv, Walking
  <1>14. ReleasesSeen'
    <2>1. Counting(Removing)' => Counting(Removing)
      BY <1>3, <1>4 DEF Counting, Removing
    <2> QED BY <1>1, <1>13, <2>1 DEF HugeInv, ReleasesSeen, CrashesNeedRelease
  <1> QED BY <1>8, <1>9, <1>10, <1>11, <1>12, <1>13, <1>14 DEF HugeInv

LEMMA StoreDownKeeps ==
  ASSUME OneMapper, HugeInv, NEW t \in Threads, StoreDown(t)
  PROVE  HugeInv'
  <1>1. /\ pc[t] = "store_down" /\ pc' = [pc EXCEPT ![t] = "unmap"]
        /\ liveset' = [liveset EXCEPT !.entries = (loaded[t] - 1) % Wrap]
        /\ UNCHANGED <<mapped, block, loaded, walk, crashed, aborted, released>>
    BY DEF StoreDown, Step, Goto, walk_vars, history
  <1>2. InHook(t) /\ t \in Mappers
    BY <1>1 DEF InHook, Removing, HugeInv, HooksOwn
  <1>3. \A u \in Threads : u # t => ~InHook(u) /\ block[u] = NoBlock /\ pc'[u] = pc[u]
    BY <1>1, <1>2, OnlyMapper DEF HugeInv, HugeTypes
  <1>4. pc'[t] = "unmap"
    BY <1>1 DEF HugeInv, HugeTypes
  <1>5. Cardinality(Kept) = liveset.entries - 1 /\ loaded[t] = liveset.entries
    BY <1>1 DEF HugeInv, CounterLags, Counting
  <1>6. liveset'.entries = Cardinality(Kept) /\ liveset'.entries \in Nat
    <2>1. Kept \in SUBSET Blocks
      BY DEF Kept
    <2>2. Cardinality(Kept) \in Nat /\ Cardinality(Kept) % Wrap = Cardinality(Kept)
      BY <2>1, FewBlocks, NoWrap
    <2> QED BY <1>1, <1>5, <2>2 DEF HugeInv, HugeTypes
  <1>7. liveset'.key = liveset.key /\ liveset'.value = liveset.value
    BY <1>1 DEF HugeInv, HugeTypes
  <1>8. HugeTypes' /\ ~aborted'
    <2>1. liveset' \in [key     : [Set!Slots -> Blocks \cup {NoBlock}],
                        value   : [Set!Slots -> Int],
                        entries : Nat]
      <3>1. (loaded[t] - 1) % Wrap \in Nat
        BY <1>1, <1>6 DEF HugeInv, HugeTypes
      <3> QED BY <1>1, <3>1 DEF HugeInv, HugeTypes
    <2> QED BY <1>1, <2>1 DEF HugeInv, HugeTypes, Removing
  <1>9. AtHome' /\ Kept' = Kept
    BY <1>7 DEF HugeInv, AtHome, Kept
  <1>10. HooksOwn'
    BY <1>1, <1>2, <1>3, <1>4 DEF HugeInv, HooksOwn, InHook, Inserting, Removing
  <1>11. KeptExact'
    BY <1>1, <1>3, <1>4, <1>9 DEF HugeInv, KeptExact, Outside
  <1>12. CounterLags'
    <2>1. \A u \in Threads : pc'[u] \notin {"load_up", "store_up", "load_down", "store_down"}
      BY <1>3, <1>4 DEF InHook, Inserting, Removing
    <2> QED BY <1>6, <1>9, <2>1 DEF CounterLags, Counting
  <1>13. OneWalk' /\ Interval' = Interval /\ \A u \in Threads : pc'[u] = "read" <=> pc[u] = "read"
    BY <1>1, HookKeepsWalk DEF HugeInv, Walking
  <1>14. ReleasesSeen'
    <2>1. Counting(Removing)' => Counting(Removing)
      BY <1>1, <1>3, <1>4 DEF Counting, Removing
    <2> QED BY <1>1, <1>13, <2>1 DEF HugeInv, ReleasesSeen, CrashesNeedRelease
  <1> QED BY <1>8, <1>9, <1>10, <1>11, <1>12, <1>13, <1>14 DEF HugeInv

LEMMA UnmapKeeps ==
  ASSUME OneMapper, HugeInv, NEW t \in Threads, Unmap(t)
  PROVE  HugeInv'
  <1>1. /\ pc[t] = "unmap" /\ pc' = [pc EXCEPT ![t] = "run"]
        /\ block' = [block EXCEPT ![t] = NoBlock] /\ mapped' = mapped \ {block[t]}
        /\ UNCHANGED <<liveset, loaded, walk, crashed, aborted, released>>
    BY DEF Unmap, Step, Goto, walk_vars, history
  <1>2. InHook(t) /\ t \in Mappers
    BY <1>1 DEF InHook, Removing, HugeInv, HooksOwn
  <1>3. \A u \in Threads : u # t => ~InHook(u) /\ block[u] = NoBlock /\ pc'[u] = pc[u] /\ block'[u] = NoBlock
    BY <1>1, <1>2, OnlyMapper DEF HugeInv, HugeTypes
  <1>4. pc'[t] = "run" /\ block'[t] = NoBlock
    BY <1>1 DEF HugeInv, HugeTypes
  <1>5. HugeTypes' /\ ~aborted'
    BY <1>1 DEF HugeInv, HugeTypes
  <1>6. AtHome' /\ Kept' = Kept
    BY <1>1 DEF HugeInv, AtHome, Kept
  <1>7. HooksOwn'
    BY <1>1, <1>3, <1>4 DEF HugeInv, HooksOwn, InHook, Inserting, Removing
  <1>8. KeptExact'
    <2>1. \A b \in Blocks : \A u \in Threads : block'[u] # b
      BY <1>3, <1>4, HugeConstants
    <2>2. \A b \in Blocks : (\A u \in Threads : block[u] = b => pc[u] \notin Outside) <=> b # block[t]
      BY <1>1, <1>3, HugeConstants DEF Outside
    <2> QED BY <1>1, <1>6, <2>1, <2>2 DEF HugeInv, KeptExact
  <1>9. CounterLags'
    <2>1. /\ \A u \in Threads : pc'[u] \notin {"load_up", "store_up", "load_down", "store_down"}
          /\ \A u \in Threads : pc[u] \notin {"load_up", "store_up", "load_down", "store_down"}
      BY <1>1, <1>3, <1>4 DEF InHook, Inserting, Removing
    <2> QED BY <1>1, <1>6, <2>1 DEF HugeInv, CounterLags, Counting
  <1>10. OneWalk' /\ Interval' = Interval /\ \A u \in Threads : pc'[u] = "read" <=> pc[u] = "read"
    BY <1>1, HookKeepsWalk DEF HugeInv, Walking
  <1>11. ReleasesSeen'
    <2>1. Counting(Removing) /\ (Counting(Removing)' => Counting(Removing))
      BY <1>1 DEF Counting, Removing
    <2>2. \A u \in Threads : pc[u] = "read" => released
      BY <2>1 DEF HugeInv, ReleasesSeen, Interval, Walking
    <2> QED BY <1>1, <1>10, <2>1, <2>2 DEF HugeInv, ReleasesSeen, CrashesNeedRelease
  <1> QED BY <1>5, <1>6, <1>7, <1>8, <1>9, <1>10, <1>11 DEF HugeInv
---------------------------------------------------------------------------
(* The interval                                                            *)

\* The walk never finds the counter beyond the table.
LEMMA AlwaysSane ==
  ASSUME OneMapper, HugeInv
  PROVE  Sane
  <1>1. Kept \in SUBSET Blocks
    BY DEF Kept
  <1>2. Cardinality(Kept) \in Nat /\ Cardinality(Kept) <= Capacity
    BY <1>1, FewBlocks
  <1>3. CASE Counting({"load_down", "store_down"})
    <2>1. PICK t \in Threads : pc[t] \in {"load_down", "store_down"}
      BY <1>3 DEF Counting
    <2>2. block[t] \in Blocks \ Kept
      BY <2>1 DEF HugeInv, HugeTypes, HooksOwn, InHook, Removing, KeptExact, Outside
    <2>3. Cardinality(Kept) < Capacity /\ Cardinality(Kept) = liveset.entries - 1
      BY <1>1, <1>3, <2>2, OneMore DEF HugeInv, CounterLags
    <2> QED BY <1>2, <2>3, HugeConstants DEF Sane, HugeInv, HugeTypes
  <1>4. CASE ~Counting({"load_down", "store_down"})
    <2>1. liveset.entries <= Cardinality(Kept)
      <3>1. CASE Counting({"load_up", "store_up"})
        BY <1>2, <3>1 DEF HugeInv, HugeTypes, CounterLags
      <3>2. CASE ~Counting({"load_up", "store_up"})
        BY <1>2, <1>4, <3>2 DEF HugeInv, HugeTypes, CounterLags, Counting
      <3> QED BY <3>1, <3>2
    <2> QED BY <1>2, <2>1, HugeConstants DEF Sane, HugeInv, HugeTypes
  <1> QED BY <1>3, <1>4

LEMMA BeginKeeps ==
  ASSUME OneMapper, HugeInv, NEW t \in Threads, Begin(t)
  PROVE  HugeInv'
  <1>1. /\ pc[t] = "run" /\ ~Interval /\ ~crashed /\ pc' = [pc EXCEPT ![t] = "rows"]
        /\ released' = (\E u \in Threads : pc[u] \in Removing)
        /\ walk' = [slot |-> 0, met |-> 0, page |-> NoBlock]
        /\ UNCHANGED <<mapped, liveset, block, loaded, crashed, aborted>>
    BY DEF Begin, Goto
  <1>2. HugeTypes' /\ ~aborted'
    <2>1. walk' \in Walks
      BY <1>1, WalkTypes DEF HugeInv, HugeTypes
    <2> QED BY <1>1, <2>1 DEF HugeInv, HugeTypes, Walking
  <1>3. HooksInv'
    BY <1>1, WalkKeepsHooks DEF HugeInv, HooksInv, InHook, Inserting, Removing, Walking
  <1>4. /\ \A u \in Threads : u # t => pc'[u] = pc[u] /\ pc[u] \notin Walking
        /\ pc'[t] = "rows"
    BY <1>1 DEF HugeInv, HugeTypes, Interval
  <1>5. OneWalk'
    BY <1>4 DEF OneWalk
  <1>6. ReleasesSeen'
    <2>1. \A u \in Threads : pc'[u] # "read"
      BY <1>4 DEF Walking
    <2>2. Counting(Removing)' => released'
      BY <1>1, <1>4 DEF Counting, Removing
    <2>3. CrashesNeedRelease'
      BY <1>1 DEF CrashesNeedRelease
    <2> QED BY <2>1, <2>2, <2>3 DEF ReleasesSeen
  <1> QED BY <1>2, <1>3, <1>5, <1>6 DEF HugeInv, HooksInv

\* A step of the walk from one label to another: what is left to show is
\* what it knows of a block it is to read.
LEMMA WalkStepKeeps ==
  ASSUME OneMapper, HugeInv, NEW t \in Threads, pc[t] \in Walking,
         NEW label \in {"run"} \cup Walking, pc' = [pc EXCEPT ![t] = label],
         mapped' = mapped, block' = block, loaded' = loaded, released' = released,
         liveset'.key = liveset.key, liveset'.entries = liveset.entries,
         HugeTypes', ~aborted', crashed' => released,
         label = "read" => walk'.page \in mapped
  PROVE  HugeInv'
  <1>1. HooksInv'
    BY WalkKeepsHooks DEF HugeInv, HooksInv, InHook, Inserting, Removing, Walking
  <1>2. /\ \A u \in Threads : u # t => pc'[u] = pc[u] /\ pc[u] \notin Walking
        /\ pc'[t] = label
    BY DEF HugeInv, HugeTypes, OneWalk
  <1>3. OneWalk'
    BY <1>2 DEF OneWalk
  <1>4. ReleasesSeen'
    <2>1. Counting(Removing)' => Counting(Removing)
      BY <1>2 DEF Counting, Removing, Walking
    <2>2. Interval
      BY DEF Interval
    <2>3. \A u \in Threads : pc'[u] = "read" => walk'.page \in mapped'
      BY <1>2 DEF Walking
    <2> QED BY <2>1, <2>2, <2>3 DEF HugeInv, ReleasesSeen, CrashesNeedRelease
  <1> QED BY <1>1, <1>3, <1>4 DEF HugeInv, HooksInv

LEMMA RowOfKeeps ==
  ASSUME OneMapper, HugeInv, NEW t \in Threads, RowOf(t)
  PROVE  HugeInv'
  <1>1. /\ pc[t] = "rows" /\ pc[t] \in Walking /\ walk.slot < Capacity
        /\ UNCHANGED <<mapped, liveset, block, loaded, crashed, released>>
    BY DEF RowOf, Step, GoesOn, history, Walking
  <1>2. ~aborted'
    BY AlwaysSane DEF RowOf, Asserts
  <1>3. walk.slot \in Set!Slots
    BY <1>1, SlotInTable DEF HugeInv
  <1>4. crashed' => released
    BY <1>1 DEF HugeInv, ReleasesSeen, CrashesNeedRelease
  <1>5. CASE Page = NoBlock
    <2>1. walk' = [walk EXCEPT !.slot = @ + 1] /\ pc' = pc
      BY <1>5 DEF RowOf
    <2>2. pc' = [pc EXCEPT ![t] = "rows"]
      BY <1>1, <2>1 DEF HugeInv, HugeTypes
    <2>3. HugeTypes'
      <3>1. walk' \in Walks
        BY <2>1, WalkTypes DEF HugeInv, HugeTypes
      <3> QED BY <1>1, <2>1, <3>1 DEF HugeInv, HugeTypes
    <2>4. "rows" \in {"run"} \cup Walking
      BY DEF Walking
    <2> QED BY <1>1, <1>2, <1>4, <2>2, <2>3, <2>4, WalkStepKeeps
  <1>6. CASE Page # NoBlock
    <2>1. /\ walk' = [slot |-> walk.slot + 1, met |-> walk.met + 1, page |-> Page]
          /\ pc' = [pc EXCEPT ![t] = "read"]
      BY <1>6 DEF RowOf, Goto
    <2>2. Page \in mapped
      <3>1. Page \in Blocks /\ Home[Page] = walk.slot
        BY <1>3, <1>6 DEF Page, HugeInv, HugeTypes, AtHome
      <3>2. Page \in Kept
        BY <3>1 DEF Page, Kept
      <3> QED BY <3>1, <3>2 DEF HugeInv, KeptExact
    <2>3. HugeTypes'
      <3>1. walk' \in Walks
        BY <2>1, <2>2, WalkTypes DEF HugeInv, HugeTypes
      <3> QED BY <1>1, <2>1, <3>1 DEF HugeInv, HugeTypes, Walking
    <2>4. "read" \in {"run"} \cup Walking /\ walk'.page \in mapped
      BY <2>1, <2>2 DEF Walking
    <2> QED BY <1>1, <1>2, <1>4, <2>1, <2>3, <2>4, WalkStepKeeps
  <1> QED BY <1>5, <1>6

LEMMA ReadKeeps ==
  ASSUME OneMapper, HugeInv, NEW t \in Threads, Read(t)
  PROVE  HugeInv'
  <1>1. /\ pc[t] = "read" /\ pc[t] \in Walking /\ pc' = [pc EXCEPT ![t] = "rows"]
        /\ crashed' = (walk.page \notin mapped)
        /\ walk' = [walk EXCEPT !.page = NoBlock]
        /\ UNCHANGED <<mapped, liveset, block, loaded, aborted, released>>
    BY DEF Read, Step, Goto, history, Walking
  <1>2. crashed' => released
    BY <1>1 DEF HugeInv, ReleasesSeen
  <1>3. HugeTypes' /\ ~aborted'
    <2>1. walk' \in Walks
      BY <1>1, WalkTypes DEF HugeInv, HugeTypes
    <2> QED BY <1>1, <2>1 DEF HugeInv, HugeTypes, Walking
  <1>4. "rows" \in {"run"} \cup Walking
    BY DEF Walking
  <1> QED BY <1>1, <1>2, <1>3, <1>4, WalkStepKeeps

LEMMA WalkEndKeeps ==
  ASSUME OneMapper, HugeInv, NEW t \in Threads, RowsDone(t) \/ End(t)
  PROVE  HugeInv'
  <1>1. PICK label \in {"run", "ticks"} : pc' = [pc EXCEPT ![t] = label]
    BY DEF RowsDone, End, Goto
  <1>2. /\ pc[t] \in Walking
        /\ walk' = [slot |-> 0, met |-> 0, page |-> NoBlock]
        /\ UNCHANGED <<mapped, liveset, block, loaded, crashed, released>>
    BY DEF RowsDone, End, Step, history, Walking
  <1>3. ~aborted'
    BY AlwaysSane DEF RowsDone, End, Asserts
  <1>4. crashed' => released
    BY <1>2 DEF HugeInv, ReleasesSeen, CrashesNeedRelease
  <1>5. HugeTypes'
    <2>1. walk' \in Walks
      BY <1>2, WalkTypes DEF HugeInv, HugeTypes
    <2> QED BY <1>1, <1>2, <2>1 DEF HugeInv, HugeTypes, Walking
  <1>6. label \in {"run"} \cup Walking /\ label # "read"
    BY DEF Walking
  <1> QED BY <1>1, <1>2, <1>3, <1>4, <1>5, <1>6, WalkStepKeeps

LEMMA TickOfKeeps ==
  ASSUME OneMapper, HugeInv, NEW t \in Threads, TickOf(t)
  PROVE  HugeInv'
  <1>1. /\ pc[t] = "ticks" /\ pc[t] \in Walking /\ walk.slot < Capacity /\ pc' = pc
        /\ UNCHANGED <<mapped, block, loaded, crashed, released>>
    BY DEF TickOf, Step, GoesOn, history, Walking
  <1>2. ~aborted'
    BY AlwaysSane DEF TickOf, Asserts
  <1>3. crashed' => released
    BY <1>1 DEF HugeInv, ReleasesSeen, CrashesNeedRelease
  <1>4. pc' = [pc EXCEPT ![t] = "ticks"] /\ "ticks" \in {"run"} \cup Walking /\ "ticks" # "read"
    BY <1>1 DEF HugeInv, HugeTypes, Walking
  <1>5. walk' \in Walks
    <2>1. \/ walk' = [walk EXCEPT !.slot = @ + 1]
          \/ walk' = [walk EXCEPT !.slot = @ + 1, !.met = @ + 1]
      BY DEF TickOf
    <2>2. walk \in Walks
      BY DEF HugeInv, HugeTypes
    <2> QED BY <2>1, <2>2, WalkTypes
  <1>6. /\ liveset'.key = liveset.key /\ liveset'.entries = liveset.entries
        /\ liveset' \in [key     : [Set!Slots -> Blocks \cup {NoBlock}],
                         value   : [Set!Slots -> Int],
                         entries : Nat]
    <2>1. CASE Page = NoBlock
      BY <2>1 DEF TickOf, HugeInv, HugeTypes
    <2>2. CASE Page # NoBlock
      <3>1. liveset' = [liveset EXCEPT !.value[walk.slot] = Aged(@)]
        BY <2>2 DEF TickOf
      <3>2. walk.slot \in Set!Slots
        BY <1>1, SlotInTable DEF HugeInv
      <3>3. Aged(liveset.value[walk.slot]) \in Int
        BY <3>2 DEF Aged, HugeInv, HugeTypes
      <3> QED BY <3>1, <3>2, <3>3 DEF HugeInv, HugeTypes
    <2> QED BY <2>1, <2>2
  <1>7. HugeTypes'
    BY <1>1, <1>5, <1>6 DEF HugeInv, HugeTypes
  <1> QED BY <1>1, <1>2, <1>3, <1>4, <1>6, <1>7, WalkStepKeeps

---------------------------------------------------------------------------
(* The theorems                                                            *)

LEMMA HugeStep ==
  ASSUME OneMapper, HugeInv, [Next]_vars
  PROVE  HugeInv'
  <1>1. CASE UNCHANGED vars
    BY <1>1 DEF vars, HugeInv, HugeTypes, AtHome, HooksOwn, InHook, KeptExact, Kept, CounterLags,
                Counting, OneWalk, ReleasesSeen, Interval, CrashesNeedRelease
  <1>2. CASE Next
    <2>1. PICK t \in Threads :
            \/ MapBlock(t) \/ ReleaseBlock(t)
            \/ Insert(t) \/ Remove(t) \/ Load(t) \/ StoreUp(t) \/ StoreDown(t) \/ Unmap(t)
            \/ Begin(t) \/ RowOf(t) \/ Read(t) \/ RowsDone(t) \/ TickOf(t) \/ End(t)
      BY <1>2 DEF Next
    <2> QED BY <2>1, MapBlockKeeps, ReleaseBlockKeeps, InsertKeeps, RemoveKeeps, LoadKeeps,
               StoreUpKeeps, StoreDownKeeps, UnmapKeeps, BeginKeeps, RowOfKeeps, ReadKeeps,
               WalkEndKeeps, TickOfKeeps
  <1> QED BY <1>1, <1>2

\* The invariant of the live set holds, whatever walks and hooks overlap.
THEOREM HugeInductive == OneMapper => (Spec => []HugeInv)
  <1> SUFFICES ASSUME OneMapper PROVE Spec => []HugeInv
    OBVIOUS
  <1>1. Init => HugeInv
    BY Initial
  <1>2. HugeInv /\ [Next]_vars => HugeInv'
    BY HugeStep
  <1> QED BY <1>1, <1>2, PTL DEF Spec

\* With one mapping thread the set holds the mapped blocks, and its counter
\* their number, whenever no block hook is under way (all.cpp:254, 601).
THEOREM LivesetIsExact == OneMapper => (Spec => []LivesetExact)
  <1> SUFFICES ASSUME OneMapper PROVE Spec => []LivesetExact
    OBVIOUS
  <1>1. HugeInv => LivesetExact
    <2> SUFFICES ASSUME HugeInv, Quiet
                 PROVE  /\ {liveset.key[i] : i \in Set!Occupied(liveset)} = mapped
                        /\ liveset.entries = Cardinality(mapped)
      BY DEF LivesetExact
    <2>1. \A t \in Threads : block[t] = NoBlock /\ pc[t] \notin Inserting \cup Removing
      BY DEF HugeInv, HooksOwn, Quiet, InHook
    <2>2. Kept = mapped
      BY <2>1, HugeConstants DEF HugeInv, HugeTypes, KeptExact, Kept
    <2>3. {liveset.key[i] : i \in Set!Occupied(liveset)} = Kept
      BY HugeConstants DEF HugeInv, HugeTypes, AtHome, Kept, Set!Occupied
    <2>4. Cardinality(Kept) = liveset.entries
      BY <2>1 DEF HugeInv, CounterLags, Counting, Inserting, Removing
    <2> QED BY <2>2, <2>3, <2>4
  <1> QED BY <1>1, HugeInductive, PTL

\* An interval that reads a block that is gone has met its release on the
\* way: no block stays in the set after its memory went (all.cpp:451).
THEOREM CrashesAreReleases == OneMapper => (Spec => []CrashesNeedRelease)
  <1> SUFFICES ASSUME OneMapper PROVE Spec => []CrashesNeedRelease
    OBVIOUS
  <1>1. HugeInv => CrashesNeedRelease
    BY DEF HugeInv, ReleasesSeen
  <1> QED BY <1>1, HugeInductive, PTL

---------------------------------------------------------------------------
(* What a walk misses, and what it ages                                    *)

\* The blocks that the walk has passed.
Behind == {b \in Kept : Home[b] < walk.slot}

\* A hook is under way that has not taken a block out from behind the walk.
Unspent == Counting(Inserting \cup {"remove"})

\* A hook that overlaps the interval is counted, and puts the walk's count
\* ahead by one block at most.
WalkLags ==
  Interval =>
    /\ Counting(Inserting \cup Removing) => overlap >= 1
    /\ walk.met + (IF Unspent THEN 1 ELSE 0) <= Cardinality(Behind) + overlap

\* No hook is about to remove b.
Stays(b) == \A t \in Threads : block[t] = b => pc[t] # "remove"

\* The blocks that live through the interval stay in the set.
ThroughoutKept == Interval => \A b \in throughout : b \in Kept /\ Stays(b)

RowsMade ==
  /\ Counting({"rows", "read"}) => \A b \in throughout : Home[b] < walk.slot => b \in rows
  /\ MissesBounded

\* The walk of the running interval has aged b.
Past(b) == IF Counting({"ticks"}) /\ Home[b] < walk.slot THEN 1 ELSE 0

\* The age of b, in an interval and between intervals.
AgeOK(b, age) ==
  IF Interval
  THEN IF b \in throughout
       THEN ticks[b] + Past(b) <= age + (overlaps - overlap) /\ age <= ticks[b] + 1 + Past(b)
       ELSE ticks[b] = 0 /\ 0 <= age /\ age <= Past(b)
  ELSE ticks[b] <= age + overlaps /\ age <= ticks[b] + 1

AgesOK == \A b \in Kept : Stays(b) => AgeOK(b, liveset.value[Home[b]])

InsertsFresh == \A t \in Threads : pc[t] = "insert" => ticks[block[t]] = 0

AgesTypes ==
  /\ overlap \in Nat /\ overlaps \in Nat
  /\ throughout \subseteq Blocks /\ ticks \in [Blocks -> Nat]

AgesInv == AgesTypes /\ WalkLags /\ ThroughoutKept /\ RowsMade /\ AgesOK /\ InsertsFresh

\* What a step of the mapper's hook changes of what is counted.
LEMMA HookCounts ==
  ASSUME OneMapper, HugeInv, NEW t \in Threads, t \in Mappers, pc[t] \notin Walking,
         NEW label, label \notin Walking, pc' = [pc EXCEPT ![t] = label]
  PROVE  /\ \A L \in SUBSET (Inserting \cup Removing) :
              /\ Counting(L) <=> pc[t] \in L
              /\ Counting(L)' <=> label \in L
         /\ \A L \in SUBSET Walking : Counting(L)' <=> Counting(L)
         /\ Interval' <=> Interval
         /\ \A u \in Threads : u # t => pc'[u] = pc[u] /\ pc[u] \notin Inserting \cup Removing
         /\ pc'[t] = label
  <1>1. \A u \in Threads : u # t => pc[u] \notin Inserting \cup Removing
    BY OnlyMapper DEF HugeInv, InHook
  <1>2. pc'[t] = label /\ \A u \in Threads : u # t => pc'[u] = pc[u]
    BY DEF HugeInv, HugeTypes
  <1>3. \A L \in SUBSET Walking : Counting(L)' <=> Counting(L)
    BY <1>2 DEF Counting
  <1>4. Interval' <=> Interval
    BY <1>2 DEF Interval
  <1> QED BY <1>1, <1>2, <1>3, <1>4 DEF Counting

\* A step of the hook that adds no block and removes none, and counts
\* nothing new.
LEMMA QuietHook ==
  ASSUME OneMapper, HugeInv, AgesInv, NEW t \in Threads, t \in Mappers, pc[t] \notin Walking,
         NEW label, label \notin Walking, pc' = [pc EXCEPT ![t] = label],
         label \notin {"insert", "remove"}, pc[t] # "remove",
         label \in Inserting => pc[t] \in Inserting,
         label \in Removing => pc[t] \in Removing,
         \A u \in Threads : u # t => block'[u] = block[u],
         UNCHANGED <<walk, rows, overlap, overlaps, throughout, ticks>>,
         liveset'.key = liveset.key, liveset'.value = liveset.value
  PROVE  AgesInv'
  <1>1. /\ \A L \in SUBSET (Inserting \cup Removing) :
              /\ Counting(L) <=> pc[t] \in L
              /\ Counting(L)' <=> label \in L
        /\ \A L \in SUBSET Walking : Counting(L)' <=> Counting(L)
        /\ Interval' <=> Interval
        /\ \A u \in Threads : u # t => pc'[u] = pc[u] /\ pc[u] \notin Inserting \cup Removing
        /\ pc'[t] = label
    BY HookCounts
  <1>2. Kept' = Kept /\ Behind' = Behind
    BY DEF Kept, Behind
  <1>3. \A b : Stays(b)' <=> Stays(b)
    BY <1>1 DEF Stays, Removing
  <1>4. WalkLags'
    <2>1. Counting(Inserting \cup Removing)' => Counting(Inserting \cup Removing)
      BY <1>1
    <2>2. Unspent' => Unspent
      BY <1>1 DEF Unspent, Removing
    <2>3. walk.met \in Nat /\ Cardinality(Behind) \in Nat /\ overlap \in Nat
      BY FewBlocks, WalkTypes DEF Behind, Kept, HugeInv, HugeTypes, AgesInv, AgesTypes
    <2> QED BY <1>1, <1>2, <2>1, <2>2, <2>3 DEF AgesInv, WalkLags
  <1>5. ThroughoutKept'
    BY <1>1, <1>2, <1>3 DEF AgesInv, ThroughoutKept
  <1>6. (Counting({"rows", "read"})' <=> Counting({"rows", "read"})) /\ (Counting({"ticks"})' <=> Counting({"ticks"}))
    BY <1>1 DEF Walking
  <1>7. RowsMade'
    BY <1>6 DEF AgesInv, RowsMade, MissesBounded, Counting
  <1>8. AgesOK'
    BY <1>1, <1>2, <1>3, <1>6 DEF AgesInv, AgesOK, AgeOK, Past
  <1>9. InsertsFresh'
    BY <1>1 DEF AgesInv, InsertsFresh, Inserting
  <1> QED BY <1>4, <1>5, <1>7, <1>8, <1>9 DEF AgesInv, AgesTypes

\* Counting up or down, and unmapping, are such steps.
LEMMA QuietAges ==
  ASSUME OneMapper, HugeInv, AgesInv, NEW t \in Threads,
         Load(t) \/ StoreUp(t) \/ StoreDown(t) \/ Unmap(t)
  PROVE  AgesInv'
  <1>1. PICK label \in {"store_up", "store_down", "run", "unmap"} :
          /\ pc' = [pc EXCEPT ![t] = label]
          /\ pc[t] \in {"load_up", "load_down", "store_up", "store_down", "unmap"}
          /\ label = "store_up" => pc[t] = "load_up"
          /\ label \in {"store_down", "unmap"} => pc[t] \in {"load_down", "store_down"}
    BY DEF Load, StoreUp, StoreDown, Unmap, Step, Goto
  <1>2. /\ UNCHANGED <<walk, rows, overlap, overlaps, throughout, ticks>>
        /\ liveset'.key = liveset.key /\ liveset'.value = liveset.value
    BY DEF Load, StoreUp, StoreDown, Unmap, walk_vars, history, HugeInv, HugeTypes
  <1>3. \A u \in Threads : u # t => block'[u] = block[u]
    BY DEF Load, StoreUp, StoreDown, Unmap, HugeInv, HugeTypes
  <1>4. t \in Mappers /\ pc[t] \notin Walking /\ label \notin Walking
    BY <1>1 DEF HugeInv, HooksOwn, InHook, Inserting, Removing, Walking
  <1>5. /\ label \notin {"insert", "remove"} /\ pc[t] # "remove"
        /\ label \in Inserting => pc[t] \in Inserting
        /\ label \in Removing => pc[t] \in Removing
    BY <1>1 DEF Inserting, Removing
  <1> QED BY <1>1, <1>2, <1>3, <1>4, <1>5, QuietHook

\* A hook begins: it is counted, and has not taken a block out yet.
LEMMA StartCounts ==
  ASSUME OneMapper, HugeInv, AgesInv, NEW t \in Threads, NEW b, NEW label \in {"insert", "remove"},
         StartHook(t, b, label), walk' = walk, liveset'.key = liveset.key
  PROVE  /\ t \in Mappers /\ pc[t] = "run" /\ pc' = [pc EXCEPT ![t] = label]
         /\ block[t] = NoBlock /\ block'[t] = b
         /\ \A u \in Threads : u # t => block'[u] = block[u] /\ pc'[u] = pc[u] /\ block[u] = NoBlock
         /\ pc'[t] = label /\ (Interval' <=> Interval)
         /\ overlap' \in Nat /\ overlaps' \in Nat /\ overlap' >= overlap
         /\ Interval => overlaps' - overlap' = overlaps - overlap
         /\ ~Interval => overlaps' = overlaps
         /\ Counting({"rows", "read"})' <=> Counting({"rows", "read"})
         /\ Counting({"ticks"})' <=> Counting({"ticks"})
         /\ WalkLags'
  <1>1. /\ t \in Mappers /\ pc[t] = "run" /\ pc' = [pc EXCEPT ![t] = label]
        /\ block' = [block EXCEPT ![t] = b]
        /\ IF Interval THEN overlap' = overlap + 1 /\ overlaps' = overlaps + 1
           ELSE overlap' = overlap /\ overlaps' = overlaps
    BY DEF StartHook, Goto
  <1>2. pc[t] \notin Walking /\ label \notin Walking
    BY <1>1 DEF Walking
  <1>3. /\ \A L \in SUBSET (Inserting \cup Removing) :
              /\ Counting(L) <=> pc[t] \in L
              /\ Counting(L)' <=> label \in L
        /\ \A L \in SUBSET Walking : Counting(L)' <=> Counting(L)
        /\ Interval' <=> Interval
        /\ \A u \in Threads : u # t => pc'[u] = pc[u] /\ pc[u] \notin Inserting \cup Removing
        /\ pc'[t] = label
    BY <1>1, <1>2, HookCounts
  <1>4. \A u \in Threads : u # t => block'[u] = block[u] /\ pc'[u] = pc[u] /\ block[u] = NoBlock
    BY <1>1, <1>3, OnlyMapper DEF HugeInv, HugeTypes
  <1>5. block[t] = NoBlock /\ block'[t] = b
    BY <1>1 DEF HugeInv, HugeTypes, HooksOwn, InHook, Inserting, Removing
  <1>6. overlap \in Nat /\ overlaps \in Nat
    BY DEF AgesInv, AgesTypes
  <1>7. Behind' = Behind /\ Cardinality(Behind) \in Nat /\ walk.met \in Nat
    BY FewBlocks, WalkTypes DEF Behind, Kept, HugeInv, HugeTypes
  <1>8. WalkLags'
    <2>1. ~Unspent
      BY <1>1, <1>3 DEF Unspent, Inserting, Removing
    <2> QED BY <1>1, <1>3, <1>6, <1>7, <2>1 DEF AgesInv, WalkLags
  <1>9. (Counting({"rows", "read"})' <=> Counting({"rows", "read"})) /\ (Counting({"ticks"})' <=> Counting({"ticks"}))
    BY <1>3 DEF Walking
  <1>10. /\ overlap' \in Nat /\ overlaps' \in Nat /\ overlap' >= overlap
         /\ Interval => overlaps' - overlap' = overlaps - overlap
         /\ ~Interval => overlaps' = overlaps
    BY <1>1, <1>6
  <1> QED BY <1>1, <1>3, <1>4, <1>5, <1>8, <1>9, <1>10

\* A new block starts with no interval behind it.
LEMMA MapBlockAges ==
  ASSUME OneMapper, HugeInv, AgesInv, NEW t \in Threads, MapBlock(t)
  PROVE  AgesInv'
  <1> PICK b \in Blocks \ mapped : StartHook(t, b, "insert") /\ ticks' = [ticks EXCEPT ![b] = 0]
    BY DEF MapBlock
  <1>1. UNCHANGED <<liveset, walk, rows, throughout>>
    BY DEF MapBlock, walk_vars
  <1>2. /\ block[t] = NoBlock /\ block'[t] = b
        /\ \A u \in Threads : u # t => block'[u] = block[u] /\ pc'[u] = pc[u] /\ block[u] = NoBlock
        /\ pc[t] = "run" /\ pc'[t] = "insert" /\ (Interval' <=> Interval)
        /\ overlap' \in Nat /\ overlaps' \in Nat /\ overlap' >= overlap
        /\ Interval => overlaps' - overlap' = overlaps - overlap
        /\ ~Interval => overlaps' = overlaps
        /\ Counting({"rows", "read"})' <=> Counting({"rows", "read"})
        /\ Counting({"ticks"})' <=> Counting({"ticks"})
        /\ WalkLags'
    BY <1>1, StartCounts
  <1>3. Kept' = Kept /\ Kept \subseteq mapped
    BY <1>1 DEF Kept, HugeInv, KeptExact
  <1>4. \A c \in Kept : Stays(c)' <=> Stays(c)
    BY <1>2, <1>3 DEF Stays
  <1>5. ticks' \in [Blocks -> Nat] /\ \A c \in Kept : ticks'[c] = ticks[c]
    BY <1>3 DEF AgesInv, AgesTypes, Kept
  <1>6. ThroughoutKept'
    BY <1>1, <1>2, <1>3, <1>4 DEF AgesInv, ThroughoutKept
  <1>7. RowsMade'
    <2>1. \A x, y, z \in Nat : x <= y /\ y <= z => x <= z
      OBVIOUS
    <2>2. Cardinality(throughout \ rows) \in Nat /\ overlap \in Nat
      BY FewBlocks DEF AgesInv, AgesTypes
    <2> QED BY <1>1, <1>2, <2>1, <2>2 DEF AgesInv, RowsMade, MissesBounded, Counting
  <1>8. AgesOK'
    <2>1. ASSUME NEW c \in Kept, Stays(c)' PROVE AgeOK(c, liveset.value[Home[c]])'
      <3>1. AgeOK(c, liveset.value[Home[c]])
        BY <1>4, <2>1 DEF AgesInv, AgesOK
      <3> QED BY <1>1, <1>2, <1>5, <3>1 DEF AgeOK, Past
    <2> QED BY <1>3, <2>1 DEF AgesOK
  <1>9. InsertsFresh'
    <2>1. \A u \in Threads : u # t => pc'[u] # "insert"
      BY <1>2, HugeConstants DEF HugeInv, HooksOwn, InHook, Inserting, OneMapper, MapBlock, StartHook
    <2>2. ticks'[block'[t]] = 0
      BY <1>2 DEF AgesInv, AgesTypes
    <2> QED BY <2>1, <2>2 DEF InsertsFresh
  <1> QED BY <1>1, <1>2, <1>5, <1>6, <1>7, <1>8, <1>9 DEF AgesInv, AgesTypes

\* A block that is released no longer lives throughout the interval.
LEMMA ReleaseBlockAges ==
  ASSUME OneMapper, HugeInv, AgesInv, NEW t \in Threads, ReleaseBlock(t)
  PROVE  AgesInv'
  <1> PICK b \in Live : StartHook(t, b, "remove") /\ throughout' = throughout \ {b}
    BY DEF ReleaseBlock
  <1>1. UNCHANGED <<liveset, walk, rows, ticks>>
    BY DEF ReleaseBlock, walk_vars
  <1>2. /\ block[t] = NoBlock /\ block'[t] = b
        /\ \A u \in Threads : u # t => block'[u] = block[u] /\ pc'[u] = pc[u] /\ block[u] = NoBlock
        /\ pc[t] = "run" /\ pc'[t] = "remove" /\ (Interval' <=> Interval)
        /\ overlap' \in Nat /\ overlaps' \in Nat /\ overlap' >= overlap
        /\ Interval => overlaps' - overlap' = overlaps - overlap
        /\ ~Interval => overlaps' = overlaps
        /\ Counting({"rows", "read"})' <=> Counting({"rows", "read"})
        /\ Counting({"ticks"})' <=> Counting({"ticks"})
        /\ WalkLags'
    BY <1>1, StartCounts
  <1>3. Kept' = Kept
    BY <1>1 DEF Kept
  <1>4. \A c \in Blocks : Stays(c)' <=> c # b
    BY <1>2, HugeConstants DEF Stays
  <1>5. \A c \in Blocks : Stays(c)
    BY <1>2, HugeConstants DEF Stays
  <1>6. ThroughoutKept'
    BY <1>2, <1>3, <1>4 DEF AgesInv, AgesTypes, ThroughoutKept
  <1>7. RowsMade'
    <2>1. /\ Cardinality(throughout \ rows) \in Nat /\ overlap \in Nat
          /\ Cardinality(throughout' \ rows) \in Nat
          /\ Cardinality(throughout' \ rows) <= Cardinality(throughout \ rows)
      <3>1. throughout \ rows \in SUBSET Blocks /\ throughout' \ rows \subseteq throughout \ rows /\ overlap \in Nat
        BY DEF AgesInv, AgesTypes
      <3> QED BY <3>1, FewBlocks, FS_Subset
    <2> QED BY <1>1, <1>2, <2>1 DEF AgesInv, RowsMade, MissesBounded, Counting
  <1>8. AgesOK'
    <2>1. ASSUME NEW c \in Kept, Stays(c)' PROVE AgeOK(c, liveset.value[Home[c]])'
      <3>1. AgeOK(c, liveset.value[Home[c]]) /\ c # b
        BY <1>4, <1>5, <2>1 DEF AgesInv, AgesOK, Kept
      <3> QED BY <1>1, <1>2, <3>1 DEF AgeOK, Past
    <2> QED BY <1>3, <2>1 DEF AgesOK
  <1>9. InsertsFresh'
    BY <1>1, <1>2 DEF AgesInv, InsertsFresh
  <1> QED BY <1>1, <1>2, <1>6, <1>7, <1>8, <1>9 DEF AgesInv, AgesTypes

\* A block comes into the set with the age 0; the hook that brings it is
\* not counted yet.
LEMMA InsertAges ==
  ASSUME OneMapper, HugeInv, AgesInv, NEW t \in Threads, Insert(t)
  PROVE  AgesInv'
  <1> DEFINE b == block[t]
  <1>1. pc[t] = "insert" /\ UNCHANGED <<walk, rows, overlap, overlaps, throughout, ticks>>
    BY DEF Insert, Step, walk_vars, history
  <1>2. /\ t \in Mappers /\ b \in Blocks /\ b \notin Kept /\ liveset.entries < Capacity
        /\ Cardinality(Kept) = liveset.entries
    BY <1>1, InsertHasRoom
  <1>3. Sane
    BY <1>2, HugeConstants DEF Sane, HugeInv, HugeTypes
  <1>4. /\ ~Set!Full(liveset) /\ ~Set!Has(liveset, b)
        /\ Set!Put(liveset, b, 0) = [key     |-> [liveset.key EXCEPT ![Home[b]] = b],
                                     value   |-> [liveset.value EXCEPT ![Home[b]] = 0],
                                     entries |-> liveset.entries + 1]
    BY <1>2, InsertIsHome DEF HugeInv
  <1>5. /\ liveset'.key = [liveset.key EXCEPT ![Home[b]] = b]
        /\ liveset'.value = [liveset.value EXCEPT ![Home[b]] = 0]
        /\ pc' = [pc EXCEPT ![t] = "load_up"] /\ block' = block
    <2>1. liveset' = [Set!Put(liveset, b, 0) EXCEPT !.entries = liveset.entries]
      BY <1>3, <1>4, Zenon DEF Insert
    <2>2. pc' = [pc EXCEPT ![t] = "load_up"] /\ block' = block
      BY <1>3, <1>4, Zenon DEF Insert, Goto
    <2> QED BY <1>4, <2>1, <2>2
  <1>6. pc[t] \notin Walking /\ "load_up" \notin Walking
    BY <1>1 DEF Walking
  <1>7. /\ \A L \in SUBSET (Inserting \cup Removing) :
              /\ Counting(L) <=> pc[t] \in L
              /\ Counting(L)' <=> "load_up" \in L
        /\ \A L \in SUBSET Walking : Counting(L)' <=> Counting(L)
        /\ Interval' <=> Interval
        /\ \A u \in Threads : u # t => pc'[u] = pc[u] /\ pc[u] \notin Inserting \cup Removing
        /\ pc'[t] = "load_up"
    BY <1>2, <1>5, <1>6, HookCounts
  <1>8. /\ Kept' = Kept \cup {b}
        /\ \A c \in Kept : liveset'.value[Home[c]] = liveset.value[Home[c]]
        /\ liveset'.value[Home[b]] = 0
    BY <1>2, <1>5, HugeConstants DEF HugeInv, HugeTypes, Kept, OneMapper
  <1>9. \A c : Stays(c)' <=> Stays(c)
    BY <1>1, <1>5, <1>7 DEF Stays, Removing
  <1>10. WalkLags'
    <2>1. Counting(Inserting \cup Removing) /\ Unspent
      BY <1>1, <1>7 DEF Unspent, Inserting, Removing
    <2>2. /\ Behind \subseteq Behind' /\ Behind' \in SUBSET Blocks
          /\ Cardinality(Behind) \in Nat /\ Cardinality(Behind') \in Nat
          /\ Cardinality(Behind) <= Cardinality(Behind')
      <3>1. Behind \subseteq Behind' /\ Behind \in SUBSET Blocks /\ Behind' \in SUBSET Blocks
        BY <1>1, <1>8 DEF Behind, Kept
      <3> QED BY <3>1, FewBlocks, FS_Subset
    <2>3. walk.met \in Nat /\ overlap \in Nat
      BY WalkTypes DEF HugeInv, HugeTypes, AgesInv, AgesTypes
    <2> QED BY <1>1, <1>7, <2>1, <2>2, <2>3 DEF AgesInv, WalkLags
  <1>11. ThroughoutKept'
    BY <1>1, <1>7, <1>8, <1>9 DEF AgesInv, ThroughoutKept
  <1>12. (Counting({"rows", "read"})' <=> Counting({"rows", "read"})) /\ (Counting({"ticks"})' <=> Counting({"ticks"}))
    BY <1>7 DEF Walking
  <1>13. RowsMade'
    BY <1>1, <1>12 DEF AgesInv, RowsMade, MissesBounded, Counting
  <1>14. AgesOK'
    <2>1. ASSUME NEW c \in Kept', Stays(c)' PROVE AgeOK(c, liveset.value[Home[c]])'
      <3>1. CASE c \in Kept
        <4>1. AgeOK(c, liveset.value[Home[c]])
          BY <1>9, <2>1, <3>1 DEF AgesInv, AgesOK
        <4> QED BY <1>1, <1>7, <1>8, <1>12, <3>1, <4>1 DEF AgeOK, Past
      <3>2. CASE c = b
        <4>1. ticks[b] = 0
          BY <1>1 DEF AgesInv, InsertsFresh
        <4>2. Interval => b \notin throughout
          BY <1>2 DEF AgesInv, ThroughoutKept
        <4>3. overlaps \in Nat
          BY DEF AgesInv, AgesTypes
        <4>4. liveset'.value[Home[c]] <= Past(c)'
          BY <1>8, <3>2 DEF Past
        <4>5. ticks'[c] = 0 /\ liveset'.value[Home[c]] = 0 /\ overlaps' \in Nat
          BY <1>1, <1>8, <3>2, <4>1, <4>3
        <4>6. Interval' => c \notin throughout'
          BY <1>1, <1>7, <3>2, <4>2
        <4>7. CASE Interval'
          BY <4>4, <4>5, <4>6, <4>7 DEF AgeOK
        <4>8. CASE ~Interval'
          <5>1. /\ ticks'[c] <= liveset'.value[Home[c]] + overlaps'
                /\ liveset'.value[Home[c]] <= ticks'[c] + 1
            BY <4>5
          <5> QED BY <4>8, <5>1 DEF AgeOK
        <4> QED BY <4>7, <4>8
      <3> QED BY <1>8, <2>1, <3>1, <3>2
    <2> QED BY <2>1 DEF AgesOK
  <1>15. InsertsFresh'
    BY <1>7 DEF InsertsFresh, Inserting
  <1> QED BY <1>1, <1>10, <1>11, <1>13, <1>14, <1>15 DEF AgesInv, AgesTypes

\* A block that is taken out from behind the walk is the one that its hook
\* was counted for.
LEMMA RemoveAges ==
  ASSUME OneMapper, HugeInv, AgesInv, HugeInv', NEW t \in Threads, Remove(t)
  PROVE  AgesInv'
  <1> DEFINE b == block[t]
  <1>1. pc[t] = "remove" /\ UNCHANGED <<block, walk, rows, overlap, overlaps, throughout, ticks>>
    BY DEF Remove, Step, walk_vars, history
  <1>2. t \in Mappers /\ b \in Blocks /\ b \in Kept
    BY <1>1, RemoveFinds
  <1>3. Set!RemoveMap(liveset, b) = [key     |-> [liveset.key EXCEPT ![Home[b]] = NoBlock],
                                  value   |-> liveset.value,
                                  entries |-> liveset.entries - 1]
    BY <1>2, RemoveIsHome DEF HugeInv
  <1>4. /\ liveset'.key = [liveset.key EXCEPT ![Home[b]] = NoBlock]
        /\ liveset'.value = liveset.value
    <2>1. liveset' = [Set!RemoveMap(liveset, b) EXCEPT !.entries = liveset.entries]
      BY DEF Remove
    <2> QED BY <1>3, <2>1
  <1>5. pc' = [pc EXCEPT ![t] = "load_down"]
    <2>1. liveset'.key[Home[b]] = NoBlock /\ liveset.key[Home[b]] = b
      BY <1>2, <1>4, HugeConstants DEF Kept, HugeInv, HugeTypes
    <2>2. liveset' # liveset
      BY <1>2, <2>1, HugeConstants
    <2> QED BY <2>2 DEF Remove, Goto
  <1>6. pc[t] \notin Walking /\ "load_down" \notin Walking
    BY <1>1 DEF Walking
  <1>7. /\ \A L \in SUBSET (Inserting \cup Removing) :
              /\ Counting(L) <=> pc[t] \in L
              /\ Counting(L)' <=> "load_down" \in L
        /\ \A L \in SUBSET Walking : Counting(L)' <=> Counting(L)
        /\ Interval' <=> Interval
        /\ \A u \in Threads : u # t => pc'[u] = pc[u] /\ pc[u] \notin Inserting \cup Removing
        /\ pc'[t] = "load_down"
    BY <1>2, <1>5, <1>6, HookCounts
  <1>8. Kept' = Kept \ {b}
    BY <1>2, <1>4, HugeConstants DEF HugeInv, HugeTypes, Kept, OneMapper
  <1>9. ~Stays(b) /\ \A c : c # b => (Stays(c)' <=> Stays(c))
    BY <1>1, <1>7 DEF Stays, Removing
  <1>10. WalkLags'
    <2>1. Counting(Inserting \cup Removing) /\ Unspent /\ ~Unspent'
      BY <1>1, <1>7 DEF Unspent, Inserting, Removing
    <2>2. Behind \in SUBSET Blocks /\ Behind' = Behind \ {b}
      BY <1>1, <1>8 DEF Behind, Kept
    <2>3. /\ Cardinality(Behind) \in Nat /\ Cardinality(Behind') \in Nat
          /\ Cardinality(Behind) <= Cardinality(Behind') + 1
      BY <2>2, FewBlocks, FS_RemoveElement
    <2>4. walk.met \in Nat /\ overlap \in Nat
      BY WalkTypes DEF HugeInv, HugeTypes, AgesInv, AgesTypes
    <2> QED BY <1>1, <1>7, <2>1, <2>3, <2>4 DEF AgesInv, WalkLags
  <1>11. ThroughoutKept'
    BY <1>1, <1>7, <1>8, <1>9 DEF AgesInv, ThroughoutKept
  <1>12. (Counting({"rows", "read"})' <=> Counting({"rows", "read"})) /\ (Counting({"ticks"})' <=> Counting({"ticks"}))
    BY <1>7 DEF Walking
  <1>13. RowsMade'
    BY <1>1, <1>12 DEF AgesInv, RowsMade, MissesBounded, Counting
  <1>14. AgesOK'
    <2>1. ASSUME NEW c \in Kept', Stays(c)' PROVE AgeOK(c, liveset.value[Home[c]])'
      <3>1. AgeOK(c, liveset.value[Home[c]])
        BY <1>8, <1>9, <2>1 DEF AgesInv, AgesOK
      <3> QED BY <1>1, <1>4, <1>7, <1>12, <3>1 DEF AgeOK, Past
    <2> QED BY <2>1 DEF AgesOK
  <1>15. InsertsFresh'
    BY <1>7 DEF InsertsFresh, Inserting
  <1> QED BY <1>1, <1>10, <1>11, <1>13, <1>14, <1>15 DEF AgesInv, AgesTypes

---------------------------------------------------------------------------
(* The walk of an interval                                                 *)

\* A step of the walk from one label to another moves no hook.
LEMMA WalkCounts ==
  ASSUME OneMapper, HugeInv, NEW t \in Threads, pc[t] \in Walking,
         NEW label \in {"run"} \cup Walking, pc' = [pc EXCEPT ![t] = label]
  PROVE  /\ \A L \in SUBSET (Inserting \cup Removing) : Counting(L)' <=> Counting(L)
         /\ \A L \in SUBSET Walking : (Counting(L) <=> pc[t] \in L) /\ (Counting(L)' <=> label \in L)
         /\ Interval /\ (Interval' <=> label \in Walking)
         /\ \A u \in Threads, l \in Inserting \cup Removing : pc'[u] = l <=> pc[u] = l
  <1>1. \A u \in Threads : u # t => pc'[u] = pc[u] /\ pc[u] \notin Walking
    BY DEF HugeInv, HugeTypes, OneWalk
  <1>2. pc'[t] = label /\ label \notin Inserting \cup Removing /\ pc[t] \notin Inserting \cup Removing
    BY DEF HugeInv, HugeTypes, Inserting, Removing, Walking
  <1> QED BY <1>1, <1>2 DEF Counting, Interval

\* A walk that ends has passed all blocks but as many as hooks overlapped it.
LEMMA WalkPassed ==
  ASSUME OneMapper, HugeInv, AgesInv, Interval, ~GoesOn
  PROVE  /\ IsFiniteSet(Kept \ Behind) /\ Cardinality(Kept \ Behind) \in Nat
         /\ Cardinality(Kept \ Behind) <= overlap
         /\ overlap = 0 => Kept = Behind
  <1>1. /\ Kept \in SUBSET Blocks /\ Behind \in SUBSET Kept
        /\ IsFiniteSet(Kept) /\ IsFiniteSet(Behind) /\ IsFiniteSet(Kept \ Behind)
        /\ Cardinality(Kept) \in Nat /\ Cardinality(Behind) \in Nat /\ Cardinality(Kept \ Behind) \in Nat
    BY FewBlocks DEF Kept, Behind
  <1>2. Cardinality(Kept \ Behind) = Cardinality(Kept) - Cardinality(Behind)
    <2>1. Kept \cap Behind = Behind
      BY <1>1
    <2> QED BY <1>1, <2>1, FS_Difference
  <1>3. /\ walk.slot \in Nat /\ walk.met \in Nat /\ overlap \in Nat /\ liveset.entries \in Nat
    BY WalkTypes DEF HugeInv, HugeTypes, AgesInv, AgesTypes
  <1>4. Cardinality(Kept) <= Cardinality(Behind) + overlap
    <2>1. CASE walk.slot >= Capacity
      <3>1. Kept = Behind
        BY <1>3, <2>1, HugeConstants DEF Kept, Behind
      <3> QED BY <1>1, <1>3, <3>1
    <2>2. CASE walk.met >= liveset.entries
      <3>1. Cardinality(Kept) <= liveset.entries + (IF Unspent THEN 1 ELSE 0)
        <4>1. CASE Counting({"load_up", "store_up"})
          <5>1. Unspent
            BY <4>1 DEF Unspent, Counting, Inserting
          <5> QED BY <1>3, <4>1, <5>1 DEF HugeInv, CounterLags
        <4>2. CASE Counting({"load_down", "store_down"})
          <5>1. Cardinality(Kept) = liveset.entries - 1
            BY <4>2 DEF HugeInv, CounterLags
          <5> QED BY <1>3, <5>1
        <4>3. CASE ~Counting({"load_up", "store_up", "load_down", "store_down"})
          <5>1. Cardinality(Kept) = liveset.entries
            BY <4>3 DEF HugeInv, CounterLags
          <5> QED BY <1>3, <5>1
        <4> QED BY <4>1, <4>2, <4>3 DEF Counting
      <3>2. walk.met + (IF Unspent THEN 1 ELSE 0) <= Cardinality(Behind) + overlap
        BY DEF AgesInv, WalkLags
      <3> QED BY <1>1, <1>3, <2>2, <3>1, <3>2
    <2> QED BY <1>3, <2>1, <2>2, HugeConstants DEF GoesOn
  <1>5. ASSUME overlap = 0 PROVE Kept = Behind
    <2>1. Cardinality(Kept \ Behind) = 0
      BY <1>1, <1>2, <1>3, <1>4, <1>5
    <2> QED BY <1>1, <2>1, FS_EmptySet
  <1> QED BY <1>1, <1>2, <1>3, <1>4, <1>5

\* One slot of a walk: with a block that is kept, or with none.
LEMMA SlotPassed ==
  ASSUME OneMapper, HugeInv, AgesInv, walk.slot < Capacity, liveset'.key = liveset.key,
         walk'.slot = walk.slot + 1,
         walk'.met = IF Page = NoBlock THEN walk.met ELSE walk.met + 1
  PROVE  /\ walk.slot \in Set!Slots /\ walk.slot \in Nat /\ Kept' = Kept
         /\ Page # NoBlock => Page \in Kept /\ Home[Page] = walk.slot
         /\ \A b \in Kept : Home[b] < walk'.slot <=> Home[b] < walk.slot \/ b = Page
         /\ walk'.met \in Nat /\ Cardinality(Behind') \in Nat
         /\ \A x \in {0, 1} : walk.met + x <= Cardinality(Behind) + overlap
              => walk'.met + x <= Cardinality(Behind') + overlap
  <1>1. walk.slot \in Set!Slots /\ walk.slot \in Nat /\ walk.met \in Nat
    BY SlotInTable, WalkTypes DEF HugeInv, HugeTypes
  <1>2. Kept' = Kept
    BY DEF Kept
  <1>3. Page # NoBlock => Page \in Kept /\ Home[Page] = walk.slot
    BY <1>1 DEF Page, Kept, HugeInv, HugeTypes, AtHome
  <1>4. ASSUME NEW b \in Kept PROVE Home[b] < walk'.slot <=> Home[b] < walk.slot \/ b = Page
    <2>1. b \in Blocks /\ Home[b] \in Nat
      BY HugeConstants DEF Kept
    <2>2. Home[b] = walk.slot <=> b = Page
      BY <1>3, <2>1, HugeConstants DEF Page, Kept
    <2> QED BY <1>1, <2>1, <2>2
  <1>5. overlap \in Nat /\ Behind \in SUBSET Blocks /\ Behind' \in SUBSET Blocks
    BY <1>2 DEF AgesInv, AgesTypes, Behind, Kept
  <1>6. CASE Page = NoBlock
    <2>1. Behind' = Behind
      BY <1>2, <1>4, <1>6, HugeConstants DEF Behind, Kept
    <2> QED BY <1>1, <1>2, <1>3, <1>4, <1>5, <1>6, <2>1, FewBlocks
  <1>7. CASE Page # NoBlock
    <2>1. Behind' = Behind \cup {Page} /\ Page \notin Behind /\ Page \in Blocks
      BY <1>1, <1>2, <1>3, <1>4, <1>7 DEF Behind, Kept
    <2>2. Cardinality(Behind') = Cardinality(Behind) + 1 /\ Cardinality(Behind) \in Nat
      BY <1>5, <2>1, OneMore, FewBlocks
    <2> QED BY <1>1, <1>2, <1>3, <1>4, <1>5, <1>7, <2>2
  <1> QED BY <1>6, <1>7

\* A step of the walk leaves the blocks, and what the hooks know, alone.
LEMMA WalkLeaves ==
  ASSUME OneMapper, HugeInv, AgesInv, NEW t \in Threads, pc[t] \in Walking,
         NEW label \in Walking, pc' = [pc EXCEPT ![t] = label],
         UNCHANGED <<block, overlap, overlaps, throughout, ticks>>, liveset'.key = liveset.key
  PROVE  /\ Kept' = Kept /\ (\A b : Stays(b)' <=> Stays(b)) /\ Interval /\ Interval'
         /\ (Unspent' <=> Unspent) /\ (Unspent => overlap >= 1)
         /\ ThroughoutKept' /\ InsertsFresh' /\ AgesTypes'
         /\ Counting(Inserting \cup Removing)' => overlap >= 1
         /\ \A L \in SUBSET Walking : (Counting(L) <=> pc[t] \in L) /\ (Counting(L)' <=> label \in L)
  <1>1. /\ \A L \in SUBSET (Inserting \cup Removing) : Counting(L)' <=> Counting(L)
        /\ \A L \in SUBSET Walking : (Counting(L) <=> pc[t] \in L) /\ (Counting(L)' <=> label \in L)
        /\ Interval /\ (Interval' <=> label \in Walking)
        /\ \A u \in Threads, l \in Inserting \cup Removing : pc'[u] = l <=> pc[u] = l
    BY WalkCounts
  <1>2. Kept' = Kept
    BY DEF Kept
  <1>3. \A b : Stays(b)' <=> Stays(b)
    BY <1>1 DEF Stays, Removing
  <1>4. Counting(Inserting \cup Removing) => overlap >= 1
    BY <1>1 DEF AgesInv, WalkLags
  <1>5. (Unspent' <=> Unspent) /\ (Unspent => Counting(Inserting \cup Removing))
    BY <1>1 DEF Unspent, Counting, Removing
  <1>6. ThroughoutKept'
    BY <1>1, <1>2, <1>3 DEF AgesInv, ThroughoutKept
  <1>7. InsertsFresh'
    BY <1>1 DEF AgesInv, InsertsFresh, Inserting
  <1>8. AgesTypes'
    BY DEF AgesInv, AgesTypes
  <1> QED BY <1>1, <1>2, <1>3, <1>4, <1>5, <1>6, <1>7, <1>8

\* The ages are as they were where no block is aged, or forgotten to be.
LEMMA SameAges ==
  ASSUME AgesInv, Kept' = Kept, \A b : Stays(b)' <=> Stays(b), Interval, Interval',
         UNCHANGED <<overlap, overlaps, throughout, ticks>>, liveset'.value = liveset.value,
         \A b \in Kept : Past(b)' = Past(b)
  PROVE  AgesOK'
  <1>1. ASSUME NEW b \in Kept, Stays(b)' PROVE AgeOK(b, liveset.value[Home[b]])'
    <2>1. AgeOK(b, liveset.value[Home[b]])
      BY <1>1 DEF AgesInv, AgesOK
    <2> QED BY <2>1 DEF AgeOK
  <1> QED BY <1>1 DEF AgesOK

\* The first walk makes a row of the block it passes.
LEMMA RowOfAges ==
  ASSUME OneMapper, HugeInv, AgesInv, NEW t \in Threads, RowOf(t)
  PROVE  AgesInv'
  <1>1. /\ pc[t] = "rows" /\ walk.slot < Capacity
        /\ UNCHANGED <<liveset, block, overlap, overlaps, throughout, ticks>>
    BY DEF RowOf, Step, GoesOn, history
  <1>2. PICK label \in {"rows", "read"} : pc' = [pc EXCEPT ![t] = label]
    <2>1. CASE Page = NoBlock
      <3>1. pc' = [pc EXCEPT ![t] = "rows"]
        BY <1>1, <2>1 DEF RowOf, HugeInv, HugeTypes
      <3> QED BY <3>1
    <2>2. CASE Page # NoBlock
      BY <2>2 DEF RowOf, Goto
    <2> QED BY <2>1, <2>2
  <1>3. /\ walk'.slot = walk.slot + 1
        /\ walk'.met = IF Page = NoBlock THEN walk.met ELSE walk.met + 1
    BY DEF RowOf, HugeInv, HugeTypes, Walks
  <1>4. Page # NoBlock => Page \in rows'
    BY DEF RowOf
  <1>5. rows \subseteq rows'
    BY DEF RowOf
  <1>6. /\ Kept' = Kept
        /\ \A b \in Kept : Home[b] < walk'.slot <=> Home[b] < walk.slot \/ b = Page
        /\ walk'.met \in Nat /\ Cardinality(Behind') \in Nat
        /\ \A x \in {0, 1} : walk.met + x <= Cardinality(Behind) + overlap
             => walk'.met + x <= Cardinality(Behind') + overlap
        /\ Page # NoBlock => Page \in Kept
    BY <1>1, <1>3, SlotPassed
  <1>7. pc[t] \in Walking /\ label \in Walking
    BY <1>1 DEF Walking
  <1>8. /\ (\A b : Stays(b)' <=> Stays(b)) /\ Interval /\ Interval'
        /\ (Unspent' <=> Unspent) /\ ThroughoutKept' /\ InsertsFresh' /\ AgesTypes'
        /\ Counting(Inserting \cup Removing)' => overlap >= 1
        /\ \A L \in SUBSET Walking : (Counting(L) <=> pc[t] \in L) /\ (Counting(L)' <=> label \in L)
    BY <1>1, <1>2, <1>7, WalkLeaves
  <1>9. WalkLags'
    <2>1. walk.met + (IF Unspent THEN 1 ELSE 0) <= Cardinality(Behind) + overlap
      BY <1>8 DEF AgesInv, WalkLags
    <2>2. (IF Unspent THEN 1 ELSE 0) \in {0, 1}
      OBVIOUS
    <2>3. walk'.met + (IF Unspent THEN 1 ELSE 0) <= Cardinality(Behind') + overlap
      BY <1>6, <2>1, <2>2
    <2> QED BY <1>1, <1>8, <2>3 DEF WalkLags
  <1>10. Counting({"rows", "read"}) /\ ~Counting({"ticks"}) /\ ~Counting({"ticks"})'
    BY <1>1, <1>2, <1>8 DEF Walking
  <1>11. RowsMade'
    <2>1. \A b \in throughout : Home[b] < walk'.slot => b \in rows'
      <3>1. \A b \in throughout : b \in Kept /\ (Home[b] < walk.slot => b \in rows)
        BY <1>8, <1>10 DEF AgesInv, ThroughoutKept, RowsMade
      <3>2. \A b \in Kept : b # NoBlock
        BY HugeConstants DEF Kept
      <3> QED BY <1>4, <1>5, <1>6, <3>1, <3>2
    <2> QED BY <1>1, <1>10, <2>1 DEF RowsMade, MissesBounded, Counting
  <1>12. AgesOK'
    <2>1. \A b : Past(b)' = Past(b)
      BY <1>10 DEF Past
    <2> QED BY <1>1, <1>6, <1>8, <2>1, SameAges
  <1> QED BY <1>8, <1>9, <1>11, <1>12 DEF AgesInv

\* Reading a block passes none.
LEMMA ReadAges ==
  ASSUME OneMapper, HugeInv, AgesInv, NEW t \in Threads, Read(t)
  PROVE  AgesInv'
  <1>1. /\ pc[t] = "read" /\ pc' = [pc EXCEPT ![t] = "rows"]
        /\ pc[t] \in Walking /\ "rows" \in Walking
        /\ UNCHANGED <<liveset, block, rows, overlap, overlaps, throughout, ticks>>
        /\ walk'.slot = walk.slot /\ walk'.met = walk.met
    BY DEF Read, Step, Goto, history, Walking, HugeInv, HugeTypes, Walks
  <1>2. /\ Kept' = Kept /\ (\A b : Stays(b)' <=> Stays(b)) /\ Interval /\ Interval'
        /\ (Unspent' <=> Unspent) /\ ThroughoutKept' /\ InsertsFresh' /\ AgesTypes'
        /\ Counting(Inserting \cup Removing)' => overlap >= 1
        /\ \A L \in SUBSET Walking : (Counting(L) <=> pc[t] \in L) /\ (Counting(L)' <=> "rows" \in L)
    BY <1>1, WalkLeaves
  <1>3. Behind' = Behind
    BY <1>1, <1>2 DEF Behind
  <1>4. WalkLags'
    BY <1>1, <1>2, <1>3 DEF AgesInv, WalkLags
  <1>5. Counting({"rows", "read"}) /\ ~Counting({"ticks"}) /\ ~Counting({"ticks"})'
    BY <1>1, <1>2 DEF Walking
  <1>6. RowsMade'
    BY <1>1, <1>5 DEF AgesInv, RowsMade, MissesBounded, Counting
  <1>7. AgesOK'
    <2>1. \A b : Past(b)' = Past(b)
      BY <1>5 DEF Past
    <2> QED BY <1>1, <1>2, <2>1, SameAges
  <1> QED BY <1>2, <1>4, <1>6, <1>7 DEF AgesInv

\* Where the walk begins again, it has passed nothing.
LEMMA WalkRestarts ==
  ASSUME walk'.slot = 0
  PROVE  Behind' = {} /\ Cardinality(Behind') = 0 /\ \A b \in Blocks : ~(Home[b] < walk'.slot)
  <1>1. \A b \in Blocks : ~(Home[b] < walk'.slot)
    BY HugeConstants
  <1>2. Behind' = {}
    BY <1>1 DEF Behind, Kept
  <1> QED BY <1>1, <1>2, FS_EmptySet

\* The first walk has made a row of every block that lived throughout, but
\* for as many as hooks overlapped it.
LEMMA RowsDoneAges ==
  ASSUME OneMapper, HugeInv, AgesInv, NEW t \in Threads, RowsDone(t)
  PROVE  AgesInv'
  <1>1. /\ pc[t] = "rows" /\ pc' = [pc EXCEPT ![t] = "ticks"] /\ ~GoesOn
        /\ pc[t] \in Walking /\ "ticks" \in Walking
        /\ UNCHANGED <<liveset, block, rows, overlap, overlaps, throughout, ticks>>
        /\ walk'.slot = 0 /\ walk'.met = 0
    BY DEF RowsDone, Step, Goto, history, Walking
  <1>2. /\ Kept' = Kept /\ (\A b : Stays(b)' <=> Stays(b)) /\ Interval /\ Interval'
        /\ (Unspent' <=> Unspent) /\ (Unspent => overlap >= 1)
        /\ ThroughoutKept' /\ InsertsFresh' /\ AgesTypes'
        /\ Counting(Inserting \cup Removing)' => overlap >= 1
        /\ \A L \in SUBSET Walking : (Counting(L) <=> pc[t] \in L) /\ (Counting(L)' <=> "ticks" \in L)
    BY <1>1, WalkLeaves
  <1>3. Cardinality(Behind') = 0 /\ \A b \in Blocks : ~(Home[b] < walk'.slot)
    BY <1>1, WalkRestarts
  <1>4. overlap \in Nat
    BY DEF AgesInv, AgesTypes
  <1>5. WalkLags'
    BY <1>1, <1>2, <1>3, <1>4 DEF WalkLags
  <1>6. Counting({"rows", "read"}) /\ ~Counting({"ticks"}) /\ ~Counting({"rows", "read"})'
    BY <1>1, <1>2 DEF Walking
  <1>7. RowsMade'
    <2>1. /\ IsFiniteSet(Kept \ Behind) /\ Cardinality(Kept \ Behind) \in Nat
          /\ Cardinality(Kept \ Behind) <= overlap
      BY <1>1, <1>2, WalkPassed
    <2>2. throughout \ rows \subseteq Kept \ Behind
      BY <1>2, <1>6 DEF AgesInv, ThroughoutKept, RowsMade, Behind
    <2>3. throughout \ rows \in SUBSET Blocks
      BY DEF AgesInv, AgesTypes
    <2>4. Cardinality(throughout \ rows) \in Nat
      BY <2>3, FewBlocks
    <2>5. Cardinality(throughout \ rows) <= Cardinality(Kept \ Behind)
      BY <2>1, <2>2, FS_Subset
    <2>6. Cardinality(throughout \ rows) <= overlap
      BY <1>4, <2>1, <2>4, <2>5
    <2> QED BY <1>1, <1>6, <2>6 DEF RowsMade, MissesBounded
  <1>8. AgesOK'
    <2>1. \A b \in Kept : Past(b)' = Past(b)
      BY <1>3, <1>6 DEF Past, Kept
    <2> QED BY <1>1, <1>2, <2>1, SameAges
  <1> QED BY <1>2, <1>5, <1>7, <1>8 DEF AgesInv

\* The second walk ages the block it passes.
LEMMA TickOfAges ==
  ASSUME OneMapper, HugeInv, AgesInv, NEW t \in Threads, TickOf(t)
  PROVE  AgesInv'
  <1>1. /\ pc[t] = "ticks" /\ walk.slot < Capacity /\ pc[t] \in Walking /\ "ticks" \in Walking
        /\ UNCHANGED <<pc, block, rows, overlap, overlaps, throughout, ticks>>
        /\ pc' = [pc EXCEPT ![t] = "ticks"]
    BY DEF TickOf, Step, GoesOn, history, Walking, HugeInv, HugeTypes
  <1>2. /\ walk'.slot = walk.slot + 1
        /\ walk'.met = IF Page = NoBlock THEN walk.met ELSE walk.met + 1
    BY DEF TickOf, HugeInv, HugeTypes, Walks
  <1>3. walk.slot \in Set!Slots
    BY <1>1, SlotInTable DEF HugeInv
  <1>4. /\ liveset'.key = liveset.key
        /\ Page # NoBlock => liveset'.value[walk.slot] = liveset.value[walk.slot] + 1
        /\ \A i \in Set!Slots : i # walk.slot => liveset'.value[i] = liveset.value[i]
    <2>1. CASE Page = NoBlock
      BY <2>1 DEF TickOf
    <2>2. CASE Page # NoBlock
      BY <1>3, <2>2 DEF TickOf, Aged, HugeInv, HugeTypes
    <2> QED BY <2>1, <2>2
  <1>5. /\ Kept' = Kept
        /\ \A b \in Kept : Home[b] < walk'.slot <=> Home[b] < walk.slot \/ b = Page
        /\ walk'.met \in Nat /\ Cardinality(Behind') \in Nat
        /\ \A x \in {0, 1} : walk.met + x <= Cardinality(Behind) + overlap
             => walk'.met + x <= Cardinality(Behind') + overlap
        /\ Page # NoBlock => Page \in Kept /\ Home[Page] = walk.slot
    BY <1>1, <1>2, <1>4, SlotPassed
  <1>6. /\ (\A b : Stays(b)' <=> Stays(b)) /\ Interval /\ Interval'
        /\ (Unspent' <=> Unspent) /\ ThroughoutKept' /\ InsertsFresh' /\ AgesTypes'
        /\ Counting(Inserting \cup Removing)' => overlap >= 1
        /\ \A L \in SUBSET Walking : (Counting(L) <=> pc[t] \in L) /\ (Counting(L)' <=> "ticks" \in L)
    BY <1>1, <1>4, WalkLeaves
  <1>7. WalkLags'
    <2>1. walk.met + (IF Unspent THEN 1 ELSE 0) <= Cardinality(Behind) + overlap
      BY <1>6 DEF AgesInv, WalkLags
    <2>2. (IF Unspent THEN 1 ELSE 0) \in {0, 1}
      OBVIOUS
    <2>3. walk'.met + (IF Unspent THEN 1 ELSE 0) <= Cardinality(Behind') + overlap
      BY <1>5, <2>1, <2>2
    <2> QED BY <1>1, <1>6, <2>3 DEF WalkLags
  <1>8. Counting({"ticks"}) /\ Counting({"ticks"})' /\ ~Counting({"rows", "read"})'
    BY <1>1, <1>6 DEF Walking
  <1>9. RowsMade'
    BY <1>1, <1>8 DEF AgesInv, RowsMade, MissesBounded
  <1>10. AgesOK'
    <2>1. ASSUME NEW c \in Kept, Stays(c)' PROVE AgeOK(c, liveset.value[Home[c]])'
      <3>1. AgeOK(c, liveset.value[Home[c]])
        BY <1>6, <2>1 DEF AgesInv, AgesOK
      <3>2. c \in Blocks /\ Home[c] \in Set!Slots /\ c # NoBlock /\ Home[c] \in Nat
        BY HugeConstants DEF Kept
      <3>3. CASE c = Page
        <4>1. liveset'.value[Home[c]] = liveset.value[Home[c]] + 1
          BY <1>4, <1>5, <3>2, <3>3
        <4>2. Past(c) = 0 /\ Past(c)' = 1
          BY <1>5, <1>8, <2>1, <3>2, <3>3 DEF Past
        <4>3. liveset.value[Home[c]] \in Int /\ ticks[c] \in Nat /\ overlap \in Nat /\ overlaps \in Nat
          BY <3>2 DEF HugeInv, HugeTypes, AgesInv, AgesTypes
        <4> QED BY <1>1, <1>6, <3>1, <4>1, <4>2, <4>3 DEF AgeOK
      <3>4. CASE c # Page
        <4>1. Home[c] # walk.slot
          BY <2>1, <3>2, <3>4 DEF Kept, Page
        <4>2. liveset'.value[Home[c]] = liveset.value[Home[c]]
          BY <1>4, <3>2, <4>1
        <4>3. Past(c)' = Past(c)
          BY <1>5, <1>8, <2>1, <3>4 DEF Past
        <4> QED BY <1>1, <1>6, <3>1, <4>2, <4>3 DEF AgeOK
      <3> QED BY <3>3, <3>4
    <2> QED BY <1>5, <2>1 DEF AgesOK
  <1> QED BY <1>6, <1>7, <1>9, <1>10 DEF AgesInv

\* At the end the blocks of the whole interval are an interval older; one
\* that was not aged was missed for a hook.
LEMMA EndAges ==
  ASSUME OneMapper, HugeInv, AgesInv, NEW t \in Threads, End(t)
  PROVE  AgesInv'
  <1>1. /\ pc[t] = "ticks" /\ pc' = [pc EXCEPT ![t] = "run"] /\ ~GoesOn
        /\ pc[t] \in Walking /\ "run" \notin Walking
        /\ UNCHANGED <<liveset, block, rows, overlap, overlaps, throughout>>
        /\ ticks' = [b \in Blocks |-> IF b \in throughout THEN ticks[b] + 1 ELSE ticks[b]]
    BY DEF End, Step, Goto, Walking
  <1>2. /\ \A L \in SUBSET Walking : (Counting(L) <=> pc[t] \in L) /\ (Counting(L)' <=> "run" \in L)
        /\ Interval /\ ~Interval'
        /\ \A u \in Threads, l \in Inserting \cup Removing : pc'[u] = l <=> pc[u] = l
    BY <1>1, WalkCounts
  <1>3. AgesTypes'
    BY <1>1 DEF AgesInv, AgesTypes
  <1>4. WalkLags' /\ ThroughoutKept'
    BY <1>2 DEF WalkLags, ThroughoutKept
  <1>5. RowsMade'
    <2>1. ~Counting({"rows", "read"})' /\ ~Counting({"ticks"})'
      BY <1>1, <1>2 DEF Walking
    <2> QED BY <2>1 DEF RowsMade, MissesBounded, Counting
  <1>6. AgesOK'
    <2>1. Kept' = Kept /\ (\A b : Stays(b)' <=> Stays(b))
      BY <1>1, <1>2 DEF Kept, Stays, Removing
    <2>2. Counting({"ticks"})
      BY <1>1, <1>2
    <2>3. ASSUME NEW c \in Kept, Stays(c)' PROVE AgeOK(c, liveset.value[Home[c]])'
      <3>1. AgeOK(c, liveset.value[Home[c]])
        BY <2>1, <2>3 DEF AgesInv, AgesOK
      <3>2. c \in Blocks /\ Home[c] \in Set!Slots
        BY HugeConstants DEF Kept
      <3>3. liveset.value[Home[c]] \in Int /\ ticks[c] \in Nat /\ overlap \in Nat /\ overlaps \in Nat
        BY <3>2 DEF HugeInv, HugeTypes, AgesInv, AgesTypes
      <3>4. Past(c) \in {0, 1} /\ (Past(c) = 0 => overlap >= 1)
        <4>1. Past(c) \in {0, 1}
          BY DEF Past
        <4>2. Past(c) = 0 => c \notin Behind
          BY <2>2 DEF Past, Behind
        <4>3. overlap = 0 => c \in Behind
          BY <1>1, <1>2, <2>3, WalkPassed
        <4> QED BY <3>3, <4>1, <4>2, <4>3
      <3>5. ticks'[c] = IF c \in throughout THEN ticks[c] + 1 ELSE ticks[c]
        BY <1>1, <3>2
      <3>6. CASE c \in throughout
        <4>1. /\ ticks[c] + Past(c) <= liveset.value[Home[c]] + (overlaps - overlap)
              /\ liveset.value[Home[c]] <= ticks[c] + 1 + Past(c)
          BY <1>2, <3>1, <3>6 DEF AgeOK
        <4>2. /\ ticks'[c] <= liveset.value[Home[c]] + overlaps
              /\ liveset.value[Home[c]] <= ticks'[c] + 1
          BY <3>3, <3>4, <3>5, <3>6, <4>1
        <4> QED BY <1>1, <1>2, <4>2 DEF AgeOK
      <3>7. CASE c \notin throughout
        <4>1. ticks[c] = 0 /\ 0 <= liveset.value[Home[c]] /\ liveset.value[Home[c]] <= Past(c)
          BY <1>2, <3>1, <3>7 DEF AgeOK
        <4>2. /\ ticks'[c] <= liveset.value[Home[c]] + overlaps
              /\ liveset.value[Home[c]] <= ticks'[c] + 1
          BY <3>3, <3>4, <3>5, <3>7, <4>1
        <4> QED BY <1>1, <1>2, <4>2 DEF AgeOK
      <3> QED BY <3>6, <3>7
    <2> QED BY <2>1, <2>3 DEF AgesOK
  <1>7. InsertsFresh'
    <2>1. ASSUME NEW u \in Threads, pc'[u] = "insert" PROVE ticks'[block'[u]] = 0
      <3>1. pc[u] = "insert"
        BY <1>2, <2>1 DEF Inserting
      <3>2. block[u] \in Blocks /\ block[u] \notin Kept /\ ticks[block[u]] = 0
        BY <3>1, InsertHasRoom DEF AgesInv, InsertsFresh
      <3>3. block[u] \notin throughout
        BY <1>2, <3>2 DEF AgesInv, ThroughoutKept
      <3> QED BY <1>1, <3>2, <3>3
    <2> QED BY <2>1 DEF InsertsFresh
  <1> QED BY <1>3, <1>4, <1>5, <1>6, <1>7 DEF AgesInv

\* An interval begins with the blocks that are kept and not being removed;
\* a hook that is under way is counted.
LEMMA BeginAges ==
  ASSUME OneMapper, HugeInv, AgesInv, NEW t \in Threads, Begin(t)
  PROVE  AgesInv'
  <1> DEFINE H == {u \in Threads : InHook(u)}
  <1>1. /\ pc[t] = "run" /\ ~Interval /\ pc' = [pc EXCEPT ![t] = "rows"]
        /\ walk'.slot = 0 /\ walk'.met = 0
        /\ throughout' = {liveset.key[i] : i \in Set!Occupied(liveset)}
                           \ {block[u] : u \in {v \in Threads : pc[v] \in Removing}}
        /\ overlap' = Cardinality(H) /\ overlaps' = overlaps + overlap'
        /\ UNCHANGED <<liveset, block, ticks>>
    BY DEF Begin, Goto
  <1>2. /\ \A u \in Threads : u # t => pc'[u] = pc[u] /\ pc[u] \notin Walking
        /\ pc'[t] = "rows" /\ "rows" \in Walking /\ Interval'
    BY <1>1 DEF HugeInv, HugeTypes, Interval, Walking
  <1>3. \A u \in Threads, l \in Inserting \cup Removing : pc'[u] = l <=> pc[u] = l
    BY <1>1, <1>2 DEF Inserting, Removing
  <1>4. overlap' \in Nat /\ ((\E u \in Threads : InHook(u)) => overlap' >= 1)
    <2>1. CASE H = {}
      BY <1>1, <2>1, FS_EmptySet
    <2>2. CASE H # {}
      <3>1. PICK u \in Threads : InHook(u)
        BY <2>2
      <3>2. H = {u}
        BY <3>1 DEF OneMapper, HugeInv, HooksOwn
      <3>3. Cardinality({u}) = 1
        BY FS_Singleton
      <3>4. overlap' = 1
        BY <1>1, <3>2, <3>3, Zenon
      <3> QED BY <3>4
    <2> QED BY <2>1, <2>2
  <1>5. Kept' = Kept /\ (\A b : Stays(b)' <=> Stays(b))
    BY <1>1, <1>3 DEF Kept, Stays, Removing
  <1>6. {liveset.key[i] : i \in Set!Occupied(liveset)} = Kept
    BY HugeConstants DEF HugeInv, HugeTypes, AtHome, Kept, Set!Occupied
  <1>7. AgesTypes'
    <2>1. throughout' \subseteq Blocks
      BY <1>1, <1>6 DEF Kept
    <2> QED BY <1>1, <1>4, <2>1 DEF AgesInv, AgesTypes
  <1>8. Cardinality(Behind') = 0 /\ \A b \in Blocks : ~(Home[b] < walk'.slot)
    BY <1>1, WalkRestarts
  <1>9. WalkLags'
    <2>1. Counting(Inserting \cup Removing)' => overlap' >= 1
      BY <1>3, <1>4 DEF Counting, InHook
    <2>2. Unspent' => Counting(Inserting \cup Removing)'
      BY DEF Unspent, Counting, Removing
    <2> QED BY <1>1, <1>4, <1>8, <2>1, <2>2 DEF WalkLags
  <1>10. ThroughoutKept'
    <2>1. \A b \in throughout' : b \in Kept /\ Stays(b)
      BY <1>1, <1>6 DEF Stays, Removing
    <2> QED BY <1>5, <2>1 DEF ThroughoutKept
  <1>11. ~Counting({"ticks"})'
    BY <1>2 DEF Counting, Walking
  <1>12. RowsMade'
    <2>1. \A b \in throughout' : ~(Home[b] < walk'.slot)
      BY <1>7, <1>8 DEF AgesTypes
    <2> QED BY <1>11, <2>1 DEF RowsMade, MissesBounded, Counting
  <1>13. AgesOK'
    <2>1. ASSUME NEW c \in Kept, Stays(c)' PROVE AgeOK(c, liveset.value[Home[c]])'
      <3>1. ticks[c] <= liveset.value[Home[c]] + overlaps /\ liveset.value[Home[c]] <= ticks[c] + 1
        BY <1>1, <1>5, <2>1 DEF AgesInv, AgesOK, AgeOK
      <3>2. c \in throughout'
        <4>1. ASSUME NEW u \in Threads, pc[u] \in Removing, block[u] = c PROVE FALSE
          <5>1. pc[u] = "remove"
            BY <2>1, <4>1 DEF HugeInv, KeptExact, Outside, Removing, Kept
          <5> QED BY <1>5, <2>1, <4>1, <5>1 DEF Stays
        <4> QED BY <1>1, <1>6, <4>1
      <3>3. Past(c)' = 0
        BY <1>11 DEF Past
      <3>4. overlaps' - overlap' = overlaps /\ ticks[c] \in Nat /\ liveset.value[Home[c]] \in Int /\ overlaps \in Nat
        BY <1>1, <1>4, HugeConstants DEF HugeInv, HugeTypes, AgesInv, AgesTypes, Kept
      <3>5. /\ ticks'[c] + Past(c)' <= liveset'.value[Home[c]] + (overlaps' - overlap')
            /\ liveset'.value[Home[c]] <= ticks'[c] + 1 + Past(c)'
        BY <1>1, <3>1, <3>3, <3>4
      <3> QED BY <1>2, <3>2, <3>5 DEF AgeOK
    <2> QED BY <1>5, <2>1 DEF AgesOK
  <1>14. InsertsFresh'
    BY <1>1, <1>3 DEF AgesInv, InsertsFresh, Inserting
  <1> QED BY <1>7, <1>9, <1>10, <1>12, <1>13, <1>14 DEF AgesInv
---------------------------------------------------------------------------
(* The theorems about rows and ages                                        *)

\* At the start nothing is kept and no interval runs.
LEMMA AgesInitial == OneMapper /\ Init => AgesInv
  <1> SUFFICES ASSUME OneMapper, Init PROVE AgesInv
    OBVIOUS
  <1>1. \A t \in Threads : pc[t] = "run"
    BY DEF Init
  <1>2. ~Interval /\ \A L : "run" \notin L => ~Counting(L)
    BY <1>1 DEF Interval, Walking, Counting
  <1>3. Kept = {}
    BY HugeConstants DEF Init, Set!EmptyMap, Kept
  <1>4. AgesTypes
    BY DEF Init, AgesTypes
  <1>5. WalkLags /\ ThroughoutKept
    BY <1>2 DEF WalkLags, ThroughoutKept
  <1>6. RowsMade
    BY <1>1 DEF RowsMade, MissesBounded, Counting
  <1>7. AgesOK /\ InsertsFresh
    BY <1>1, <1>3 DEF AgesOK, InsertsFresh
  <1> QED BY <1>4, <1>5, <1>6, <1>7 DEF AgesInv

\* Every step keeps what the walks miss and age within its bounds.
LEMMA AgesStep ==
  ASSUME OneMapper, HugeInv, HugeInv', AgesInv, [Next]_vars
  PROVE  AgesInv'
  <1>1. CASE UNCHANGED vars
    <2>1. UNCHANGED <<liveset, pc, block, walk, rows, throughout, overlap, overlaps, ticks>>
      BY <1>1 DEF vars
    <2>2. Kept' = Kept /\ Behind' = Behind /\ (Interval' <=> Interval) /\ (Unspent' <=> Unspent)
      BY <2>1 DEF Kept, Behind, Interval, Unspent, Counting
    <2>3. (\A b : Stays(b)' <=> Stays(b)) /\ (\A b : Past(b)' = Past(b)) /\ (\A L : Counting(L)' <=> Counting(L))
      BY <2>1 DEF Stays, Past, Counting
    <2>4. AgesTypes' /\ WalkLags' /\ ThroughoutKept' /\ RowsMade' /\ InsertsFresh'
      BY <2>1, <2>2, <2>3 DEF AgesInv, AgesTypes, WalkLags, ThroughoutKept, RowsMade, MissesBounded, InsertsFresh
    <2>5. AgesOK'
      BY <2>1, <2>2, <2>3 DEF AgesInv, AgesOK, AgeOK
    <2> QED BY <2>4, <2>5 DEF AgesInv
  <1>2. CASE Next
    <2>1. PICK t \in Threads :
            \/ MapBlock(t) \/ ReleaseBlock(t)
            \/ Insert(t) \/ Remove(t) \/ Load(t) \/ StoreUp(t) \/ StoreDown(t) \/ Unmap(t)
            \/ Begin(t) \/ RowOf(t) \/ Read(t) \/ RowsDone(t) \/ TickOf(t) \/ End(t)
      BY <1>2 DEF Next
    <2> QED BY <2>1, MapBlockAges, ReleaseBlockAges, InsertAges, RemoveAges, QuietAges, BeginAges,
               RowOfAges, ReadAges, RowsDoneAges, TickOfAges, EndAges
  <1> QED BY <1>1, <1>2

\* What the walks miss and what they age, whatever hooks overlap them.
THEOREM AgesInductive == OneMapper => (Spec => [](HugeInv /\ AgesInv))
  <1> SUFFICES ASSUME OneMapper PROVE Spec => [](HugeInv /\ AgesInv)
    OBVIOUS
  <1>1. Init => HugeInv /\ AgesInv
    BY Initial, AgesInitial
  <1>2. HugeInv /\ AgesInv /\ [Next]_vars => (HugeInv /\ AgesInv)'
    BY HugeStep, AgesStep
  <1> QED BY <1>1, <1>2, PTL DEF Spec

\* With one mapping thread, the rows of an interval miss at most one of the
\* blocks that lived throughout for each hook that overlapped it (all.cpp:440).
THEOREM MissesAreBounded == OneMapper => (Spec => []MissesBounded)
  <1> SUFFICES ASSUME OneMapper PROVE Spec => []MissesBounded
    OBVIOUS
  <1>1. HugeInv /\ AgesInv => MissesBounded
    BY DEF AgesInv, RowsMade
  <1> QED BY <1>1, AgesInductive, PTL

\* With one mapping thread, the age of a block is the number of intervals it
\* lived through, within the bounds of AgesFollow (all.cpp:653).
THEOREM AgesDoFollow == OneMapper => (Spec => []AgesFollow)
  <1> SUFFICES ASSUME OneMapper PROVE Spec => []AgesFollow
    OBVIOUS
  <1>1. HugeInv /\ AgesInv => AgesFollow
    <2> SUFFICES ASSUME HugeInv, AgesInv, NEW i \in Set!Occupied(liveset),
                        ~Interval, liveset.key[i] \in Live
                 PROVE  /\ liveset.value[i] <= ticks[liveset.key[i]] + 1
                        /\ liveset.value[i] >= ticks[liveset.key[i]] - overlaps
      BY DEF AgesFollow
    <2> DEFINE b == liveset.key[i]
    <2>1. i \in Set!Slots /\ b \in Blocks /\ Home[b] = i /\ b \in Kept
      BY HugeConstants DEF HugeInv, HugeTypes, AtHome, Kept, Set!Occupied
    <2>2. Stays(b)
      BY DEF Stays, Live
    <2>3. ticks[b] <= liveset.value[i] + overlaps /\ liveset.value[i] <= ticks[b] + 1
      BY <2>1, <2>2 DEF AgesInv, AgesOK, AgeOK
    <2>4. ticks[b] \in Nat /\ overlaps \in Nat /\ liveset.value[i] \in Int
      BY <2>1 DEF AgesInv, AgesTypes, HugeInv, HugeTypes
    <2> QED BY <2>3, <2>4
  <1> QED BY <1>1, AgesInductive, PTL
=============================================================================
