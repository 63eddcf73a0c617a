------------------------ MODULE IntervalTestsProofs ------------------------
(***************************************************************************)
(* Proofs about the tests, for any number of allocations, pages and        *)
(* windows and for every order of events the suite can deliver.            *)
(***************************************************************************)
EXTENDS IntervalTests, OtherTestsProps, FiniteSetTheorems, SequenceTheorems, TLAPS

---------------------------------------------------------------------------
(* One family of windows                                                   *)

\* The family x shows, for every object, n[p]: the ticks since it was last
\* inserted.
Shows(x, n) ==
  /\ x \in Access!Families
  /\ n \in [Ptrs -> Nat]
  /\ \A k \in Access!Window : \A p \in Ptrs : p \in x[k] <=> n[p] < k

\* n after the objects of S are inserted, and after a tick.
Zeroed(n, S) == [p \in Ptrs |-> IF p \in S THEN 0 ELSE n[p]]
Older(n) == [p \in Ptrs |-> Later(n[p])]

\* Objects inserted in all windows have had no tick since.
LEMMA InsertShows ==
  ASSUME NEW x, NEW n, Shows(x, n), NEW S \in SUBSET Ptrs
  PROVE  Shows(Access!Insert(x, S), Zeroed(n, S))
  <1> USE WindowsAssumption DEF Shows, Zeroed, Access!Insert, Access!Families, Access!Window
  <1>1. Zeroed(n, S) \in [Ptrs -> Nat]
    OBVIOUS
  <1>2. Access!Insert(x, S) \in Access!Families
    OBVIOUS
  <1>3. ASSUME NEW k \in Access!Window, NEW p \in Ptrs
        PROVE  p \in Access!Insert(x, S)[k] <=> Zeroed(n, S)[p] < k
    <2>1. CASE p \in S
      BY <2>1
    <2>2. CASE p \notin S
      BY <2>2
    <2> QED BY <2>1, <2>2
  <1> QED BY <1>1, <1>2, <1>3

\* A tick moves every object into the next window, the last window into
\* nothing, which is what one more tick of its age says.
LEMMA TickShows ==
  ASSUME NEW x, NEW n, Shows(x, n)
  PROVE  Shows(Access!Ticked(x), Older(n))
  <1> USE WindowsAssumption DEF Shows, Older, Access!Families, Access!Window
  <1>1. /\ Older(n) \in [Ptrs -> Nat]
        /\ \A p \in Ptrs : Later(n[p]) >= 1
    BY DEF Later, Saturated
  <1>2. Access!Ticked(x) \in Access!Families
    BY DEF Access!Ticked, Access!Shifted
  <1>3. ASSUME NEW k \in Access!Window, NEW p \in Ptrs
        PROVE  p \in Access!Ticked(x)[k] <=> Older(n)[p] < k
    <2>1. CASE k = 1
      BY <1>1, <2>1 DEF Access!Ticked, Access!Shifted
    <2>2. CASE k # 1
      <3>1. k - 1 \in Access!Window /\ Access!Ticked(x)[k] = x[k - 1]
        BY <2>2 DEF Access!Ticked, Access!Shifted
      <3>2. n[p] < k - 1 <=> Later(n[p]) < k
        BY <2>2 DEF Later, Saturated
      <3> QED BY <3>1, <3>2
    <2> QED BY <2>1, <2>2
  <1> QED BY <1>1, <1>2, <1>3

---------------------------------------------------------------------------
(* The three families                                                      *)

Ticks == [touch : Nat, write : Nat, read : Nat, birth : Nat]

Touches == [p \in Ptrs |-> ticks[p].touch]
Writes == [p \in Ptrs |-> ticks[p].write]
Reads == [p \in Ptrs |-> ticks[p].read]

\* The inductive invariant: with the types, WindowsExact is inductive.
WindowInv ==
  /\ pending \in Ptrs \cup {NoPtr}
  /\ registered \in Tests
  /\ ticks \in [Ptrs -> Ticks]
  /\ registered = "AccessPatternTest" =>
       /\ Shows(accessed, Touches)
       /\ Shows(write_accessed, Writes)
       /\ Shows(read_accessed, Reads)

\* Nothing has been accessed, and nothing has been for Windows + 1 ticks.
LEMMA WindowInvInit == Init => WindowInv
  <1> SUFFICES ASSUME Init PROVE WindowInv
    OBVIOUS
  <1> USE WindowsAssumption DEF Init, Ticks
  <1>1. pending \in Ptrs \cup {NoPtr} /\ registered \in Tests /\ ticks \in [Ptrs -> Ticks]
    BY DEF EventsInit
  <1>2. /\ Shows(accessed, Touches)
        /\ Shows(write_accessed, Writes)
        /\ Shows(read_accessed, Reads)
    BY <1>1 DEF Shows, Touches, Writes, Reads, Access!AccessInit, Access!None,
                Access!Families, Access!Window
  <1> QED BY <1>1, <1>2 DEF WindowInv

\* A report is an access of all kinds.
LEMMA ReportKeepsWindows ==
  ASSUME WindowInv, NEW p \in Ptrs, HearAlloc(p), Count(p), registered' = registered
  PROVE  /\ ticks' \in [Ptrs -> Ticks]
         /\ registered' = "AccessPatternTest" =>
              /\ Shows(accessed', Touches')
              /\ Shows(write_accessed', Writes')
              /\ Shows(read_accessed', Reads')
  <1>1. ticks' \in [Ptrs -> Ticks]
    BY DEF WindowInv, Count, Ticks
  <1>2. ASSUME registered = "AccessPatternTest"
        PROVE  /\ Shows(accessed', Touches')
               /\ Shows(write_accessed', Writes')
               /\ Shows(read_accessed', Reads')
    <2>1. /\ accessed' = Access!Insert(accessed, {p})
          /\ write_accessed' = Access!Insert(write_accessed, {p})
          /\ read_accessed' = Access!Insert(read_accessed, {p})
      BY <1>2 DEF HearAlloc, Access!on_alloc
    <2>2. /\ Touches' = Zeroed(Touches, {p})
          /\ Writes' = Zeroed(Writes, {p})
          /\ Reads' = Zeroed(Reads, {p})
      BY <1>2 DEF Count, Touches, Writes, Reads, Zeroed, WindowInv, Ticks
    <2> QED BY <1>2, <2>1, <2>2, InsertShows DEF WindowInv
  <1> QED BY <1>1, <1>2

\* What an access touches, and only that, is zeroed.
LEMMA TouchZeroes ==
  ASSUME WindowInv, NEW written \in SUBSET Ptrs, NEW read \in SUBSET Ptrs
  PROVE  /\ Touch(written, read) \in [Ptrs -> Ticks]
         /\ [p \in Ptrs |-> Touch(written, read)[p].touch] = Zeroed(Touches, written \cup read)
         /\ [p \in Ptrs |-> Touch(written, read)[p].write] = Zeroed(Writes, written)
         /\ [p \in Ptrs |-> Touch(written, read)[p].read] = Zeroed(Reads, read)
  BY DEF Touch, Zeroed, Touches, Writes, Reads, WindowInv, Ticks

\* AccessPatternTest's interval touches what it finds, then ages everything.
LEMMA AccessRunIs ==
  ASSUME WindowInv, RunAccessPatternTest
  PROVE  \E written \in SUBSET Ptrs, read \in SUBSET Ptrs :
           /\ Access!interval(written, read)
           /\ ticks' \in [Ptrs -> Ticks]
           /\ Touches' = Older(Zeroed(Touches, written \cup read))
           /\ Writes' = Older(Zeroed(Writes, written))
           /\ Reads' = Older(Zeroed(Reads, read))
  <1>1. PICK written \in SUBSET Ptrs, read \in SUBSET Ptrs :
          /\ Access!interval(written, read)
          /\ ticks' = [p \in Ptrs |-> [touch |-> Later(Touch(written, read)[p].touch),
                                       write |-> Later(Touch(written, read)[p].write),
                                       read  |-> Later(Touch(written, read)[p].read),
                                       birth |-> Later(Touch(written, read)[p].birth)]]
    <2>1. PICK resident \in SUBSET (IF guard_accesses THEN {} ELSE Pages) :
            \E dirty \in SUBSET resident : \E referenced \in SUBSET resident :
              LET written == Access!TouchedBy(Recorded, resident, dirty)
                  read    == Access!TouchedBy(Recorded, resident, referenced) \ written
                  seen    == Touch(written, read)
              IN /\ Access!interval(written, read)
                 /\ ticks' = [p \in Ptrs |-> [touch |-> Later(seen[p].touch),
                                              write |-> Later(seen[p].write),
                                              read  |-> Later(seen[p].read),
                                              birth |-> Later(seen[p].birth)]]
      BY DEF RunAccessPatternTest
    <2>2. PICK dirty \in SUBSET resident, referenced \in SUBSET resident :
              LET written == Access!TouchedBy(Recorded, resident, dirty)
                  read    == Access!TouchedBy(Recorded, resident, referenced) \ written
                  seen    == Touch(written, read)
              IN /\ Access!interval(written, read)
                 /\ ticks' = [p \in Ptrs |-> [touch |-> Later(seen[p].touch),
                                              write |-> Later(seen[p].write),
                                              read  |-> Later(seen[p].read),
                                              birth |-> Later(seen[p].birth)]]
      BY <2>1
    <2>3. \A S \in SUBSET resident : Access!TouchedBy(Recorded, resident, S) \in SUBSET Ptrs
      BY DEF Access!TouchedBy, Recorded
    <2>4. PICK written \in SUBSET Ptrs :
            written = Access!TouchedBy(Recorded, resident, dirty)
      BY <2>3
    <2>5. PICK read \in SUBSET Ptrs :
            read = Access!TouchedBy(Recorded, resident, referenced) \ written
      BY <2>3
    <2> QED BY <2>2, <2>4, <2>5
  <1>2. /\ Touch(written, read) \in [Ptrs -> Ticks]
        /\ [p \in Ptrs |-> Touch(written, read)[p].touch] = Zeroed(Touches, written \cup read)
        /\ [p \in Ptrs |-> Touch(written, read)[p].write] = Zeroed(Writes, written)
        /\ [p \in Ptrs |-> Touch(written, read)[p].read] = Zeroed(Reads, read)
    BY TouchZeroes
  <1>3. /\ Touches' = Older(Zeroed(Touches, written \cup read))
        /\ Writes' = Older(Zeroed(Writes, written))
        /\ Reads' = Older(Zeroed(Reads, read))
    BY <1>1, <1>2 DEF Touches, Writes, Reads, Older, Zeroed
  <1>4. ticks' \in [Ptrs -> Ticks]
    <2>1. \A n \in Nat : Later(n) \in Nat
      BY WindowsAssumption DEF Later, Saturated
    <2> QED BY <1>1, <1>2, <2>1 DEF Ticks
  <1> QED BY <1>1, <1>3, <1>4

\* Only reports, deliveries and AccessPatternTest's interval touch the windows.
LEMMA WindowInvStep == WindowInv /\ [Next]_vars => WindowInv'
  <1> SUFFICES ASSUME WindowInv, [Next]_vars PROVE WindowInv'
    OBVIOUS
  <1>1. ASSUME NEW p \in Ptrs, Announce(p) PROVE WindowInv'
    <2>1. pending' \in Ptrs \cup {NoPtr} /\ registered' = registered
      BY <1>1 DEF Announce, announce, config
    <2>2. HearAlloc(p) /\ Count(p)
      BY <1>1 DEF Announce
    <2> QED BY <2>1, <2>2, ReportKeepsWindows DEF WindowInv
  <1>2. ASSUME AnnounceAgain PROVE WindowInv'
    <2>1. pending \in Ptrs /\ pending' = NoPtr /\ registered' = registered
      BY <1>2 DEF AnnounceAgain, announce_again, config, WindowInv
    <2>2. HearAlloc(pending) /\ Count(pending)
      BY <1>2 DEF AnnounceAgain
    <2> QED BY <2>1, <2>2, ReportKeepsWindows DEF WindowInv
  <1>3. ASSUME NEW p \in Ptrs, Retract(p) PROVE WindowInv'
    \* on_free leaves the families of accesses alone.
    BY <1>3 DEF Retract, retract, HearFree, Access!on_free, access_vars, config, history,
                WindowInv, Touches, Writes, Reads
  <1>4. ASSUME Begin PROVE WindowInv'
    BY <1>4 DEF Begin, begin, access_vars, config, history, WindowInv, Touches, Writes, Reads
  <1>5. ASSUME DeliverAccesses PROVE WindowInv'
    <2>1. pending' = pending /\ registered' = registered
      BY <1>5 DEF DeliverAccesses, event_vars, config
    <2>2. CASE registered = "AccessPatternTest"
      <3>1. PICK written \in SUBSET Delivered, read \in SUBSET Delivered :
              Access!on_access(written, read) /\ ticks' = Touch(written, read)
        BY <1>5, <2>2 DEF DeliverAccesses
      <3>2. written \in SUBSET Ptrs /\ read \in SUBSET Ptrs
        BY DEF Delivered, Recorded
      <3>3. /\ ticks' \in [Ptrs -> Ticks]
            /\ Touches' = Zeroed(Touches, written \cup read)
            /\ Writes' = Zeroed(Writes, written)
            /\ Reads' = Zeroed(Reads, read)
        <4>1. /\ Touch(written, read) \in [Ptrs -> Ticks]
              /\ [p \in Ptrs |-> Touch(written, read)[p].touch]
                   = Zeroed(Touches, written \cup read)
              /\ [p \in Ptrs |-> Touch(written, read)[p].write] = Zeroed(Writes, written)
              /\ [p \in Ptrs |-> Touch(written, read)[p].read] = Zeroed(Reads, read)
          BY <3>2, TouchZeroes
        <4> QED BY <3>1, <4>1 DEF Touches, Writes, Reads
      <3>4. /\ accessed' = Access!Insert(accessed, written \cup read)
            /\ write_accessed' = Access!Insert(write_accessed, written)
            /\ read_accessed' = Access!Insert(read_accessed, read)
        BY <3>1 DEF Access!on_access
      <3> QED BY <2>1, <2>2, <3>2, <3>3, <3>4, InsertShows DEF WindowInv
    <2>3. CASE registered # "AccessPatternTest"
      BY <1>5, <2>1, <2>3 DEF DeliverAccesses, WindowInv, access_vars, Touches, Writes, Reads
    <2> QED BY <2>2, <2>3
  <1>6. ASSUME RunAllTest PROVE WindowInv'
    BY <1>6 DEF RunAllTest, event_vars, config, access_vars, WindowInv, Touches, Writes, Reads
  <1>7. ASSUME RunAccessPatternTest PROVE WindowInv'
    <2>1. pending' = pending /\ registered' = registered /\ registered = "AccessPatternTest"
      BY <1>7 DEF RunAccessPatternTest, event_vars, config
    <2>2. PICK written \in SUBSET Ptrs, read \in SUBSET Ptrs :
            /\ Access!interval(written, read)
            /\ ticks' \in [Ptrs -> Ticks]
            /\ Touches' = Older(Zeroed(Touches, written \cup read))
            /\ Writes' = Older(Zeroed(Writes, written))
            /\ Reads' = Older(Zeroed(Reads, read))
      BY <1>7, AccessRunIs
    <2>6. /\ accessed' = Access!Ticked(Access!Insert(accessed, written \cup read))
          /\ write_accessed' = Access!Ticked(Access!Insert(write_accessed, written))
          /\ read_accessed' = Access!Ticked(Access!Insert(read_accessed, read))
      BY <2>2 DEF Access!interval
    <2>7. /\ Shows(Access!Insert(accessed, written \cup read), Zeroed(Touches, written \cup read))
          /\ Shows(Access!Insert(write_accessed, written), Zeroed(Writes, written))
          /\ Shows(Access!Insert(read_accessed, read), Zeroed(Reads, read))
      BY <2>1, InsertShows DEF WindowInv
    <2> QED BY <2>1, <2>2, <2>6, <2>7, TickShows DEF WindowInv
  <1>8. ASSUME End PROVE WindowInv'
    BY <1>8 DEF End, end, Access!ForgetRow, config, history, WindowInv, Touches, Writes, Reads
  <1>9. ASSUME UNCHANGED vars PROVE WindowInv'
    BY <1>9 DEF vars, event_vars, config, access_vars, history, WindowInv, Touches, Writes, Reads
  <1> QED BY <1>1, <1>2, <1>3, <1>4, <1>5, <1>6, <1>7, <1>8, <1>9 DEF Next

\* The windows of accessed, written and read objects are exact for any
\* number of windows.
THEOREM WindowsAreExact == Spec => []WindowsExact
  <1>1. WindowInv => WindowsExact
    BY DEF WindowInv, WindowsExact, Shows, Touches, Writes, Reads
  <1> QED BY <1>1, WindowInvInit, WindowInvStep, PTL DEF Spec

---------------------------------------------------------------------------
(* The StackSets of live and unaccessed objects                            *)

SetLemmas == INSTANCE StackMapOpsProofs WITH
  Size <- SetSize, Keys <- Ptrs, Values <- {0}, Zero <- 0, Hash <- PtrHash, Free <- NoPtr

\* A set as its operations leave it where no two objects share a slot.
SetOK(s) == SetLemmas!Exact(s) /\ SetLemmas!AllHome(s)

\* The constants of a StackSet are as a StackMap's must be.
LEMMA SetConstants ==
  /\ SetSize \in Nat \ {0}
  /\ PtrHash \in [Ptrs -> 0 .. SetSize - 1]
  /\ 0 \in {0}
  /\ NoPtr \notin Ptrs
  BY SetsAssumption, EventsAssumption

\* The two instances of the StackMap operators are the same operators.
LEMMA SetOperators ==
  ASSUME NEW s, NEW p
  PROVE  /\ Access!Set!EmptyMap = SetLemmas!EmptyMap
         /\ Access!Set!Put(s, p, 0) = SetLemmas!Put(s, p, 0)
         /\ Access!Set!RemoveMap(s, p) = SetLemmas!RemoveMap(s, p)
         /\ Access!Set!Visited(s) = SetLemmas!Visited(s)
  <1>1. Access!Set!EmptyMap = SetLemmas!EmptyMap
    BY DEF Access!Set!EmptyMap, SetLemmas!EmptyMap, Access!Set!Slots, SetLemmas!Slots
  <1>2. Access!Set!RemoveMap(s, p) = SetLemmas!RemoveMap(s, p)
    BY DEF Access!Set!RemoveMap, SetLemmas!RemoveMap, Access!Set!FoundWithin,
       SetLemmas!FoundWithin, Access!Set!Distance, SetLemmas!Distance, Access!Set!StopsAt,
       SetLemmas!StopsAt, Access!Set!At, SetLemmas!At
  <1>3. Access!Set!Put(s, p, 0) = SetLemmas!Put(s, p, 0)
    BY DEF Access!Set!Put, SetLemmas!Put, Access!Set!Has, SetLemmas!Has, Access!Set!ProbeSlot,
       SetLemmas!ProbeSlot, Access!Set!ProbeBound, SetLemmas!ProbeBound, Access!Set!FoundWithin,
       SetLemmas!FoundWithin, Access!Set!Distance, SetLemmas!Distance, Access!Set!StopsAt,
       SetLemmas!StopsAt, Access!Set!At, SetLemmas!At, Access!Set!Full, SetLemmas!Full,
       Access!Set!Occupy, SetLemmas!Occupy
  <1>4. Access!Set!Visited(s) = SetLemmas!Visited(s)
    BY DEF Access!Set!Visited, SetLemmas!Visited, Access!Set!Occupied, SetLemmas!Occupied,
       Access!Set!Slots, SetLemmas!Slots, Access!Set!Cardinality, SetLemmas!Cardinality
  <1> QED BY <1>1, <1>2, <1>3, <1>4

LEMMA SetCounts ==
  ASSUME NEW S
  PROVE  /\ SetLemmas!Cardinality(S) = Cardinality(S)
         /\ SetLemmas!IsFiniteSet(S) <=> IsFiniteSet(S)
  BY DEF SetLemmas!Cardinality, SetLemmas!IsFiniteSet, Cardinality, IsFiniteSet

\* items() lists what the table holds.
LEMMA MembersAreHeld ==
  ASSUME NEW s, SetOK(s)
  PROVE  Access!Members(s) = SetLemmas!Held(s) /\ Access!Members(s) \subseteq Ptrs
  <1>1. SetLemmas!Exact(s) /\ s \in SetLemmas!MapType
    BY DEF SetOK, SetLemmas!Exact
  <1>2. SetLemmas!Visited(s) = SetLemmas!Occupied(s)
    BY <1>1, SetConstants, SetLemmas!VisitedIsOccupied
  <1>3. Access!Members(s) = SetLemmas!Held(s)
    BY <1>2, SetOperators DEF Access!Members, SetLemmas!Held
  <1>4. \A i \in SetLemmas!Occupied(s) : s.key[i] \in Ptrs
    BY <1>1 DEF SetLemmas!Occupied, SetLemmas!MapType
  <1> QED BY <1>3, <1>4 DEF SetLemmas!Held

\* An empty set has no members.
LEMMA EmptySet ==
  LET s == Access!Set!EmptyMap IN SetOK(s) /\ Access!Members(s) = {}
  <1> DEFINE s == SetLemmas!EmptyMap
  <1>1. SetLemmas!Exact(s)
    BY SetConstants, SetLemmas!EmptyExact
  <1>2. SetLemmas!Occupied(s) = {}
    BY DEF SetLemmas!Occupied, SetLemmas!EmptyMap
  <1>3. SetOK(s) /\ SetLemmas!Held(s) = {}
    BY <1>1, <1>2 DEF SetOK, SetLemmas!AllHome, SetLemmas!Held
  <1>4. Access!Members(s) = {}
    BY <1>3, MembersAreHeld
  <1>5. Access!Set!EmptyMap = s
    BY SetOperators
  <1> QED BY <1>3, <1>4, <1>5, Zenon

\* Where no two objects share a slot, an object is inserted: a set with all
\* its slots taken already has it.
LEMMA PutMembers ==
  ASSUME SlotsApart, NEW s, SetOK(s), NEW p \in Ptrs
  PROVE  LET n == Access!Set!Put(s, p, 0) IN
         SetOK(n) /\ Access!Members(n) = Access!Members(s) \cup {p}
  <1> DEFINE n == SetLemmas!Put(s, p, 0)
             i == SetLemmas!ProbeSlot(s, p)
  <1>1. /\ SetLemmas!Exact(s) /\ SetLemmas!AllHome(s) /\ s \in SetLemmas!MapType
        /\ SetLemmas!Chains(s) /\ 0 \in {0}
    BY SetConstants, SetLemmas!HomeChains DEF SetOK, SetLemmas!Exact
  <1>2. SetOK(n) /\ SetLemmas!Held(n) = SetLemmas!Held(s) \cup {p}
    <2>1. CASE SetLemmas!Has(s, p)
      <3>1. i \in SetLemmas!Occupied(s) /\ p \in SetLemmas!Held(s)
        BY <1>1, <2>1, SetConstants, SetLemmas!FoundHeld
      <3>2. n = [s EXCEPT !.value[i] = 0]
        BY <2>1 DEF SetLemmas!Put
      <3>3. SetLemmas!Exact(n) /\ SetLemmas!AllHome(n) /\ SetLemmas!Held(n) = SetLemmas!Held(s)
        BY <1>1, <3>1, <3>2, SetConstants, SetLemmas!OverwriteChains
      <3> QED BY <3>1, <3>3 DEF SetOK
    <2>2. CASE ~SetLemmas!Has(s, p)
      <3>1. p \notin SetLemmas!Held(s)
        <4>1. p \notin {k \in Ptrs : SetLemmas!Has(s, k)}
          BY <2>2
        <4> QED BY <1>1, <4>1, SetConstants, SetLemmas!HeldCounted
      <3>2. PtrHash[p] \in SetLemmas!Slots \ SetLemmas!Occupied(s)
        <4>1. PtrHash[p] \in SetLemmas!Slots
          BY SetConstants DEF SetLemmas!Slots
        <4>2. ASSUME PtrHash[p] \in SetLemmas!Occupied(s) PROVE FALSE
          <5>1. s.key[PtrHash[p]] \in Ptrs /\ PtrHash[s.key[PtrHash[p]]] = PtrHash[p]
            BY <1>1, <4>1, <4>2 DEF SetLemmas!AllHome, SetLemmas!Occupied, SetLemmas!MapType
          <5>2. s.key[PtrHash[p]] = p
            BY <5>1 DEF SlotsApart
          <5> QED BY <3>1, <4>2, <5>2 DEF SetLemmas!Held
        <4> QED BY <4>1, <4>2
      <3>3. ~SetLemmas!Full(s)
        <4>1. /\ IsFiniteSet(SetLemmas!Occupied(s))
              /\ SetLemmas!Occupied(s) \subseteq SetLemmas!Slots \ {PtrHash[p]}
              /\ s.entries = Cardinality(SetLemmas!Occupied(s))
          <5>1. /\ SetLemmas!IsFiniteSet(SetLemmas!Occupied(s))
                /\ SetLemmas!Occupied(s) \subseteq SetLemmas!Slots
            BY <1>1, SetConstants, SetLemmas!OccupiedFinite
          <5>2. s.entries = SetLemmas!Cardinality(SetLemmas!Occupied(s))
            BY <1>1 DEF SetLemmas!Exact
          <5> QED BY <3>2, <5>1, <5>2, SetCounts
        <4>2. IsFiniteSet(SetLemmas!Slots) /\ Cardinality(SetLemmas!Slots) = SetSize
          BY SetConstants, FS_Interval DEF SetLemmas!Slots
        <4>3. /\ IsFiniteSet(SetLemmas!Slots \ {PtrHash[p]})
              /\ Cardinality(SetLemmas!Slots \ {PtrHash[p]}) = SetSize - 1
          BY <3>2, <4>2, FS_RemoveElement
        <4>4. s.entries <= SetSize - 1 /\ s.entries \in Nat
          BY <4>1, <4>3, FS_Subset, FS_CardinalityType
        <4> QED BY <4>4, SetConstants DEF SetLemmas!Full
      <3>4. n = SetLemmas!Occupy(s, i, p, 0)
        BY <2>2, <3>3 DEF SetLemmas!Put
      <3>5. \A q \in SetLemmas!Held(s) : PtrHash[q] # PtrHash[p]
        BY <1>1, <3>1 DEF SlotsApart, SetLemmas!Held, SetLemmas!Occupied, SetLemmas!MapType
      <3>6. SetLemmas!Exact(n) /\ SetLemmas!AllHome(n) /\ SetLemmas!Held(n) = SetLemmas!Held(s) \cup {p}
        BY <1>1, <2>2, <3>3, <3>4, <3>5, SetConstants, SetLemmas!ClaimChains
      <3> QED BY <3>6 DEF SetOK
    <2> QED BY <2>1, <2>2
  <1>3. /\ Access!Members(n) = SetLemmas!Held(n)
        /\ Access!Members(s) = SetLemmas!Held(s)
    BY <1>2, MembersAreHeld
  <1>4. Access!Set!Put(s, p, 0) = n
    BY SetOperators
  <1> QED BY <1>2, <1>3, <1>4, Zenon

\* Where every object is in its own slot, a removal finds it.
LEMMA RemoveMembers ==
  ASSUME NEW s, SetOK(s), NEW p \in Ptrs
  PROVE  LET n == Access!Set!RemoveMap(s, p) IN
         SetOK(n) /\ Access!Members(n) = Access!Members(s) \ {p}
  <1> DEFINE n == SetLemmas!RemoveMap(s, p)
  <1>1. SetLemmas!Exact(s) /\ SetLemmas!AllHome(s)
    BY DEF SetOK
  <1>2. SetLemmas!Exact(n) /\ SetLemmas!AllHome(n) /\ SetLemmas!Held(n) = SetLemmas!Held(s) \ {p}
    BY <1>1, SetConstants, SetLemmas!RemoveChains
  <1>3. SetOK(n)
    BY <1>2 DEF SetOK
  <1>4. Access!Members(n) = SetLemmas!Held(n) /\ Access!Members(s) = SetLemmas!Held(s)
    BY <1>3, MembersAreHeld
  <1>5. Access!Set!RemoveMap(s, p) = n
    BY SetOperators
  <1> QED BY <1>2, <1>3, <1>4, <1>5, Zenon

\* The walk that removes what was accessed.
RemoveOf(s, p) == Access!Set!RemoveMap(s, p)
Removing == INSTANCE FoldLaws WITH Op <- RemoveOf

LEMMA RemovingIs ==
  ASSUME NEW s, NEW walk
  PROVE  Access!FoldLeft(Access!Set!RemoveMap, s, walk) = Removing!Folded(s, walk)
  BY DEF Access!FoldLeft, Access!MapThenFoldSet, Access!Max, RemoveOf,
         Removing!Folded, Removing!FoldLeft, Removing!MapThenFoldSet, Removing!Max

LEMMA AccessCounts ==
  ASSUME NEW S
  PROVE  Access!Cardinality(S) = Cardinality(S) /\ Removing!Cardinality(S) = Cardinality(S)
  BY DEF Access!Cardinality, Removing!Cardinality, Cardinality

\* A walk over a set meets all of it.
LEMMA WalkMeetsAll ==
  ASSUME NEW S, IsFiniteSet(S), NEW walk \in Access!SetToSeqs(S)
  PROVE  walk \in Seq(S) /\ S = {walk[i] : i \in 1 .. Len(walk)}
  <1> DEFINE met == {walk[i] : i \in 1 .. Len(walk)}
  <1>1. Cardinality(S) \in Nat
    BY FS_CardinalityType
  <1>2. /\ walk \in [1 .. Cardinality(S) -> S]
        /\ \A i, j \in 1 .. Cardinality(S) : i # j => walk[i] # walk[j]
    BY AccessCounts, Zenon DEF Access!SetToSeqs
  <1>3. walk \in Seq(S) /\ Len(walk) = Cardinality(S)
    BY <1>1, <1>2
  <1>4. met \subseteq S /\ \A i, j \in 1 .. Len(walk) : walk[i] = walk[j] => i = j
    BY <1>2, <1>3
  <1>5. Removing!Cardinality(met) = Len(walk)
    BY <1>3, <1>4, Removing!CountedOnce, Zenon
  <1>6. Cardinality(met) = Cardinality(S)
    BY <1>3, <1>5, AccessCounts, Zenon
  <1> HIDE DEF met
  <1>7. S = met
    BY <1>4, <1>6, FS_Subset
  <1> QED BY <1>3, <1>7 DEF met

\* The sets that have lost the first i objects of a walk.
Lost(s, walk, i) ==
  {n \in SetLemmas!MapType :
     SetOK(n) /\ Access!Members(n) = Access!Members(s) \ {walk[j] : j \in 1 .. i}}

\* Whatever the order of a walk, it leaves what it does not meet.
LEMMA WithoutIs ==
  ASSUME NEW s, SetOK(s), NEW S \in SUBSET Ptrs, NEW n \in Access!Without(s, S)
  PROVE  SetOK(n) /\ Access!Members(n) = Access!Members(s) \ S
  <1>1. PICK walk \in Access!SetToSeqs(S) : n = Access!FoldLeft(Access!Set!RemoveMap, s, walk)
    BY Zenon DEF Access!Without
  <1>2. walk \in Seq(S) /\ S = {walk[i] : i \in 1 .. Len(walk)}
    BY PtrsAssumption, FS_Subset, WalkMeetsAll
  <1>3. n = Removing!Folded(s, walk)
    BY <1>1, RemovingIs, Zenon
  <1> DEFINE T == [i \in 0 .. Len(walk) |-> Lost(s, walk, i)]
  <1>4. /\ 0 \in 0 .. Len(walk) /\ Len(walk) \in 0 .. Len(walk)
        /\ \A i \in 1 .. Len(walk) : i \in 0 .. Len(walk) /\ i - 1 \in 0 .. Len(walk) /\ walk[i] \in Ptrs
    BY <1>2
  <1>5. \A i \in 0 .. Len(walk) : T[i] = Lost(s, walk, i)
    BY Zenon
  <1>6. s \in Lost(s, walk, 0)
    BY DEF Lost, SetOK, SetLemmas!Exact
  <1>7. ASSUME NEW i \in 1 .. Len(walk), NEW t \in Lost(s, walk, i - 1)
        PROVE  RemoveOf(t, walk[i]) \in Lost(s, walk, i)
    <2> DEFINE r == Access!Set!RemoveMap(t, walk[i])
    <2>1. SetOK(t) /\ Access!Members(t) = Access!Members(s) \ {walk[j] : j \in 1 .. i - 1}
      BY DEF Lost
    <2>2. SetOK(r) /\ Access!Members(r) = Access!Members(t) \ {walk[i]}
      BY <1>4, <2>1, RemoveMembers
    <2> HIDE DEF r
    <2>3. {walk[j] : j \in 1 .. i} = {walk[j] : j \in 1 .. i - 1} \cup {walk[i]}
      <3>1. i \in Nat /\ i >= 1
        BY <1>2
      <3>2. \A j : j \in 1 .. i <=> j \in 1 .. i - 1 \/ j = i
        BY <3>1
      <3> QED BY <3>2, Zenon
    <2>4. r \in Lost(s, walk, i)
      BY <2>1, <2>2, <2>3 DEF Lost, SetOK, SetLemmas!Exact
    <2> QED BY <2>4 DEF r, RemoveOf
  <1> HIDE DEF T
  <1>8. s \in T[0] /\ \A i \in 1 .. Len(walk) : \A t \in T[i - 1] : RemoveOf(t, walk[i]) \in T[i]
    BY <1>4, <1>5, <1>6, <1>7, Zenon
  <1>9. n \in T[Len(walk)]
    BY <1>2, <1>3, <1>8, Removing!FoldPasses, Zenon
  <1>10. n \in Lost(s, walk, Len(walk))
    BY <1>4, <1>5, <1>9, Zenon
  <1> QED BY <1>2, <1>10 DEF Lost

---------------------------------------------------------------------------
(* The live objects that were not accessed                                 *)

LiveObjects == Recorded \cup dropped

\* What the k-th set of live objects holds.
Living(k) == Access!Members(live[k])

\* An object is live, and has been for as many intervals as it has not been
\* touched: a report touches it.  How long it has been live beyond that, the
\* rows do not ask.
LiveShows ==
  /\ live \in [Access!Window -> SetLemmas!MapType]
  /\ \A k \in Access!Window : SetOK(live[k]) /\ Living(k) \subseteq LiveObjects
  /\ \A k \in Access!Window : \A p \in LiveObjects : Touches[p] >= k - 1 => p \in Living(k)

UnaccessedInv ==
  /\ WindowInv
  /\ age \in [Ptrs -> Nat \cup {Gone}]
  /\ dropped \in SUBSET Ptrs /\ dropped \cap Recorded = {}
  /\ stage \in {"accesses", "tests", "written"} => in_interval
  /\ registered = "AccessPatternTest" /\ SlotsApart => LiveShows
  /\ UnaccessedExact

\* Nothing is live at first.
LEMMA UnaccessedInvInit == Init => UnaccessedInv
  <1> SUFFICES ASSUME Init PROVE UnaccessedInv
    OBVIOUS
  <1>1. WindowInv
    BY WindowInvInit
  <1>2. Recorded = {} /\ dropped = {} /\ stage = "idle"
    BY DEF Init, EventsInit, Recorded
  <1>3. age \in [Ptrs -> Nat \cup {Gone}]
    BY DEF Init, EventsInit, Gone
  <1>4. LiveShows
    <2>1. live = [k \in Access!Window |-> Access!Set!EmptyMap]
      BY DEF Init, Access!AccessInit, Access!NoObjects
    <2>2. \A k \in Access!Window : SetOK(live[k]) /\ Living(k) = {}
      BY <2>1, EmptySet, Zenon DEF Living
    <2>3. live \in [Access!Window -> SetLemmas!MapType]
      BY <2>1, <2>2 DEF SetOK, SetLemmas!Exact
    <2> QED BY <1>2, <2>2, <2>3 DEF LiveShows, LiveObjects
  <1> QED BY <1>1, <1>2, <1>3, <1>4 DEF UnaccessedInv, UnaccessedExact

\* An object that is reported is live from now on, and touched.
LEMMA ReportKeepsLive ==
  ASSUME UnaccessedInv, NEW p \in Ptrs, HearAlloc(p), Count(p), report(p), WindowInv',
         registered' = registered, stage' = stage
  PROVE  UnaccessedInv'
  <1>1. /\ Recorded' \cup dropped' = LiveObjects \cup {p}
        /\ dropped' \in SUBSET Ptrs /\ dropped' \cap Recorded' = {} /\ age' \in [Ptrs -> Nat \cup {Gone}]
    <2>1. age' \in [Ptrs -> Nat \cup {Gone}] /\ \A q \in Ptrs \ {p} : age'[q] = age[q]
      BY DEF report, UnaccessedInv
    <2>2. \A q \in Ptrs \ {p} : q \in Recorded' <=> q \in Recorded
      BY <2>1 DEF Recorded
    <2>3. p \in Recorded' <=> age'[p] # Gone
      BY DEF Recorded
    <2>4. dropped' = (IF age'[p] = Gone THEN dropped \cup {p} ELSE dropped \ {p})
      BY DEF Count
    <2>6. Recorded' \subseteq Ptrs /\ Recorded \subseteq Ptrs
      BY DEF Recorded
    <2> QED BY <2>1, <2>2, <2>3, <2>4, <2>6 DEF UnaccessedInv, LiveObjects
  <1>2. ~in_interval /\ in_interval' = in_interval /\ stage' \notin {"accesses", "tests", "written"}
    BY DEF report, UnaccessedInv
  <1>3. ASSUME registered = "AccessPatternTest", SlotsApart PROVE LiveShows'
    <2>1. live' = [live EXCEPT ![1] = Access!Set!Put(@, p, 0)]
      BY <1>3 DEF HearAlloc, Access!on_alloc
    <2>2. Touches' = Zeroed(Touches, {p})
      BY <1>3 DEF Count, Touches, Zeroed, UnaccessedInv, WindowInv, Ticks
    <2>3. /\ 1 \in Access!Window
          /\ DOMAIN live' = Access!Window
          /\ \A k \in Access!Window : live'[k] = IF k = 1 THEN Access!Set!Put(live[1], p, 0) ELSE live[k]
      <3>1. live \in [Access!Window -> SetLemmas!MapType]
        BY <1>3 DEF UnaccessedInv, LiveShows
      <3>2. 1 \in Access!Window
        BY WindowsAssumption DEF Access!Window
      <3> QED BY <2>1, <3>1, <3>2
    <2>4. \A q \in LiveObjects \cup {p} : Touches'[q] = IF q = p THEN 0 ELSE Touches[q]
      BY <1>1, <2>2 DEF Zeroed, LiveObjects, Recorded, UnaccessedInv
    <2>5. \A k \in Access!Window : k \in Nat /\ k >= 1
      BY DEF Access!Window
    <2>6. LiveShows
      BY <1>3 DEF UnaccessedInv
    <2>7. \A k \in Access!Window :
            SetOK(live'[k]) /\ Access!Members(live'[k]) = IF k = 1 THEN Living(1) \cup {p} ELSE Living(k)
      <3>1. SetOK(live[1])
        BY <2>3, <2>6 DEF LiveShows
      <3>2. /\ SetOK(Access!Set!Put(live[1], p, 0))
            /\ Access!Members(Access!Set!Put(live[1], p, 0)) = Access!Members(live[1]) \cup {p}
        BY <1>3, <3>1, PutMembers
      <3> QED BY <2>3, <2>6, <3>2 DEF LiveShows, Living
    <2>8. \A k \in Access!Window : Living(k)' = Access!Members(live'[k])
      BY DEF Living
    <2>9. LiveObjects' = LiveObjects \cup {p}
      BY <1>1 DEF LiveObjects
    <2>10. \A k \in Access!Window : SetOK(live[k])' /\ Living(k)' \subseteq LiveObjects'
      BY <2>6, <2>7, <2>8, <2>9 DEF LiveShows
    <2>11. \A k \in Access!Window : \A q \in LiveObjects' : Touches'[q] >= k - 1 => q \in Living(k)'
      BY <2>4, <2>5, <2>6, <2>7, <2>8, <2>9 DEF LiveShows
    <2>12. live' \in [Access!Window -> SetLemmas!MapType]
      <3>1. Access!Set!Put(live[1], p, 0) \in SetLemmas!MapType
        <4>1. SetOK(live'[1])
          BY <2>3, <2>7
        <4> QED BY <2>3, <4>1 DEF SetOK, SetLemmas!Exact
      <3> QED BY <2>1, <2>6, <3>1 DEF LiveShows
    <2> QED BY <2>10, <2>11, <2>12 DEF LiveShows
  <1> QED BY <1>1, <1>2, <1>3 DEF UnaccessedInv, UnaccessedExact

\* AccessPatternTest's interval makes the row, and moves the live families on.
LEMMA RowIsExact ==
  ASSUME UnaccessedInv, NEW written \in SUBSET Ptrs, NEW read \in SUBSET Ptrs,
         registered = "AccessPatternTest", SlotsApart,
         Access!interval(written, read), age' = age, dropped' = dropped,
         Touches' = Older(Zeroed(Touches, written \cup read))
  PROVE  /\ LiveShows'
         /\ \A k \in Access!Window :
              Access!Members(unaccessed'[k]) = {p \in Recorded' \cup dropped' : Touches'[p] > k}
  <1> DEFINE S == written \cup read
             seen == Zeroed(Touches, S)
  <1>a. /\ \A k \in Access!Window :
             unaccessed'[k] \in Access!Without(live[k], Access!Insert(accessed, S)[k])
        /\ live' = Access!Shifted(live)
    BY DEF Access!interval
  <1>b. ASSUME NEW k \in Access!Window
        PROVE  /\ Access!Insert(accessed, S)[k] = accessed[k] \cup S
               /\ accessed[k] \cup S \in SUBSET Ptrs
    BY DEF Access!Insert, UnaccessedInv, WindowInv, Shows, Access!Families
  <1>1. /\ \A k \in Access!Window :
             Access!Members(unaccessed'[k]) = Living(k) \ (accessed[k] \cup S)
        /\ live' = Access!Shifted(live)
    <2> SUFFICES ASSUME NEW k \in Access!Window
                 PROVE  Access!Members(unaccessed'[k]) = Living(k) \ (accessed[k] \cup S)
      BY <1>a
    <2>1. SetOK(live[k])
      BY DEF UnaccessedInv, LiveShows
    <2>2. PICK left_of : left_of = accessed[k] \cup S
      OBVIOUS
    <2>3. left_of \in SUBSET Ptrs /\ unaccessed'[k] \in Access!Without(live[k], left_of)
      BY <1>a, <1>b, <2>2, Zenon
    <2>4. Access!Members(unaccessed'[k]) = Access!Members(live[k]) \ left_of
      BY <2>1, <2>3, WithoutIs
    <2> QED BY <2>2, <2>4 DEF Living
  <1>2. /\ LiveShows /\ Shows(accessed, Touches) /\ LiveObjects \subseteq Ptrs
        /\ Recorded' \cup dropped' = LiveObjects /\ LiveObjects' = LiveObjects
    BY DEF UnaccessedInv, WindowInv, LiveObjects, Recorded
  <1>3. /\ Windows \in Nat /\ Windows >= 1
        /\ \A k \in Access!Window : k \in Nat /\ 1 <= k /\ k <= Windows
        /\ \A k \in Access!Window : k # 1 => k - 1 \in Access!Window
    BY WindowsAssumption DEF Access!Window
  <1>4. \A p \in LiveObjects :
          /\ Touches[p] \in Nat
          /\ Touches'[p] = Later(IF p \in S THEN 0 ELSE Touches[p])
    BY <1>2 DEF Older, Zeroed, Shows
  <1>5. ASSUME NEW k \in Access!Window, NEW p \in LiveObjects
        PROVE  Touches'[p] > k <=> p \in Living(k) /\ p \notin accessed[k] \cup S
    <2>1. Touches'[p] > k <=> p \notin S /\ Touches[p] >= k
      <3>1. \A n \in Nat : Later(n) > k <=> n >= k
        BY <1>3 DEF Later, Saturated
      <3>2. ~(0 >= k)
        BY <1>3
      <3> QED BY <1>4, <3>1, <3>2
    <2>2. p \in accessed[k] <=> Touches[p] < k
      BY <1>2 DEF Shows
    <2>3. Touches[p] >= k => p \in Living(k)
      BY <1>2, <1>3, <1>4 DEF LiveShows
    <2> QED BY <1>3, <1>4, <2>1, <2>2, <2>3
  <1>6. ASSUME NEW k \in Access!Window
        PROVE  Access!Members(unaccessed'[k]) = {p \in Recorded' \cup dropped' : Touches'[p] > k}
    BY <1>1, <1>2, <1>5 DEF LiveShows
  <1>7. /\ live' \in [Access!Window -> SetLemmas!MapType]
        /\ \A k \in Access!Window : live'[k] = IF k = 1 THEN live[1] ELSE live[k - 1]
        /\ \A k \in Access!Window : Living(k)' = IF k = 1 THEN Living(1) ELSE Living(k - 1)
    BY <1>1, <1>2, <1>3 DEF Access!Shifted, LiveShows, Living
  <1>8. ASSUME NEW k \in Access!Window
        PROVE  /\ SetOK(live'[k]) /\ Living(k)' \subseteq LiveObjects
               /\ \A p \in LiveObjects : Touches'[p] >= k - 1 => p \in Living(k)'
    <2>1. CASE k = 1
      BY <1>2, <1>3, <1>4, <1>7, <2>1 DEF LiveShows
    <2>2. CASE k # 1
      <3>1. \A p \in LiveObjects : Touches'[p] >= k - 1 => Touches[p] >= (k - 1) - 1
        <4>1. \A n \in Nat : Later(n) >= k - 1 => n >= (k - 1) - 1
          BY <1>3, <2>2 DEF Later, Saturated
        <4> SUFFICES ASSUME NEW p \in LiveObjects, Touches'[p] >= k - 1
                     PROVE  Touches[p] >= (k - 1) - 1
          OBVIOUS
        <4>2. PICK n : n = IF p \in S THEN 0 ELSE Touches[p]
          OBVIOUS
        <4>3. n \in Nat /\ Touches'[p] = Later(n) /\ n <= Touches[p] /\ Touches[p] \in Nat
          <5>1. Touches[p] \in Nat /\ Touches'[p] = Later(n)
            BY <1>4, <4>2, Zenon
          <5> HIDE DEF S
          <5>2. n = 0 \/ n = Touches[p]
            BY <4>2
          <5> QED BY <5>1, <5>2
        <4>4. n >= (k - 1) - 1
          BY <4>1, <4>3
        <4> QED BY <1>3, <4>3, <4>4
      <3>2. /\ k - 1 \in Access!Window /\ live'[k] = live[k - 1]
            /\ Living(k)' = Living(k - 1)
        BY <1>3, <1>7, <2>2
      <3>3. SetOK(live[k - 1]) /\ Living(k - 1) \subseteq LiveObjects
        BY <1>2, <3>2 DEF LiveShows
      <3>4. \A p \in LiveObjects : Touches[p] >= (k - 1) - 1 => p \in Living(k - 1)
        BY <1>2, <3>2 DEF LiveShows
      <3> QED BY <3>1, <3>2, <3>3, <3>4
    <2> QED BY <2>1, <2>2
  <1> QED BY <1>2, <1>6, <1>7, <1>8 DEF LiveShows

LEMMA UnaccessedInvStep == UnaccessedInv /\ [Next]_vars => UnaccessedInv'
  <1> SUFFICES ASSUME UnaccessedInv, [Next]_vars PROVE UnaccessedInv'
    OBVIOUS
  <1>0. WindowInv'
    BY WindowInvStep DEF UnaccessedInv
  <1>1. ASSUME NEW p \in Ptrs, Announce(p) PROVE UnaccessedInv'
    BY <1>0, <1>1, ReportKeepsLive DEF Announce, announce, config
  <1>2. ASSUME AnnounceAgain PROVE UnaccessedInv'
    <2>1. pending \in Ptrs
      BY <1>2 DEF AnnounceAgain, announce_again, UnaccessedInv, WindowInv
    <2> QED BY <1>0, <1>2, <2>1, ReportKeepsLive DEF AnnounceAgain, announce_again, config
  <1>3. ASSUME NEW p \in Ptrs, Retract(p) PROVE UnaccessedInv'
    <2>1. /\ age' \in [Ptrs -> Nat \cup {Gone}] /\ dropped' = dropped /\ p \in Recorded
          /\ Recorded' = Recorded \ {p} /\ LiveObjects' = LiveObjects \ {p}
      BY <1>3 DEF Retract, retract, history, UnaccessedInv, Recorded, LiveObjects, Gone
    <2>2. /\ stage' = stage /\ ~in_interval /\ in_interval' = in_interval /\ registered' = registered
          /\ Touches' = Touches
      BY <1>3 DEF Retract, retract, config, history, Touches
    <2>3. ASSUME registered = "AccessPatternTest", SlotsApart PROVE LiveShows'
      <3>1. live' = [k \in Access!Window |-> Access!Set!RemoveMap(live[k], p)]
        BY <1>3, <2>3 DEF Retract, HearFree, Access!on_free
      <3>2. LiveShows
        BY <2>3 DEF UnaccessedInv
      <3>3. ASSUME NEW k \in Access!Window
            PROVE  SetOK(live'[k]) /\ Access!Members(live'[k]) = Living(k) \ {p}
        <4>1. SetOK(live[k])
          BY <3>2 DEF LiveShows
        <4>2. /\ SetOK(Access!Set!RemoveMap(live[k], p))
              /\ Access!Members(Access!Set!RemoveMap(live[k], p)) = Access!Members(live[k]) \ {p}
          BY <4>1, RemoveMembers
        <4> QED BY <3>1, <4>2 DEF Living
      <3>4. \A k \in Access!Window : SetOK(live[k])' /\ Living(k)' = Living(k) \ {p}
        BY <3>3 DEF Living
      <3>5. live' \in [Access!Window -> SetLemmas!MapType]
        BY <3>1, <3>3 DEF SetOK, SetLemmas!Exact
      <3> QED BY <2>1, <2>2, <3>2, <3>4, <3>5 DEF LiveShows
    <2> QED BY <1>0, <2>1, <2>2, <2>3 DEF UnaccessedInv, UnaccessedExact
  <1>4. ASSUME Begin PROVE UnaccessedInv'
    BY <1>0, <1>4 DEF Begin, begin, access_vars, config, history, UnaccessedInv, UnaccessedExact,
       LiveShows, LiveObjects, Recorded, Touches, Living
  <1>5. ASSUME DeliverAccesses PROVE UnaccessedInv'
    <2>1. /\ age' = age /\ in_interval' = in_interval /\ dropped' = dropped /\ registered' = registered
          /\ in_interval /\ stage' = "tests" /\ live' = live
      BY <1>5 DEF DeliverAccesses, event_vars, config, access_vars, Access!on_access, UnaccessedInv
    <2>2. ASSUME registered = "AccessPatternTest", NEW p \in Ptrs
          PROVE  Touches'[p] = 0 \/ Touches'[p] = Touches[p]
      <3>1. PICK written, read : ticks' = Touch(written, read)
        BY <1>5, <2>2 DEF DeliverAccesses
      <3> QED BY <2>2, <3>1 DEF Touch, Touches, UnaccessedInv, WindowInv, Ticks
    <2>3. LiveObjects' = LiveObjects /\ LiveObjects \subseteq Ptrs
      BY <2>1 DEF LiveObjects, Recorded, UnaccessedInv
    <2>4. ASSUME registered = "AccessPatternTest", SlotsApart PROVE LiveShows'
      <3>1. \A p \in Ptrs : Touches[p] \in Nat
        BY DEF UnaccessedInv, WindowInv, Touches, Ticks
      <3>2. \A k \in Access!Window : k \in Nat
        BY DEF Access!Window
      <3>3. ASSUME NEW k \in Access!Window, NEW p \in LiveObjects, Touches'[p] >= k - 1
            PROVE  p \in Living(k)
        <4>1. Touches[p] >= k - 1
          BY <2>2, <2>3, <2>4, <3>1, <3>2, <3>3
        <4> QED BY <2>4, <4>1 DEF UnaccessedInv, LiveShows
      <3> QED BY <2>1, <2>3, <2>4, <3>3 DEF UnaccessedInv, LiveShows, Living
    <2> QED BY <1>0, <2>1, <2>4 DEF UnaccessedInv, UnaccessedExact, Recorded
  <1>6. ASSUME RunAllTest PROVE UnaccessedInv'
    BY <1>0, <1>6 DEF RunAllTest, event_vars, config, access_vars, UnaccessedInv, UnaccessedExact,
       LiveShows, LiveObjects, Recorded, Touches, Living
  <1>7. ASSUME RunAccessPatternTest PROVE UnaccessedInv'
    <2>1. /\ age' = age /\ in_interval' = in_interval /\ dropped' = dropped /\ registered' = registered
          /\ in_interval /\ registered = "AccessPatternTest"
      BY <1>7 DEF RunAccessPatternTest, event_vars, config, UnaccessedInv
    <2>2. PICK written \in SUBSET Ptrs, read \in SUBSET Ptrs :
            /\ Access!interval(written, read)
            /\ Touches' = Older(Zeroed(Touches, written \cup read))
      BY <1>7, AccessRunIs DEF UnaccessedInv
    <2>3. SlotsApart =>
            /\ LiveShows'
            /\ \A k \in Access!Window :
                 Access!Members(unaccessed'[k]) = {p \in Recorded' \cup dropped' : Touches'[p] > k}
      BY <2>1, <2>2, RowIsExact, Zenon
    <2>4. \A p \in Recorded' \cup dropped' : Touches'[p] = ticks'[p].touch
      BY <2>1 DEF Touches, Recorded, UnaccessedInv
    <2>5. UnaccessedExact'
      BY <2>3, <2>4 DEF UnaccessedExact
    <2> QED BY <1>0, <2>1, <2>3, <2>5 DEF UnaccessedInv, Recorded
  <1>8. ASSUME End PROVE UnaccessedInv'
    <2>1. /\ stage' = "idle" /\ dropped' = dropped /\ ticks' = ticks /\ live' = live
          /\ registered' = registered
      BY <1>8 DEF End, end, Access!ForgetRow, config, history
    <2>2. age' \in [Ptrs -> Nat \cup {Gone}] /\ Recorded' = Recorded
      BY <1>8, EventsAssumption DEF End, end, Recorded, Saturated, Gone, UnaccessedInv
    <2> QED BY <1>0, <2>1, <2>2 DEF UnaccessedInv, UnaccessedExact, LiveShows, LiveObjects, Touches, Living
  <1>9. ASSUME UNCHANGED vars PROVE UnaccessedInv'
    BY <1>0, <1>9 DEF vars, event_vars, access_vars, config, history, UnaccessedInv, UnaccessedExact,
       LiveShows, LiveObjects, Recorded, Touches, Living
  <1> QED BY <1>1, <1>2, <1>3, <1>4, <1>5, <1>6, <1>7, <1>8, <1>9 DEF Next

\* UnaccessedExact, for any number of windows and objects that do not share a
\* slot of a StackSet: the row of an interval calls an object unaccessed in
\* the last k exactly if it is live and was neither touched nor reported in
\* them (access_patterns_test.cpp:60-65, 346-351, 452-480), whether or not
\* there was room for its record, and in whatever order the accessed ones are
\* removed.
THEOREM UnaccessedAreExact == Spec => []UnaccessedExact
  <1>1. UnaccessedInv => UnaccessedExact
    BY DEF UnaccessedInv
  <1> QED BY <1>1, UnaccessedInvInit, UnaccessedInvStep, PTL DEF Spec

---------------------------------------------------------------------------
(* The totals of AllTest                                                   *)

Fields == {"total_objects_live", "total_bytes_live", "memory_allocated_since_last_interval",
           "memory_freed_since_last_interval", "total_memory_allocated", "total_memory_freed"}
Numbers == [Fields -> Int]

\* The totals are numbers.
TotalsInv ==
  /\ counters \in Numbers
  /\ reported \in [allocated : Int, freed : Int]
  /\ alloced \in Int
  /\ pending \in Ptrs \cup {NoPtr}

PeriodsInv == TotalsInv /\ PeriodsAddUp

\* The members of the totals, each by its name.
LEMMA TotalsAreNumbers ==
  ASSUME NEW c \in Numbers
  PROVE  /\ c.total_objects_live \in Int
         /\ c.total_bytes_live \in Int
         /\ c.memory_allocated_since_last_interval \in Int
         /\ c.memory_freed_since_last_interval \in Int
         /\ c.total_memory_allocated \in Int
         /\ c.total_memory_freed \in Int
  BY DEF Numbers, Fields

\* A report adds to the totals and to what was allocated in the period.
LEMMA AllocTotals ==
  ASSUME NEW c \in Numbers, NEW size \in Int, NEW d, d = Counters!on_alloc(c, size)
  PROVE  /\ d \in Numbers
         /\ d.total_objects_live = c.total_objects_live + 1
         /\ d.total_bytes_live = c.total_bytes_live + size
         /\ d.memory_allocated_since_last_interval = c.memory_allocated_since_last_interval + size
         /\ d.memory_freed_since_last_interval = c.memory_freed_since_last_interval
         /\ d.total_memory_allocated = c.total_memory_allocated + size
         /\ d.total_memory_freed = c.total_memory_freed
  <1>1. /\ d.total_objects_live = c.total_objects_live + 1
        /\ d.total_bytes_live = c.total_bytes_live + size
        /\ d.memory_allocated_since_last_interval = c.memory_allocated_since_last_interval + size
        /\ d.memory_freed_since_last_interval = c.memory_freed_since_last_interval
        /\ d.total_memory_allocated = c.total_memory_allocated + size
        /\ d.total_memory_freed = c.total_memory_freed
    BY DEF Numbers, Fields, Counters!on_alloc
  <1>2. d = [f \in Fields |-> d[f]]
    BY DEF Numbers, Counters!on_alloc
  <1>3. \A f \in Fields : d[f] \in Int
    BY <1>1 DEF Fields, Numbers
  <1>4. d \in Numbers
    <2>1. [f \in Fields |-> d[f]] \in Numbers
      BY <1>3 DEF Numbers
    <2> QED BY <1>2, <2>1, Zenon
  <1> QED BY <1>1, <1>4

\* A free takes from the totals, and adds to what was freed in the period.
LEMMA FreeTotals ==
  ASSUME NEW c \in Numbers, NEW size \in Int, NEW d, d = Counters!on_free(c, size)
  PROVE  /\ d \in Numbers
         /\ d.total_objects_live = c.total_objects_live - 1
         /\ d.total_bytes_live = c.total_bytes_live - size
         /\ d.memory_allocated_since_last_interval = c.memory_allocated_since_last_interval
         /\ d.memory_freed_since_last_interval = c.memory_freed_since_last_interval + size
         /\ d.total_memory_allocated = c.total_memory_allocated
         /\ d.total_memory_freed = c.total_memory_freed + size
  <1>1. /\ d.total_objects_live = c.total_objects_live - 1
        /\ d.total_bytes_live = c.total_bytes_live - size
        /\ d.memory_allocated_since_last_interval = c.memory_allocated_since_last_interval
        /\ d.memory_freed_since_last_interval = c.memory_freed_since_last_interval + size
        /\ d.total_memory_allocated = c.total_memory_allocated
        /\ d.total_memory_freed = c.total_memory_freed + size
    BY DEF Numbers, Fields, Counters!on_free
  <1>2. d = [f \in Fields |-> d[f]]
    BY DEF Numbers, Counters!on_free
  <1>3. \A f \in Fields : d[f] \in Int
    BY <1>1 DEF Fields, Numbers
  <1>4. d \in Numbers
    <2>1. [f \in Fields |-> d[f]] \in Numbers
      BY <1>3 DEF Numbers
    <2> QED BY <1>2, <2>1, Zenon
  <1> QED BY <1>1, <1>4

\* The end of an interval starts a new period.
LEMMA FinishTotals ==
  ASSUME NEW c \in Numbers, NEW d, d = Counters!finish_interval(c)
  PROVE  /\ d \in Numbers
         /\ d.total_objects_live = c.total_objects_live
         /\ d.total_bytes_live = c.total_bytes_live
         /\ d.memory_allocated_since_last_interval = 0
         /\ d.memory_freed_since_last_interval = 0
         /\ d.total_memory_allocated = c.total_memory_allocated
         /\ d.total_memory_freed = c.total_memory_freed
  <1>1. /\ d.total_objects_live = c.total_objects_live
        /\ d.total_bytes_live = c.total_bytes_live
        /\ d.memory_allocated_since_last_interval = 0
        /\ d.memory_freed_since_last_interval = 0
        /\ d.total_memory_allocated = c.total_memory_allocated
        /\ d.total_memory_freed = c.total_memory_freed
    BY DEF Numbers, Fields, Counters!finish_interval
  <1>2. d = [f \in Fields |-> d[f]]
    BY DEF Numbers, Counters!finish_interval
  <1>3. \A f \in Fields : d[f] \in Int
    BY <1>1 DEF Fields, Numbers
  <1>4. d \in Numbers
    <2>1. [f \in Fields |-> d[f]] \in Numbers
      BY <1>3 DEF Numbers
    <2> QED BY <1>2, <2>1, Zenon
  <1> QED BY <1>1, <1>4

\* All totals start at zero.
LEMMA PeriodsInvInit == Init => PeriodsInv
  <1> SUFFICES ASSUME Init PROVE PeriodsInv
    OBVIOUS
  <1>1. \A f \in Fields : counters[f] = 0
    BY DEF Init, All!AllInit, All!Counters!Zeroes, Fields
  <1>2. counters = [f \in Fields |-> counters[f]]
    BY DEF Init, All!AllInit, All!Counters!Zeroes, Fields
  <1>3. counters \in Numbers
    <2>1. [f \in Fields |-> counters[f]] \in Numbers
      BY <1>1 DEF Numbers
    <2> QED BY <1>2, <2>1, Zenon
  <1> QED BY <1>1, <1>3 DEF Init, EventsInit, PeriodsInv, TotalsInv, PeriodsAddUp, Fields

\* With the sums written out, PeriodsAddUp is arithmetic.
LEMMA PeriodsArithmetic ==
  ASSUME PeriodsInv
  PROVE  /\ counters.total_objects_live \in Int
         /\ counters.total_bytes_live \in Int
         /\ counters.memory_allocated_since_last_interval \in Int
         /\ counters.memory_freed_since_last_interval \in Int
         /\ counters.total_memory_allocated \in Int
         /\ counters.total_memory_freed \in Int
         /\ reported.allocated \in Int /\ reported.freed \in Int /\ alloced \in Int
         /\ PeriodsAddUp
  <1>1. /\ counters \in Numbers
        /\ reported.allocated \in Int /\ reported.freed \in Int /\ alloced \in Int
        /\ PeriodsAddUp
    BY DEF PeriodsInv, TotalsInv
  <1> QED BY <1>1, TotalsAreNumbers

\* A report adds a size to the total, to the period and to the history.
LEMMA ReportKeepsPeriods ==
  ASSUME PeriodsInv, NEW p \in Ptrs, HearAlloc(p), Count(p), pending' \in Ptrs \cup {NoPtr}
  PROVE  PeriodsInv'
  <1>1. SizeOf[p] \in Int /\ counters \in Numbers
    BY SizesAssumption DEF PeriodsInv, TotalsInv
  <1>2. CASE registered = "AllTest"
    <2>1. /\ counters' = Counters!on_alloc(counters, SizeOf[p])
          /\ alloced' = alloced + SizeOf[p] /\ reported' = reported
      BY <1>2 DEF HearAlloc, All!on_alloc, Count, All!Counters!on_alloc, Counters!on_alloc
    <2>2. /\ counters' \in Numbers
          /\ counters'.total_objects_live = counters.total_objects_live + 1
          /\ counters'.total_bytes_live = counters.total_bytes_live + SizeOf[p]
          /\ counters'.memory_allocated_since_last_interval =
               counters.memory_allocated_since_last_interval + SizeOf[p]
          /\ counters'.memory_freed_since_last_interval = counters.memory_freed_since_last_interval
          /\ counters'.total_memory_allocated = counters.total_memory_allocated + SizeOf[p]
          /\ counters'.total_memory_freed = counters.total_memory_freed
      BY <1>1, <2>1, AllocTotals
    <2>3. TotalsInv'
      BY <1>1, <2>1, <2>2 DEF PeriodsInv, TotalsInv
    <2>4. PeriodsAddUp'
      BY <1>1, <2>1, <2>2, PeriodsArithmetic DEF PeriodsAddUp
    <2> QED BY <2>3, <2>4 DEF PeriodsInv
  <1>3. CASE registered # "AllTest"
    BY <1>3 DEF HearAlloc, Count, all_vars, PeriodsInv, TotalsInv, PeriodsAddUp
  <1> QED BY <1>2, <1>3

\* Only reports, frees and AllTest's interval touch the totals.
LEMMA PeriodsInvStep == PeriodsInv /\ [Next]_vars => PeriodsInv'
  <1> SUFFICES ASSUME PeriodsInv, [Next]_vars PROVE PeriodsInv'
    OBVIOUS
  <1>0. counters \in Numbers
    BY DEF PeriodsInv, TotalsInv
  <1>1. ASSUME NEW p \in Ptrs, Announce(p) PROVE PeriodsInv'
    <2>1. HearAlloc(p) /\ Count(p) /\ pending' \in Ptrs \cup {NoPtr}
      BY <1>1 DEF Announce, announce
    <2> QED BY <2>1, ReportKeepsPeriods
  <1>2. ASSUME AnnounceAgain PROVE PeriodsInv'
    <2>1. pending \in Ptrs /\ HearAlloc(pending) /\ Count(pending) /\ pending' = NoPtr
      BY <1>2 DEF AnnounceAgain, announce_again, PeriodsInv, TotalsInv
    <2> QED BY <2>1, ReportKeepsPeriods
  <1>3. ASSUME NEW p \in Ptrs, Retract(p) PROVE PeriodsInv'
    <2>1. SizeOf[p] \in Int
      BY SizesAssumption
    <2>2. reported' = reported /\ alloced' = alloced /\ pending' = pending
      BY <1>3 DEF Retract, retract, history
    <2>3. CASE registered = "AllTest"
      <3>1. counters' = Counters!on_free(counters, SizeOf[p])
        BY <1>3, <2>3 DEF Retract, HearFree, All!on_free, All!Counters!on_free, Counters!on_free
      <3>2. /\ counters' \in Numbers
            /\ counters'.total_objects_live = counters.total_objects_live - 1
            /\ counters'.total_bytes_live = counters.total_bytes_live - SizeOf[p]
            /\ counters'.memory_allocated_since_last_interval = counters.memory_allocated_since_last_interval
            /\ counters'.memory_freed_since_last_interval =
                 counters.memory_freed_since_last_interval + SizeOf[p]
            /\ counters'.total_memory_allocated = counters.total_memory_allocated
            /\ counters'.total_memory_freed = counters.total_memory_freed + SizeOf[p]
        BY <1>0, <2>1, <3>1, FreeTotals
      <3>3. TotalsInv'
        BY <2>1, <2>2, <3>2 DEF PeriodsInv, TotalsInv
      <3>4. PeriodsAddUp'
        BY <2>1, <2>2, <3>2, PeriodsArithmetic DEF PeriodsAddUp
      <3> QED BY <3>3, <3>4 DEF PeriodsInv
    <2>4. CASE registered # "AllTest"
      BY <1>3, <2>2, <2>4 DEF Retract, HearFree, all_vars, PeriodsInv, TotalsInv, PeriodsAddUp
    <2> QED BY <2>3, <2>4
  <1>4. ASSUME Begin PROVE PeriodsInv'
    BY <1>4 DEF Begin, begin, all_vars, history, PeriodsInv, TotalsInv, PeriodsAddUp
  <1>5. ASSUME DeliverAccesses PROVE PeriodsInv'
    BY <1>5 DEF DeliverAccesses, event_vars, all_vars, PeriodsInv, TotalsInv, PeriodsAddUp
  <1>6. ASSUME RunAllTest PROVE PeriodsInv'
    \* What moves from the period to the rows is what the row says.
    <2>1. /\ interval_file' = <<All!track_interval_info>>
          /\ counters' = Counters!finish_interval(counters)
      BY <1>6 DEF RunAllTest, All!interval, All!Counters!finish_interval, Counters!finish_interval
    <2>2. /\ interval_file'[1].allocated = counters.memory_allocated_since_last_interval
          /\ interval_file'[1].freed = counters.memory_freed_since_last_interval
      BY <2>1 DEF All!track_interval_info
    <2>3. /\ reported' = [allocated |-> reported.allocated + interval_file'[1].allocated,
                          freed     |-> reported.freed + interval_file'[1].freed]
          /\ alloced' = alloced /\ pending' = pending
      BY <1>6 DEF RunAllTest, event_vars
    <2>4. /\ counters' \in Numbers
          /\ counters'.total_objects_live = counters.total_objects_live
          /\ counters'.total_bytes_live = counters.total_bytes_live
          /\ counters'.memory_allocated_since_last_interval = 0
          /\ counters'.memory_freed_since_last_interval = 0
          /\ counters'.total_memory_allocated = counters.total_memory_allocated
          /\ counters'.total_memory_freed = counters.total_memory_freed
      BY <1>0, <2>1, FinishTotals
    <2>5. /\ reported'.allocated =
               reported.allocated + counters.memory_allocated_since_last_interval
          /\ reported'.freed = reported.freed + counters.memory_freed_since_last_interval
      BY <2>2, <2>3
    <2>6. reported' \in [allocated : Int, freed : Int]
      BY <2>2, <2>3, PeriodsArithmetic
    <2>7. TotalsInv'
      BY <2>3, <2>4, <2>6 DEF PeriodsInv, TotalsInv
    <2>8. PeriodsAddUp'
      BY <2>3, <2>4, <2>5, PeriodsArithmetic DEF PeriodsAddUp
    <2> QED BY <2>7, <2>8 DEF PeriodsInv
  <1>7. ASSUME RunAccessPatternTest PROVE PeriodsInv'
    BY <1>7 DEF RunAccessPatternTest, event_vars, all_vars, PeriodsInv, TotalsInv, PeriodsAddUp
  <1>8. ASSUME End PROVE PeriodsInv'
    BY <1>8 DEF End, end, All!ForgetRows, history, PeriodsInv, TotalsInv, PeriodsAddUp
  <1>9. ASSUME UNCHANGED vars PROVE PeriodsInv'
    BY <1>9 DEF vars, event_vars, all_vars, history, PeriodsInv, TotalsInv, PeriodsAddUp
  <1> QED BY <1>1, <1>2, <1>3, <1>4, <1>5, <1>6, <1>7, <1>8, <1>9 DEF Next

\* The rows of all intervals and the running period add up to the totals,
\* whatever the sizes and however events and intervals alternate.
THEOREM PeriodsDoAddUp == Spec => []PeriodsAddUp
  <1>1. PeriodsInv => PeriodsAddUp
    BY DEF PeriodsInv
  <1> QED BY <1>1, PeriodsInvInit, PeriodsInvStep, PTL DEF Spec

---------------------------------------------------------------------------
(* The number of live objects                                              *)

\* Ages tell the recorded allocations from the others.
CountInv ==
  /\ TotalsInv
  /\ age \in [Ptrs -> Int] /\ \A p \in Ptrs : age[p] >= Gone
  /\ LiveNotUndercounted

\* There are no records, and no live object is counted.
LEMMA CountInvInit == Init => CountInv
  <1> SUFFICES ASSUME Init PROVE CountInv
    OBVIOUS
  <1>1. TotalsInv /\ counters.total_objects_live = 0
    BY PeriodsInvInit DEF PeriodsInv, Init, All!AllInit, All!Counters!Zeroes
  <1>2. age = [p \in Ptrs |-> Gone] /\ Recorded = {}
    BY DEF Init, EventsInit, Recorded
  <1> QED BY <1>1, <1>2, FS_EmptySet DEF CountInv, Gone, LiveNotUndercounted

\* A report makes at most one record, and counts one object.
LEMMA ReportKeepsCount ==
  ASSUME CountInv, NEW p \in Ptrs, report(p), HearAlloc(p),
         registered' = registered, TotalsInv'
  PROVE  CountInv'
  <1>1. /\ age' \in [Ptrs -> Int] /\ \A q \in Ptrs : age'[q] >= Gone
        /\ Recorded' \subseteq Recorded \cup {p}
    BY DEF CountInv, report, Recorded, Gone
  <1>2. ASSUME registered = "AllTest"
        PROVE  counters'.total_objects_live >= Cardinality(Recorded')
    <2>1. counters'.total_objects_live = counters.total_objects_live + 1
      <3>1. /\ counters' = Counters!on_alloc(counters, SizeOf[p])
            /\ SizeOf[p] \in Int /\ counters \in Numbers
        BY <1>2, SizesAssumption DEF HearAlloc, All!on_alloc, All!Counters!on_alloc, Counters!on_alloc,
                                      CountInv, TotalsInv
      <3> QED BY <3>1, AllocTotals
    <2>2. IsFiniteSet(Recorded)
      BY PtrsAssumption, FS_Subset DEF Recorded
    <2>3. /\ IsFiniteSet(Recorded \cup {p})
          /\ Cardinality(Recorded \cup {p}) <= Cardinality(Recorded) + 1
          /\ Cardinality(Recorded) \in Nat
      BY <2>2, FS_AddElement, FS_CardinalityType
    <2>4. Cardinality(Recorded') <= Cardinality(Recorded \cup {p}) /\ Cardinality(Recorded') \in Nat
      BY <1>1, <2>3, FS_Subset, FS_CardinalityType
    <2>5. Cardinality(Recorded \cup {p}) \in Nat
      BY <2>3, FS_CardinalityType
    <2> QED BY <1>2, <2>1, <2>3, <2>4, <2>5 DEF CountInv, TotalsInv, Numbers, Fields, LiveNotUndercounted
  <1> QED BY <1>1, <1>2 DEF CountInv, LiveNotUndercounted

\* A record comes with a report, which counts it, and goes with a free.
LEMMA CountInvStep == CountInv /\ TotalsInv' /\ [Next]_vars => CountInv'
  <1> SUFFICES ASSUME CountInv, TotalsInv', [Next]_vars PROVE CountInv'
    OBVIOUS
  <1>1. ASSUME NEW p \in Ptrs, Announce(p) PROVE CountInv'
    BY <1>1, ReportKeepsCount DEF Announce, announce, config
  <1>2. ASSUME AnnounceAgain PROVE CountInv'
    <2>1. pending \in Ptrs /\ report(pending) /\ HearAlloc(pending) /\ registered' = registered
      BY <1>2 DEF AnnounceAgain, announce_again, config, CountInv, TotalsInv
    <2> QED BY <2>1, ReportKeepsCount
  <1>3. ASSUME NEW p \in Ptrs, Retract(p) PROVE CountInv'
    <2>1. /\ p \in Recorded /\ Recorded' = Recorded \ {p} /\ registered' = registered
          /\ age' \in [Ptrs -> Int] /\ \A q \in Ptrs : age'[q] >= Gone
      BY <1>3 DEF Retract, retract, CountInv, Recorded, Gone, config
    <2>2. ASSUME registered = "AllTest"
          PROVE  counters'.total_objects_live >= Cardinality(Recorded')
      <3>1. counters'.total_objects_live = counters.total_objects_live - 1
        <4>1. /\ counters' = Counters!on_free(counters, SizeOf[p])
              /\ SizeOf[p] \in Int /\ counters \in Numbers
          BY <1>3, <2>2, SizesAssumption DEF Retract, HearFree, All!on_free, All!Counters!on_free,
                                                Counters!on_free, CountInv, TotalsInv
        <4> QED BY <4>1, FreeTotals
      <3>2. IsFiniteSet(Recorded)
        BY PtrsAssumption, FS_Subset DEF Recorded
      <3>3. /\ Cardinality(Recorded \ {p}) = Cardinality(Recorded) - 1
            /\ Cardinality(Recorded) \in Nat
        BY <2>1, <3>2, FS_RemoveElement, FS_CardinalityType
      <3> QED BY <2>1, <2>2, <3>1, <3>3 DEF CountInv, TotalsInv, Numbers, Fields, LiveNotUndercounted
    <2> QED BY <2>1, <2>2 DEF CountInv, LiveNotUndercounted
  <1>4. ASSUME UNCHANGED age, UNCHANGED registered,
               \/ UNCHANGED counters
               \/ counters' = Counters!finish_interval(counters)
        PROVE  CountInv'
    <2>1. Recorded' = Recorded /\ counters'.total_objects_live = counters.total_objects_live
      BY <1>4, FinishTotals DEF Recorded, CountInv, TotalsInv
    <2> QED BY <1>4, <2>1 DEF CountInv, LiveNotUndercounted
  <1>5. ASSUME Begin PROVE CountInv'
    BY <1>4, <1>5 DEF Begin, begin, all_vars, config
  <1>6. ASSUME DeliverAccesses PROVE CountInv'
    BY <1>4, <1>6 DEF DeliverAccesses, event_vars, all_vars, config
  <1>7. ASSUME RunAllTest PROVE CountInv'
    BY <1>4, <1>7 DEF RunAllTest, event_vars, config, All!interval,
                     All!Counters!finish_interval, Counters!finish_interval
  <1>8. ASSUME RunAccessPatternTest PROVE CountInv'
    BY <1>4, <1>8 DEF RunAccessPatternTest, event_vars, all_vars, config
  <1>9. ASSUME End PROVE CountInv'
    \* Records age, but none comes or goes.
    <2>1. /\ age' = [p \in Ptrs |-> IF p \in Recorded THEN Saturated(age[p] + 1, MaxAge) ELSE Gone]
          /\ counters' = counters /\ registered' = registered
      BY <1>9 DEF End, end, All!ForgetRows, config
    <2>2. \A p \in Ptrs : age[p] # Gone => Saturated(age[p] + 1, MaxAge) \in Nat
      BY EventsAssumption DEF CountInv, Gone, Saturated
    <2>3. /\ age' \in [Ptrs -> Int] /\ \A p \in Ptrs : age'[p] >= Gone
          /\ Recorded' = Recorded
      BY <2>1, <2>2 DEF Recorded, Gone
    <2> QED BY <2>1, <2>3 DEF CountInv, LiveNotUndercounted
  <1>10. ASSUME UNCHANGED vars PROVE CountInv'
    BY <1>4, <1>10 DEF vars, event_vars, all_vars, config
  <1> QED BY <1>1, <1>2, <1>3, <1>5, <1>6, <1>7, <1>8, <1>9, <1>10 DEF Next

\* The live objects of the summary are never fewer than the records, for
\* any number of allocations: a second report can only count too many.
THEOREM LiveIsNotUndercounted == Spec => []LiveNotUndercounted
  <1>1. CountInv => LiveNotUndercounted
    BY DEF CountInv
  <1>2. PeriodsInv => TotalsInv
    BY DEF PeriodsInv
  <1> QED BY <1>1, <1>2, PeriodsInvInit, PeriodsInvStep, CountInvInit, CountInvStep, PTL DEF Spec

---------------------------------------------------------------------------
(* The rows of AllTest                                                     *)

AddRow(csv, row) == All!Table!AddRow(csv, row)
MeetPage(acc, row) == All!MeetPage(acc, row)
MeetObject(acc, rows) == All!MeetObject(acc, rows)

Adding == INSTANCE FoldLaws WITH Op <- AddRow
Meeting == INSTANCE FoldLaws WITH Op <- MeetPage
Walking == INSTANCE FoldLaws WITH Op <- MeetObject

LEMMA AddRowsIs == ASSUME NEW rows PROVE All!AddRows(rows) = Adding!Folded(All!Table!Empty, rows)
  BY DEF All!AddRows, All!FoldLeft, All!MapThenFoldSet, All!Max, AddRow,
         Adding!Folded, Adding!FoldLeft, Adding!MapThenFoldSet, Adding!Max

LEMMA MeetObjectIs == ASSUME NEW acc, NEW rows PROVE MeetObject(acc, rows) = Meeting!Folded(acc, rows)
  BY DEF MeetObject, All!MeetObject, All!FoldLeft, All!MapThenFoldSet, All!Max, MeetPage,
         Meeting!Folded, Meeting!FoldLeft, Meeting!MapThenFoldSet, Meeting!Max

\* A CSV whose rows are written out as soon as it is full, and all its rows.
CSVs(R) == {csv \in [rows : Seq(R), file : Seq(R)] : Len(csv.rows) < CSVLength}
Met(csv) == csv.file \o csv.rows

LEMMA EmptyCSV ==
  ASSUME NEW R
  PROVE  All!Table!Empty \in CSVs(R) /\ Met(All!Table!Empty) = <<>>
  BY LengthsAssumption DEF All!Table!Empty, CSVs, Met

\* No row is lost, whether or not it fills the CSV.
LEMMA AddRowIs ==
  ASSUME NEW R, NEW csv \in CSVs(R), NEW row \in R
  PROVE  AddRow(csv, row) \in CSVs(R) /\ Met(AddRow(csv, row)) = Append(Met(csv), row)
  <1> DEFINE rows == csv.rows  file == csv.file  more == Append(rows, row)
  <1>1. /\ csv \in [rows : Seq(R), file : Seq(R)] /\ rows \in Seq(R) /\ file \in Seq(R)
        /\ Len(rows) < CSVLength /\ CSVLength \in Nat \ {0}
    BY LengthsAssumption DEF CSVs
  <1>2. more \in Seq(R) /\ Len(more) = Len(rows) + 1
    BY <1>1
  <1>3. file \o more = Append(file \o rows, row) /\ file \o more \in Seq(R) /\ (file \o more) \o <<>> = file \o more
    <2>1. more = rows \o <<row>> /\ <<row>> \in Seq(R)
      BY <1>1, AppendIsConcat
    <2>2. file \o rows \in Seq(R) /\ Append(file \o rows, row) = (file \o rows) \o <<row>>
      BY <1>1, ConcatProperties, AppendIsConcat
    <2>3. (file \o rows) \o <<row>> = file \o (rows \o <<row>>)
      BY <1>1, <2>1, ConcatAssociative
    <2>4. file \o more \in Seq(R)
      BY <1>1, <1>2, ConcatProperties
    <2>5. (file \o more) \o <<>> = file \o more
      BY <2>4, ConcatEmptySeq
    <2> QED BY <2>1, <2>2, <2>3, <2>4, <2>5, Zenon
  <1> DEFINE with == [csv EXCEPT !.rows = more]
  <1>4. All!Table!NewRow(csv, row) = with
    BY <1>1, Zenon DEF All!Table!NewRow
  <1> HIDE DEF more
  <1>5. with \in [rows : Seq(R), file : Seq(R)] /\ with.rows = more /\ with.file = file
    BY <1>1, <1>2
  <1> HIDE DEF with
  <1>6. CASE Len(more) >= CSVLength
    <2>1. AddRow(csv, row) = [rows |-> <<>>, file |-> file \o more]
      BY <1>4, <1>5, <1>6, Zenon DEF AddRow, All!Table!AddRow, All!Table!Full, All!Table!Flush
    <2> DEFINE all == file \o more
    <2>2. all \in Seq(R) /\ all \o <<>> = all /\ all = Append(Met(csv), row)
      BY <1>3, Zenon DEF Met
    <2>3. AddRow(csv, row) = [rows |-> <<>>, file |-> all]
      BY <2>1
    <2> HIDE DEF all
    <2> QED BY <1>1, <2>2, <2>3 DEF CSVs, Met
  <1>7. CASE ~(Len(more) >= CSVLength)
    <2>1. AddRow(csv, row) = with
      BY <1>4, <1>5, <1>7, Zenon DEF AddRow, All!Table!AddRow, All!Table!Full
    <2>2. Len(with.rows) < CSVLength
      BY <1>1, <1>2, <1>5, <1>7
    <2>3. Met(with) = Append(Met(csv), row)
      BY <1>3, <1>5, Zenon DEF Met
    <2> QED BY <1>5, <2>1, <2>2, <2>3 DEF CSVs
  <1> QED BY <1>6, <1>7

\* What is written in the end.
LEMMA FlushIs ==
  ASSUME NEW csv
  PROVE  All!Table!Flush(csv).file = Met(csv)
  BY DEF All!Table!Flush, Met

\* So a table has the rows that were added, in their order.
LEMMA RowsWritten ==
  ASSUME NEW R, NEW s \in Seq(R)
  PROVE  All!Table!Flush(All!AddRows(s)).file = s
  <1> DEFINE T == [i \in 0 .. Len(s) |-> {csv \in CSVs(R) : Met(csv) = SubSeq(s, 1, i)}]
  <1>1. Len(s) \in Nat /\ 0 \in 0 .. Len(s) /\ Len(s) \in 0 .. Len(s)
    OBVIOUS
  <1>2. SubSeq(s, 1, 0) = <<>> /\ SubSeq(s, 1, Len(s)) = s
    OBVIOUS
  <1>3. \A i \in 0 .. Len(s) : T[i] = {csv \in CSVs(R) : Met(csv) = SubSeq(s, 1, i)}
    BY Zenon
  <1> HIDE DEF T
  <1>4. All!Table!Empty \in T[0]
    BY <1>1, <1>2, <1>3, EmptyCSV, Zenon
  <1>5. ASSUME NEW i \in 1 .. Len(s), NEW csv \in T[i - 1] PROVE AddRow(csv, s[i]) \in T[i]
    <2>1. i - 1 \in 0 .. Len(s) /\ i \in 0 .. Len(s) /\ s[i] \in R
      BY <1>1
    <2>2. csv \in CSVs(R) /\ Met(csv) = SubSeq(s, 1, i - 1)
      BY <1>3, <2>1, Zenon
    <2>3. Append(SubSeq(s, 1, i - 1), s[i]) = SubSeq(s, 1, i)
      BY <1>1
    <2>4. AddRow(csv, s[i]) \in CSVs(R) /\ Met(AddRow(csv, s[i])) = Append(Met(csv), s[i])
      BY <2>1, <2>2, AddRowIs
    <2> QED BY <1>3, <2>1, <2>2, <2>3, <2>4, Zenon
  <1>6. Adding!Folded(All!Table!Empty, s) \in T[Len(s)]
    BY <1>4, <1>5, Adding!FoldPasses
  <1>7. Met(All!AddRows(s)) = s
    BY <1>1, <1>2, <1>3, <1>6, AddRowsIs, Zenon
  <1> QED BY <1>7, FlushIs, Zenon

\* The instances count and list sets as this module does.
LEMMA CountIs == ASSUME NEW S PROVE All!Cardinality(S) = Cardinality(S) /\ Adding!Cardinality(S) = Cardinality(S)
  BY DEF All!Cardinality, Adding!Cardinality, Cardinality

LEMMA FiniteIs == ASSUME NEW S PROVE Adding!IsFiniteSet(S) <=> IsFiniteSet(S)
  BY DEF Adding!IsFiniteSet, IsFiniteSet

LEMMA ListIs == ASSUME NEW S PROVE All!SetToSeq(S) = Adding!SetToSeq(S)
  <1>1. All!Cardinality(S) = Adding!Cardinality(S)
    BY CountIs, Zenon
  <1> QED BY <1>1, Zenon DEF All!SetToSeq, Adding!SetToSeq, All!IsInjective, Adding!IsInjective

\* A walk over the records meets each of them once.
LEMMA WalkIs ==
  ASSUME NEW S, IsFiniteSet(S), NEW walk \in All!SetToSeqs(S)
  PROVE  /\ walk \in Seq(S) /\ Len(walk) = Cardinality(S) /\ Cardinality(S) \in Nat
         /\ \A i, j \in 1 .. Len(walk) : walk[i] = walk[j] => i = j
  <1>1. Cardinality(S) \in Nat
    BY FS_CardinalityType
  <1>2. /\ walk \in [1 .. Cardinality(S) -> S]
        /\ \A i, j \in 1 .. Cardinality(S) : i # j => walk[i] # walk[j]
    BY CountIs, Zenon DEF All!SetToSeqs
  <1>3. walk \in Seq(S) /\ Len(walk) = Cardinality(S)
    BY <1>1, <1>2
  <1> QED BY <1>1, <1>2, <1>3

\* The rows of track_objects().
LEMMA ObjectRows ==
  ASSUME NEW S, IsFiniteSet(S), NEW walk \in All!SetToSeqs(S)
  PROVE  \A written : written = All!Table!Flush(All!track_objects(walk)).file =>
           /\ written \in Seq(S)
           /\ Len(written) = Cardinality({written[i] : i \in DOMAIN written})
           /\ Len(written) = IF Cardinality(S) <= MaxObjectRows + 1 THEN Cardinality(S) ELSE MaxObjectRows + 1
  <1> DEFINE n == IF Len(walk) <= MaxObjectRows + 1 THEN Len(walk) ELSE MaxObjectRows + 1
             met == SubSeq(walk, 1, n)
             file == All!Table!Flush(All!track_objects(walk)).file
  <1>1. /\ walk \in Seq(S) /\ Len(walk) = Cardinality(S) /\ Cardinality(S) \in Nat
        /\ \A i, j \in 1 .. Len(walk) : walk[i] = walk[j] => i = j
    BY WalkIs
  <1>2. n \in 0 .. Len(walk) /\ n \in Nat
    BY <1>1, LengthsAssumption
  <1>3. met \in Seq(S) /\ Len(met) = n /\ \A i \in 1 .. n : met[i] = walk[i]
    <2> HIDE DEF n
    <2> QED BY <1>1, <1>2
  <1>4. file = met
    <2>1. All!track_objects(walk) = All!AddRows(met)
      BY Zenon DEF All!track_objects
    <2> HIDE DEF met
    <2> QED BY <1>3, <2>1, RowsWritten, Zenon
  <1> HIDE DEF file, met
  <1>5. \A i, j \in 1 .. Len(met) : met[i] = met[j] => i = j
    <2> HIDE DEF n
    <2> QED BY <1>1, <1>2, <1>3
  <1>6. Cardinality({met[i] : i \in 1 .. Len(met)}) = Len(met)
    <2>1. Adding!Cardinality({met[i] : i \in 1 .. Len(met)}) = Len(met)
      <3> HIDE DEF met
      <3> QED BY <1>3, <1>5, Adding!CountedOnce, Zenon
    <2> QED BY <2>1, CountIs, Zenon
  <1>7. DOMAIN met = 1 .. Len(met) /\ {met[i] : i \in 1 .. Len(met)} \subseteq S
    BY <1>3
  <1>8. DOMAIN file = 1 .. Len(file) /\ Len(file) = n /\ file \in Seq(S)
    <2> HIDE DEF n
    <2> QED BY <1>3, <1>4, <1>7
  <1>9. Len(file) = Cardinality({file[i] : i \in DOMAIN file})
    BY <1>4, <1>6, <1>8, Zenon
  <1>10. n = IF Cardinality(S) <= MaxObjectRows + 1 THEN Cardinality(S) ELSE MaxObjectRows + 1
    BY <1>1, Zenon
  <1> HIDE DEF n
  <1> QED BY <1>8, <1>9, <1>10, Zenon DEF file

\* A row of the page table, and what has been met so far: each page once.
PageRows == {row \in [page : Pages, object : Recorded] : row.page \in PagesOf[row.object]}
PagesMet ==
  {acc \in [tracked_pages : SUBSET Pages, csv : CSVs(PageRows)] :
     /\ \A i \in 1 .. Len(Met(acc.csv)) : Met(acc.csv)[i].page \in acc.tracked_pages
     /\ \A i, j \in 1 .. Len(Met(acc.csv)) : Met(acc.csv)[i].page = Met(acc.csv)[j].page => i = j}

LEMMA MeetPageIs ==
  ASSUME NEW acc \in PagesMet, NEW row \in PageRows
  PROVE  MeetPage(acc, row) \in PagesMet
  <1>1. CASE row.page \in acc.tracked_pages
    BY <1>1, Zenon DEF MeetPage, All!MeetPage
  <1>2. CASE row.page \notin acc.tracked_pages
    <2> DEFINE csv == AddRow(acc.csv, row)  pages == acc.tracked_pages \cup {row.page}
               old == Met(acc.csv)  new == Met(csv)
    <2>1. /\ acc.csv \in CSVs(PageRows) /\ acc.tracked_pages \in SUBSET Pages
          /\ \A i \in 1 .. Len(old) : old[i].page \in acc.tracked_pages
          /\ \A i, j \in 1 .. Len(old) : old[i].page = old[j].page => i = j
      BY DEF PagesMet
    <2>2. csv \in CSVs(PageRows) /\ new = Append(old, row)
      BY <2>1, AddRowIs
    <2>3. old \in Seq(PageRows)
      <3>1. acc.csv.file \in Seq(PageRows) /\ acc.csv.rows \in Seq(PageRows)
        BY <2>1 DEF CSVs
      <3> QED BY <3>1, ConcatProperties DEF Met
    <2>4. pages \in SUBSET Pages
      BY <2>1 DEF PageRows
    <2>5. MeetPage(acc, row) = [tracked_pages |-> pages, csv |-> csv]
      BY <1>2, Zenon DEF MeetPage, All!MeetPage, AddRow
    <2> HIDE DEF csv, old
    <2>6. /\ Len(new) = Len(old) + 1 /\ Len(old) \in Nat /\ new[Len(old) + 1] = row
          /\ \A i \in 1 .. Len(old) : new[i] = old[i]
      <3> HIDE DEF new
      <3> QED BY <2>2, <2>3
    <2>7. \A i \in 1 .. Len(new) : i \in 1 .. Len(old) \/ i = Len(old) + 1
      <3> HIDE DEF new
      <3> QED BY <2>6
    <2> HIDE DEF new
    <2>8. \A i \in 1 .. Len(new) : new[i].page \in pages
      BY <2>1, <2>6, <2>7
    <2>9. \A i, j \in 1 .. Len(new) : new[i].page = new[j].page => i = j
      BY <1>2, <2>1, <2>6, <2>7
    <2> HIDE DEF pages
    <2> QED BY <2>2, <2>4, <2>5, <2>8, <2>9 DEF PagesMet, new
  <1> QED BY <1>1, <1>2

\* The resident pages of an object are rows of it.
LEMMA ResidentRows ==
  ASSUME NEW p \in Recorded, NEW resident \in SUBSET Pages
  PROVE  All!ResidentPages(p, resident) \in Seq(PageRows)
  <1> DEFINE S == PagesOf[p] \cap resident  pages == All!SetToSeq(S)
             rows == [i \in 1 .. Len(pages) |-> [page |-> pages[i], object |-> p]]
  <1>1. S \in SUBSET Pages /\ IsFiniteSet(S) /\ S \subseteq PagesOf[p]
    <2>1. S \in SUBSET Pages
      OBVIOUS
    <2> QED BY <2>1, PagesAssumption, FS_Subset
  <1> HIDE DEF S
  <1>2. pages \in Seq(S)
    <2>1. Adding!IsFiniteSet(S)
      BY <1>1, FiniteIs
    <2>2. Adding!SetToSeq(S) \in Seq(S)
      BY <2>1, Adding!SetToSeqIs, Zenon
    <2> QED BY <2>2, ListIs, Zenon
  <1> HIDE DEF pages
  <1>3. \A i \in 1 .. Len(pages) : [page |-> pages[i], object |-> p] \in PageRows
    BY <1>1, <1>2 DEF PageRows
  <1>4. rows \in Seq(PageRows)
    <2>1. Len(pages) \in Nat
      BY <1>2
    <2> DEFINE n == Len(pages)
    <2>2. n \in Nat /\ rows \in [1 .. n -> PageRows]
      BY <1>3, <2>1
    <2> HIDE DEF n, rows
    <2> QED BY <2>2
  <1> QED BY <1>4, Zenon DEF All!ResidentPages, S, pages

\* The rows of track_physical_pages().
LEMMA PhysicalPageRows ==
  ASSUME IsFiniteSet(Recorded), NEW walk \in All!SetToSeqs(Recorded), NEW resident \in SUBSET Pages
  PROVE  \A written : written = All!Table!Flush(All!track_physical_pages(walk, resident)).file =>
           /\ written \in Seq(PageRows)
           /\ \A i, j \in 1 .. Len(written) : written[i].page = written[j].page => i = j
  <1> DEFINE none == [tracked_pages |-> {}, csv |-> All!Table!Empty]
             met == [i \in 1 .. Len(walk) |-> All!ResidentPages(walk[i], resident)]
             last == Walking!Folded(none, met)
  <1>1. walk \in Seq(Recorded) /\ Len(walk) \in Nat
    BY WalkIs
  <1>2. met \in Seq(Seq(PageRows))
    <2> DEFINE n == Len(walk)
    <2>1. \A i \in 1 .. n : All!ResidentPages(walk[i], resident) \in Seq(PageRows)
      <3>1. \A i \in 1 .. n : walk[i] \in Recorded
        BY <1>1
      <3> HIDE DEF n
      <3> QED BY <3>1, ResidentRows
    <2>2. n \in Nat /\ met = [i \in 1 .. n |-> All!ResidentPages(walk[i], resident)]
      BY <1>1
    <2> HIDE DEF n, met
    <2>3. met \in [1 .. n -> Seq(PageRows)]
      BY <2>1, <2>2, Zenon
    <2> QED BY <2>2, <2>3
  <1>3. none \in PagesMet
    <2>1. All!Table!Empty \in CSVs(PageRows) /\ Met(All!Table!Empty) = <<>>
      BY EmptyCSV
    <2> QED BY <2>1 DEF PagesMet
  <1>4. \A acc \in PagesMet, rows \in Seq(PageRows) : MeetObject(acc, rows) \in PagesMet
    <2> SUFFICES ASSUME NEW acc \in PagesMet, NEW rows \in Seq(PageRows) PROVE MeetObject(acc, rows) \in PagesMet
      OBVIOUS
    <2>1. \A a \in PagesMet, row \in PageRows : MeetPage(a, row) \in PagesMet
      BY MeetPageIs
    <2>2. Meeting!Folded(acc, rows) \in PagesMet
      BY <2>1, Meeting!FoldStays
    <2> QED BY <2>2, MeetObjectIs, Zenon
  <1>5. last \in PagesMet
    <2> HIDE DEF none, met
    <2> QED BY <1>2, <1>3, <1>4, Walking!FoldStays
  <1>6. All!track_physical_pages(walk, resident) = last.csv
    <2>1. Walking!Folded(none, met) = All!FoldLeft(All!MeetObject, none, met)
      <3> HIDE DEF none, met
      <3> QED BY DEF All!FoldLeft, All!MapThenFoldSet, All!Max, MeetObject,
                 Walking!Folded, Walking!FoldLeft, Walking!MapThenFoldSet, Walking!Max
    <2>2. All!track_physical_pages(walk, resident) = All!FoldLeft(All!MeetObject, none, met).csv
      BY Zenon DEF All!track_physical_pages
    <2> QED BY <2>1, <2>2, Zenon
  <1> DEFINE csv == last.csv  file == Met(csv)
  <1> HIDE DEF last
  <1>7. csv \in CSVs(PageRows) /\ \A i, j \in 1 .. Len(Met(csv)) : Met(csv)[i].page = Met(csv)[j].page => i = j
    BY <1>5 DEF PagesMet
  <1>8. file \in Seq(PageRows)
    <2>1. csv.file \in Seq(PageRows) /\ csv.rows \in Seq(PageRows)
      BY <1>7 DEF CSVs
    <2> QED BY <2>1, ConcatProperties DEF Met
  <1>9. All!Table!Flush(All!track_physical_pages(walk, resident)).file = file
    BY <1>6, FlushIs, Zenon
  <1> QED BY <1>7, <1>8, <1>9, Zenon

\* The inductive invariant: the tables have rows only between the interval
\* that writes them and its end, when no event can reach the records.
RowsInv ==
  /\ registered \in Tests
  /\ stage # "idle" => in_interval
  /\ (stage = "written" /\ registered = "AllTest") \/ page_file = <<>>
  /\ ObjectsReported /\ PagesReportedOnce

LEMMA RowsInvInit == Init => RowsInv
  BY DEF Init, All!AllInit, RowsInv, ObjectsReported, PagesReportedOnce

LEMMA RowsInvStep == RowsInv /\ [Next]_vars => RowsInv'
  <1> SUFFICES ASSUME RowsInv, [Next]_vars PROVE RowsInv'
    OBVIOUS
  <1>0. IsFiniteSet(Recorded)
    BY PtrsAssumption, FS_Subset DEF Recorded
  <1>1. ASSUME NEW p \in Ptrs, HearAlloc(p) PROVE UNCHANGED <<object_file, page_file>>
    BY <1>1 DEF HearAlloc, All!on_alloc, all_vars
  <1>2. ASSUME NEW p \in Ptrs, Announce(p) PROVE RowsInv'
    <2>1. ~in_interval /\ in_interval' = in_interval /\ UNCHANGED <<registered, stage, object_file, page_file>>
      BY <1>1, <1>2 DEF Announce, announce, report, config
    <2> QED BY <2>1 DEF RowsInv, ObjectsReported, PagesReportedOnce
  <1>3. CASE AnnounceAgain
    <2>1. ~in_interval /\ in_interval' = in_interval /\ UNCHANGED <<registered, stage, object_file, page_file>>
      BY <1>3 DEF AnnounceAgain, announce_again, report, config, HearAlloc, All!on_alloc, all_vars
    <2> QED BY <2>1 DEF RowsInv, ObjectsReported, PagesReportedOnce
  <1>4. ASSUME NEW p \in Ptrs, Retract(p) PROVE RowsInv'
    <2>1. ~in_interval /\ in_interval' = in_interval /\ UNCHANGED <<registered, stage, object_file, page_file>>
      BY <1>4 DEF Retract, retract, config, HearFree, All!on_free, all_vars
    <2> QED BY <2>1 DEF RowsInv, ObjectsReported, PagesReportedOnce
  <1>5. CASE Begin
    BY <1>5 DEF Begin, begin, config, all_vars, RowsInv, ObjectsReported, PagesReportedOnce
  <1>6. CASE DeliverAccesses
    BY <1>6 DEF DeliverAccesses, config, all_vars, event_vars, RowsInv, ObjectsReported, PagesReportedOnce
  <1>7. CASE RunAllTest
    <2>1. /\ stage = "tests" /\ stage' = "written" /\ registered = "AllTest" /\ registered' = registered
          /\ in_interval' = in_interval /\ age' = age
      BY <1>7 DEF RunAllTest, event_vars, config
    <2>2. PICK walk \in All!SetToSeqs(Recorded), resident \in SUBSET Pages :
            /\ object_file' = All!Table!Flush(All!track_objects(walk)).file
            /\ page_file' = All!Table!Flush(All!track_physical_pages(walk, resident)).file
      BY <1>7 DEF RunAllTest, All!interval
    <2>3. Recorded' = Recorded
      BY <2>1 DEF Recorded
    <2>4. ObjectsReported'
      <3>1. /\ object_file' \in Seq(Recorded)
            /\ Len(object_file') = Cardinality({object_file'[i] : i \in DOMAIN object_file'})
            /\ Len(object_file') = IF Cardinality(Recorded) <= MaxObjectRows + 1
                                   THEN Cardinality(Recorded) ELSE MaxObjectRows + 1
        BY <1>0, <2>2, ObjectRows, Zenon
      <3>2. {object_file'[i] : i \in DOMAIN object_file'} \subseteq Recorded
        BY <3>1
      <3> QED BY <2>3, <3>1, <3>2, Zenon DEF ObjectsReported
    <2>5. PagesReportedOnce'
      <3>1. /\ page_file' \in Seq(PageRows)
            /\ \A i, j \in 1 .. Len(page_file') : page_file'[i].page = page_file'[j].page => i = j
        BY <1>0, <2>2, PhysicalPageRows, Zenon
      <3>2. DOMAIN page_file' = 1 .. Len(page_file') /\ \A i \in DOMAIN page_file' : page_file'[i] \in PageRows
        BY <3>1
      <3> QED BY <2>3, <3>1, <3>2 DEF PagesReportedOnce, PageRows
    <2> QED BY <2>1, <2>4, <2>5 DEF RowsInv
  <1>8. CASE RunAccessPatternTest
    <2>1. /\ stage = "tests" /\ registered = "AccessPatternTest" /\ registered' = registered
          /\ in_interval' = in_interval /\ page_file' = page_file
      BY <1>8 DEF RunAccessPatternTest, event_vars, config, all_vars
    <2>2. page_file = <<>> /\ in_interval
      BY <2>1 DEF RowsInv
    <2> QED BY <2>1, <2>2 DEF RowsInv, ObjectsReported, PagesReportedOnce
  <1>9. CASE End
    BY <1>9 DEF End, end, All!ForgetRows, config, RowsInv, ObjectsReported, PagesReportedOnce
  <1>10. CASE UNCHANGED vars
    BY <1>10 DEF vars, event_vars, all_vars, config, RowsInv, ObjectsReported, PagesReportedOnce, Recorded
  <1> QED BY <1>2, <1>3, <1>4, <1>5, <1>6, <1>7, <1>8, <1>9, <1>10 DEF Next

\* Every record of an interval gets exactly one row, up to the bound, in
\* whatever order their tables are walked and however small the CSV is
\* (all.cpp:557, 586).
THEOREM ObjectsAreReported == Spec => []ObjectsReported
  <1>1. RowsInv => ObjectsReported
    BY DEF RowsInv
  <1> QED BY <1>1, RowsInvInit, RowsInvStep, PTL DEF Spec

\* A page gets one row, of an object that lies on it, however many objects
\* share it (all.cpp:512).
THEOREM PagesAreReportedOnce == Spec => []PagesReportedOnce
  <1>1. RowsInv => PagesReportedOnce
    BY DEF RowsInv
  <1> QED BY <1>1, RowsInvInit, RowsInvStep, PTL DEF Spec

---------------------------------------------------------------------------
(* The generations of GenerationalTest                                     *)

\* What one object adds to a virtual and to a physical size.
VirtualOf(m, p) == m[p]
PhysicalOf(m, p) == Gen!Share(p) * Cardinality(PagesOf[p] \cap m)

Virtually == INSTANCE FoldLaws WITH Op <- VirtualOf
Physically == INSTANCE FoldLaws WITH Op <- PhysicalOf

LEMMA GenCountIs == ASSUME NEW S PROVE Gen!Cardinality(S) = Cardinality(S)
  BY DEF Gen!Cardinality, Cardinality

LEMMA SizesFinite ==
  ASSUME NEW S
  PROVE  /\ IsFiniteSet(S) <=> Virtually!IsFiniteSet(S)
         /\ IsFiniteSet(S) <=> Physically!IsFiniteSet(S)
  BY DEF IsFiniteSet, Virtually!IsFiniteSet, Physically!IsFiniteSet

LEMMA VirtualSizeIs == ASSUME NEW S PROVE Gen!VirtualSize(S) = Virtually!SumOver(SizeOf, S)
  BY DEF Gen!VirtualSize, Gen!MapThenSumSet, Gen!MapThenFoldSet, VirtualOf,
         Virtually!SumOver, Virtually!MapThenSumSet, Virtually!MapThenFoldSet

LEMMA PhysicalSizeIs ==
  ASSUME NEW S, NEW pages
  PROVE  Gen!PhysicalSize(S, pages) = Physically!SumOver(pages, S)
  BY DEF Gen!PhysicalSize, Gen!MapThenSumSet, Gen!MapThenFoldSet, PhysicalOf, Gen!Cardinality, Cardinality,
         Physically!SumOver, Physically!MapThenSumSet, Physically!MapThenFoldSet

LEMMA VirtualTypes ==
  ASSUME NEW S \in SUBSET Ptrs
  PROVE  /\ IsFiniteSet(S) /\ Virtually!IsFiniteSet(S) /\ Physically!IsFiniteSet(S)
         /\ \A p \in S : VirtualOf(SizeOf, p) \in Nat
  <1>1. IsFiniteSet(S)
    BY PtrsAssumption, FS_Subset
  <1>2. \A p \in S : VirtualOf(SizeOf, p) \in Nat
    BY SizesAssumption DEF VirtualOf
  <1> QED BY <1>1, <1>2, SizesFinite, Zenon

\* What an object's size adds to that of the others.
LEMMA VirtualWithout ==
  ASSUME NEW S \in SUBSET Ptrs, NEW p \in S
  PROVE  /\ Gen!VirtualSize(S \ {p}) \in Nat /\ SizeOf[p] \in Nat
         /\ Gen!VirtualSize(S) = SizeOf[p] + Gen!VirtualSize(S \ {p})
  <1>1. Virtually!IsFiniteSet(S) /\ \A q \in S : VirtualOf(SizeOf, q) \in Nat
    BY VirtualTypes
  <1>2. Virtually!SumOver(SizeOf, S) = VirtualOf(SizeOf, p) + Virtually!SumOver(SizeOf, S \ {p})
    BY <1>1, Virtually!SumLess
  <1> DEFINE w == S \ {p}
  <1>3. w \in SUBSET Ptrs
    OBVIOUS
  <1>4. Virtually!IsFiniteSet(w) /\ \A q \in w : VirtualOf(SizeOf, q) \in Nat
    <2> HIDE DEF w
    <2> QED BY <1>3, VirtualTypes
  <1>5. Virtually!SumOver(SizeOf, w) \in Nat
    <2> HIDE DEF w
    <2> QED BY <1>4, Virtually!SumType
  <1>6. SizeOf[p] \in Nat
    BY SizesAssumption
  <1> QED BY <1>2, <1>5, <1>6, VirtualSizeIs, Zenon DEF VirtualOf

LEMMA PhysicalTypes ==
  ASSUME NEW p \in Ptrs, NEW pages
  PROVE  /\ PhysicalOf(pages, p) \in Nat /\ Gen!Share(p) \in Nat
         /\ IsFiniteSet(PagesOf[p] \cap pages) /\ Cardinality(PagesOf[p] \cap pages) \in Nat
  <1>1. Gen!Share(p) \in Nat
    BY SizesAssumption, PageSizeAssumption DEF Gen!Share
  <1>2. IsFiniteSet(PagesOf[p] \cap pages)
    <2>1. PagesOf[p] \cap pages \in SUBSET Pages
      BY PagesAssumption
    <2> QED BY <2>1, PagesAssumption, FS_Subset
  <1>3. Cardinality(PagesOf[p] \cap pages) \in Nat
    BY <1>2, FS_CardinalityType
  <1>4. \A a, b \in Nat : a * b \in Nat
    BY SMT
  <1> QED BY <1>1, <1>2, <1>3, <1>4, Zenon DEF PhysicalOf

\* What is written and what is not make up a size.
LEMMA PhysicalAdds ==
  ASSUME NEW S \in SUBSET Ptrs, NEW written, NEW readonly, written \cap readonly = {}
  PROVE  Gen!PhysicalSize(S, written \cup readonly) = Gen!PhysicalSize(S, written) + Gen!PhysicalSize(S, readonly)
  <1> DEFINE both == written \cup readonly
  <1>1. ASSUME NEW p \in S
        PROVE  /\ PhysicalOf(written, p) \in Nat /\ PhysicalOf(readonly, p) \in Nat
               /\ PhysicalOf(both, p) = PhysicalOf(written, p) + PhysicalOf(readonly, p)
    <2> DEFINE a == PagesOf[p] \cap written  b == PagesOf[p] \cap readonly
    <2>1. /\ IsFiniteSet(a) /\ IsFiniteSet(b) /\ Cardinality(a) \in Nat /\ Cardinality(b) \in Nat
          /\ Gen!Share(p) \in Nat /\ PhysicalOf(written, p) \in Nat /\ PhysicalOf(readonly, p) \in Nat
      BY PhysicalTypes
    <2>2. a \cap b = {} /\ PagesOf[p] \cap both = a \cup b
      OBVIOUS
    <2>3. Cardinality(a \cup b) = Cardinality(a) + Cardinality(b)
      <3> HIDE DEF a, b
      <3>1. Cardinality(a \cup b) = Cardinality(a) + Cardinality(b) - Cardinality(a \cap b)
        BY <2>1, FS_Union
      <3>2. Cardinality(a \cap b) = 0
        BY <2>2, FS_EmptySet, Zenon
      <3>3. Cardinality(a) + Cardinality(b) - 0 = Cardinality(a) + Cardinality(b)
        BY <2>1, SMT
      <3> QED BY <3>1, <3>2, <3>3, Zenon
    <2>4. \A x, y, z \in Nat : x * (y + z) = x * y + x * z
      BY SMT
    <2>5. Gen!Share(p) * (Cardinality(a) + Cardinality(b)) = Gen!Share(p) * Cardinality(a) + Gen!Share(p) * Cardinality(b)
      <3> HIDE DEF a, b
      <3> QED BY <2>1, <2>4, Zenon
    <2>6. /\ PhysicalOf(both, p) = Gen!Share(p) * Cardinality(a \cup b)
          /\ PhysicalOf(written, p) = Gen!Share(p) * Cardinality(a)
          /\ PhysicalOf(readonly, p) = Gen!Share(p) * Cardinality(b)
      BY <2>2, Zenon DEF PhysicalOf
    <2> QED BY <2>1, <2>3, <2>5, <2>6, Zenon
  <1>2. Physically!IsFiniteSet(S)
    BY VirtualTypes
  <1> HIDE DEF both
  <1>3. Physically!SumOver(both, S) = Physically!SumOver(written, S) + Physically!SumOver(readonly, S)
    BY <1>1, <1>2, Physically!SumAdds
  <1> QED BY <1>3, PhysicalSizeIs, Zenon DEF both

\* Fewer objects are no larger.
LEMMA PhysicalPart ==
  ASSUME NEW S \in SUBSET Ptrs, NEW part \in SUBSET S, NEW pages
  PROVE  Gen!PhysicalSize(part, pages) <= Gen!PhysicalSize(S, pages)
  <1>1. Physically!IsFiniteSet(S)
    BY VirtualTypes
  <1>2. \A p \in S : PhysicalOf(pages, p) \in Nat
    BY PhysicalTypes
  <1>3. Physically!SumOver(pages, part) <= Physically!SumOver(pages, S)
    BY <1>1, <1>2, Physically!SumPart
  <1> QED BY <1>3, PhysicalSizeIs, Zenon

\* The columns of a generation, ...
LEMMA ColumnAdds ==
  ASSUME NEW S \in SUBSET Ptrs, NEW state
  PROVE  Gen!Column(S, state).physical = Gen!Column(S, state).written + Gen!Column(S, state).readonly
  <1> DEFINE written == Gen!InState(state, {"dirty"})  readonly == Gen!InState(state, {"clean"})
             both == Gen!InState(state, {"clean", "dirty"})
  <1>1. both = written \cup readonly /\ written \cap readonly = {}
    BY DEF Gen!InState
  <1>2. /\ Gen!Column(S, state).physical = Gen!PhysicalSize(S, both)
        /\ Gen!Column(S, state).written = Gen!PhysicalSize(S, written)
        /\ Gen!Column(S, state).readonly = Gen!PhysicalSize(S, readonly)
    BY DEF Gen!Column
  <1> HIDE DEF written, readonly, both
  <1>3. Gen!PhysicalSize(S, written \cup readonly) = Gen!PhysicalSize(S, written) + Gen!PhysicalSize(S, readonly)
    BY <1>1, PhysicalAdds
  <1> QED BY <1>1, <1>2, <1>3, Zenon

\* ... and those of an older one.
LEMMA ColumnPart ==
  ASSUME NEW S \in SUBSET Ptrs, NEW part \in SUBSET S, NEW state
  PROVE  Gen!Column(part, state).physical <= Gen!Column(S, state).physical
  BY PhysicalPart DEF Gen!Column

\* The intervals that an object's age counts.
Lived(p) == IF in_interval THEN visits[p] - 1 ELSE visits[p]

AgesCounted ==
  /\ visits \in [Ptrs -> Nat]
  /\ age \in [Ptrs -> Int]
  /\ \A p \in Recorded : Lived(p) \in Nat /\ age[p] = Saturated(Lived(p), MaxAge)

TotalFields == {"total_allocations", "total_frees", "memory_allocated_since_last_interval",
                "memory_freed_since_last_interval", "total_memory_allocated", "total_memory_freed"}
Totals == [TotalFields -> Int]

\* A table of totals, member by member.
LEMMA TotalsOf ==
  ASSUME NEW d, d = [f \in TotalFields |-> d[f]],
         d.total_allocations \in Int, d.total_frees \in Int,
         d.memory_allocated_since_last_interval \in Int, d.memory_freed_since_last_interval \in Int,
         d.total_memory_allocated \in Int, d.total_memory_freed \in Int
  PROVE  d \in Totals
  <1>1. \A f \in TotalFields : d[f] \in Int
    BY DEF TotalFields
  <1>2. [f \in TotalFields |-> d[f]] \in Totals
    BY <1>1 DEF Totals
  <1> QED BY <1>2, Zenon

\* What the calls do to the totals.
LEMMA TotalsAtAlloc ==
  ASSUME NEW t \in Totals, NEW p \in Ptrs, NEW d, d = Gen!on_alloc(t, p)
  PROVE  /\ d \in Totals /\ d.total_memory_freed = t.total_memory_freed
         /\ d.total_memory_allocated = t.total_memory_allocated + SizeOf[p]
  <1>1. SizeOf[p] \in Int
    BY SizesAssumption
  <1>2. /\ d.total_allocations = t.total_allocations + 1 /\ d.total_frees = t.total_frees
        /\ d.memory_allocated_since_last_interval = t.memory_allocated_since_last_interval + SizeOf[p]
        /\ d.memory_freed_since_last_interval = t.memory_freed_since_last_interval
        /\ d.total_memory_allocated = t.total_memory_allocated + SizeOf[p]
        /\ d.total_memory_freed = t.total_memory_freed
    BY DEF Totals, TotalFields, Gen!on_alloc
  <1>3. d = [f \in TotalFields |-> d[f]]
    BY DEF Totals, Gen!on_alloc
  <1>4. d \in Totals
    BY <1>1, <1>2, <1>3, TotalsOf DEF Totals, TotalFields
  <1> QED BY <1>2, <1>4

LEMMA TotalsAtFree ==
  ASSUME NEW t \in Totals, NEW p \in Ptrs, NEW d, d = Gen!on_free(t, p)
  PROVE  /\ d \in Totals /\ d.total_memory_freed = t.total_memory_freed + SizeOf[p]
         /\ d.total_memory_allocated = t.total_memory_allocated
  <1>1. SizeOf[p] \in Int
    BY SizesAssumption
  <1>2. /\ d.total_allocations = t.total_allocations /\ d.total_frees = t.total_frees + 1
        /\ d.memory_allocated_since_last_interval = t.memory_allocated_since_last_interval
        /\ d.memory_freed_since_last_interval = t.memory_freed_since_last_interval + SizeOf[p]
        /\ d.total_memory_allocated = t.total_memory_allocated
        /\ d.total_memory_freed = t.total_memory_freed + SizeOf[p]
    BY DEF Totals, TotalFields, Gen!on_free
  <1>3. d = [f \in TotalFields |-> d[f]]
    BY DEF Totals, Gen!on_free
  <1>4. d \in Totals
    BY <1>1, <1>2, <1>3, TotalsOf DEF Totals, TotalFields
  <1> QED BY <1>2, <1>4

LEMMA TotalsAtFinish ==
  ASSUME NEW t \in Totals, NEW d, d = Gen!finish_interval(t)
  PROVE  /\ d \in Totals /\ d.total_memory_freed = t.total_memory_freed
         /\ d.total_memory_allocated = t.total_memory_allocated
  <1>2. /\ d.total_allocations = t.total_allocations /\ d.total_frees = t.total_frees
        /\ d.memory_allocated_since_last_interval = 0 /\ d.memory_freed_since_last_interval = 0
        /\ d.total_memory_allocated = t.total_memory_allocated
        /\ d.total_memory_freed = t.total_memory_freed
    BY DEF Totals, TotalFields, Gen!finish_interval
  <1>3. d = [f \in TotalFields |-> d[f]]
    BY DEF Totals, Gen!finish_interval
  <1>4. d \in Totals
    BY <1>2, <1>3, TotalsOf DEF Totals, TotalFields
  <1> QED BY <1>2, <1>4

TotalsCover ==
  /\ totals \in Totals
  /\ totals.total_memory_allocated - totals.total_memory_freed >= Gen!VirtualSize(Recorded)

\* The inductive invariant: an age is what the history says, the totals
\* cover the records, and an interval is under way in every phase but one.
GenInv ==
  /\ phase \in {"idle", "tracking", "generational", "ending"}
  /\ in_interval <=> phase # "idle"
  /\ AgesCounted /\ TotalsCover /\ GenerationsRight

LEMMA NoneRecorded == Gen!VirtualSize({}) = 0
  BY VirtualSizeIs, Virtually!SumEmpty, Zenon

LEMMA GenInvInit == OtherInit => GenInv
  <1> SUFFICES ASSUME OtherInit PROVE GenInv
    OBVIOUS
  <1>1. phase = "idle" /\ in_interval = FALSE /\ age = [p \in Ptrs |-> Gone] /\ visits = [p \in Ptrs |-> 0]
    BY DEF OtherInit, EventsInit
  <1>2. Recorded = {} /\ age \in [Ptrs -> Int] /\ visits \in [Ptrs -> Nat]
    BY <1>1 DEF Recorded, Gone
  <1>3. totals \in Totals /\ totals.total_memory_allocated = 0 /\ totals.total_memory_freed = 0
    BY DEF OtherInit, Gen!Totals, Totals, TotalFields
  <1>4. TotalsCover
    BY <1>2, <1>3, NoneRecorded DEF TotalsCover
  <1> QED BY <1>1, <1>2, <1>4 DEF GenInv, AgesCounted, GenerationsRight

\* A record more, at most, weighs its size at most.
LEMMA RecordedGrows ==
  ASSUME NEW S \in SUBSET Ptrs, NEW p \in Ptrs, NEW T, T = S \/ T = S \cup {p}
  PROVE  /\ Gen!VirtualSize(S) \in Nat /\ Gen!VirtualSize(T) \in Nat
         /\ Gen!VirtualSize(T) <= Gen!VirtualSize(S) + SizeOf[p]
  <1>1. ASSUME NEW R \in SUBSET Ptrs PROVE Gen!VirtualSize(R) \in Nat
    <2>1. Virtually!IsFiniteSet(R) /\ \A q \in R : VirtualOf(SizeOf, q) \in Nat
      BY VirtualTypes
    <2>2. Virtually!SumOver(SizeOf, R) \in Nat
      BY <2>1, Virtually!SumType
    <2> QED BY <2>2, VirtualSizeIs, Zenon
  <1>2. Gen!VirtualSize(S) \in Nat /\ Gen!VirtualSize(T) \in Nat /\ SizeOf[p] \in Nat
    BY <1>1, SizesAssumption
  <1>3. CASE T = S
    BY <1>2, <1>3
  <1>4. CASE T # S
    <2>1. T \in SUBSET Ptrs /\ p \in T /\ T \ {p} = S
      BY <1>4
    <2>2. Gen!VirtualSize(T) = SizeOf[p] + Gen!VirtualSize(S)
      BY <2>1, VirtualWithout
    <2> QED BY <1>2, <2>2
  <1> QED BY <1>3, <1>4

\* A report: p is in the records with age 0, or is not.
LEMMA ReportIs ==
  ASSUME GenInv, NEW p \in Ptrs, report(p)
  PROVE  /\ ~in_interval /\ in_interval' = in_interval
         /\ age' \in [Ptrs -> Int]
         /\ \A q \in Ptrs : q # p => age'[q] = age[q]
         /\ age'[p] = 0 \/ age'[p] = Gone
         /\ Recorded' = Recorded \/ Recorded' = Recorded \cup {p}
  <1>1. ~in_interval /\ in_interval' = in_interval /\ age \in [Ptrs -> Int]
    BY DEF report, GenInv, AgesCounted
  <1>2. CASE age' = [age EXCEPT ![p] = 0]
    BY <1>1, <1>2 DEF Recorded, Gone
  <1>3. CASE age[p] = Gone /\ UNCHANGED age
    BY <1>1, <1>3 DEF Recorded, Gone
  <1> QED BY <1>1, <1>2, <1>3 DEF report

LEMMA GenInvHearAllocation ==
  ASSUME GenInv, NEW p \in Ptrs, HearAllocation(p)
  PROVE  GenInv'
  <1>1. report(p) /\ visits' = [visits EXCEPT ![p] = 0] /\ phase' = phase /\ totals' = Gen!on_alloc(totals, p)
    BY DEF HearAllocation, announce, announce_again, test_vars
  <1>2. /\ ~in_interval /\ in_interval' = in_interval
        /\ age' \in [Ptrs -> Int]
        /\ \A q \in Ptrs : q # p => age'[q] = age[q]
        /\ age'[p] = 0 \/ age'[p] = Gone
        /\ Recorded' = Recorded \/ Recorded' = Recorded \cup {p}
    BY <1>1, ReportIs
  <1>3. AgesCounted'
    <2>1. visits' \in [Ptrs -> Nat] /\ visits'[p] = 0 /\ \A q \in Ptrs : q # p => visits'[q] = visits[q]
      BY <1>1 DEF GenInv, AgesCounted
    <2>2. ASSUME NEW q \in Recorded'
          PROVE  Lived(q)' \in Nat /\ age'[q] = Saturated(Lived(q)', MaxAge)
      <3>1. q \in Ptrs /\ age'[q] # Gone
        BY <2>2 DEF Recorded
      <3>2. CASE q = p
        BY <1>2, <2>1, <3>1, <3>2, EventsAssumption DEF Lived, Saturated
      <3>3. CASE q # p
        <4>1. q \in Recorded /\ Lived(q)' = Lived(q)
          BY <1>2, <2>1, <3>1, <3>3 DEF Recorded, Lived
        <4> QED BY <1>2, <3>1, <3>3, <4>1 DEF GenInv, AgesCounted
      <3> QED BY <3>2, <3>3
    <2> QED BY <1>2, <2>1, <2>2 DEF AgesCounted
  <1>4. TotalsCover'
    <2>1. /\ Gen!VirtualSize(Recorded) \in Nat /\ Gen!VirtualSize(Recorded') \in Nat
          /\ Gen!VirtualSize(Recorded') <= Gen!VirtualSize(Recorded) + SizeOf[p]
      <3>1. Recorded \in SUBSET Ptrs
        BY DEF Recorded
      <3> QED BY <1>2, <3>1, RecordedGrows, Zenon
    <2>2. totals \in Totals /\ SizeOf[p] \in Nat
      BY SizesAssumption DEF GenInv, TotalsCover
    <2>3. /\ totals' \in Totals
          /\ totals'.total_memory_allocated = totals.total_memory_allocated + SizeOf[p]
          /\ totals'.total_memory_freed = totals.total_memory_freed
      BY <1>1, <2>2, TotalsAtAlloc, Zenon
    <2>4. /\ totals.total_memory_allocated \in Int /\ totals.total_memory_freed \in Int
          /\ totals.total_memory_allocated - totals.total_memory_freed >= Gen!VirtualSize(Recorded)
      BY <2>2 DEF GenInv, TotalsCover, Totals, TotalFields
    <2>5. totals'.total_memory_allocated - totals'.total_memory_freed >= Gen!VirtualSize(Recorded')
      BY <2>1, <2>2, <2>3, <2>4
    <2> QED BY <2>3, <2>5 DEF TotalsCover
  <1>5. phase' # "ending"
    BY <1>1, <1>2 DEF GenInv
  <1> QED BY <1>1, <1>2, <1>3, <1>4, <1>5 DEF GenInv, GenerationsRight

LEMMA GenInvHearRelease ==
  ASSUME GenInv, NEW p \in Ptrs, HearRelease(p)
  PROVE  GenInv'
  <1>1. /\ ~in_interval /\ in_interval' = in_interval /\ age[p] # Gone /\ age' = [age EXCEPT ![p] = Gone]
        /\ phase' = phase /\ visits' = visits /\ totals' = Gen!on_free(totals, p)
    BY DEF HearRelease, retract, test_vars
  <1>2. age \in [Ptrs -> Int] /\ p \in Recorded /\ Recorded' = Recorded \ {p}
    BY <1>1 DEF GenInv, AgesCounted, Recorded, Gone
  <1>3. AgesCounted'
    <2>1. \A q \in Recorded' : q \in Recorded /\ age'[q] = age[q] /\ Lived(q)' = Lived(q)
      BY <1>1, <1>2 DEF Recorded, Lived
    <2>2. age' \in [Ptrs -> Int] /\ visits' \in [Ptrs -> Nat]
      BY <1>1, <1>2 DEF GenInv, AgesCounted, Gone
    <2> QED BY <2>1, <2>2 DEF GenInv, AgesCounted
  <1>4. TotalsCover'
    <2>1. /\ Gen!VirtualSize(Recorded') \in Nat /\ SizeOf[p] \in Nat
          /\ Gen!VirtualSize(Recorded) = SizeOf[p] + Gen!VirtualSize(Recorded')
      <3>1. Recorded \in SUBSET Ptrs
        BY DEF Recorded
      <3> QED BY <1>2, <3>1, VirtualWithout, Zenon
    <2>2. totals \in Totals
      BY DEF GenInv, TotalsCover
    <2>3. /\ totals' \in Totals
          /\ totals'.total_memory_allocated = totals.total_memory_allocated
          /\ totals'.total_memory_freed = totals.total_memory_freed + SizeOf[p]
      BY <1>1, <2>1, <2>2, TotalsAtFree, Zenon
    <2>4. /\ totals.total_memory_allocated \in Int /\ totals.total_memory_freed \in Int
          /\ totals.total_memory_allocated - totals.total_memory_freed >= Gen!VirtualSize(Recorded)
      BY <2>2 DEF GenInv, TotalsCover, Totals, TotalFields
    <2>5. totals'.total_memory_allocated - totals'.total_memory_freed >= Gen!VirtualSize(Recorded')
      BY <2>1, <2>3, <2>4
    <2> QED BY <2>3, <2>5 DEF TotalsCover
  <1>5. phase' # "ending"
    BY <1>1 DEF GenInv
  <1> QED BY <1>1, <1>3, <1>4, <1>5 DEF GenInv, GenerationsRight

LEMMA GenInvBeginInterval ==
  ASSUME GenInv, BeginInterval
  PROVE  GenInv'
  <1>1. /\ ~in_interval /\ in_interval' = TRUE /\ age' = age /\ phase' = "tracking" /\ totals' = totals
        /\ visits' = [p \in Ptrs |-> IF p \in Recorded THEN visits[p] + 1 ELSE visits[p]]
    BY DEF BeginInterval, begin
  <1>2. Recorded' = Recorded /\ Recorded \in SUBSET Ptrs
    BY <1>1 DEF Recorded
  <1>3. AgesCounted'
    <2>1. visits \in [Ptrs -> Nat] /\ age \in [Ptrs -> Int]
      BY DEF GenInv, AgesCounted
    <2>2. visits' \in [Ptrs -> Nat]
      BY <1>1, <2>1
    <2>3. \A p \in Recorded : Lived(p) = visits[p] /\ Lived(p)' = visits'[p] - 1 /\ visits'[p] = visits[p] + 1
      BY <1>1, <1>2 DEF Lived
    <2>4. \A p \in Recorded : Lived(p)' = Lived(p)
      <3>1. \A p \in Recorded : visits[p] \in Nat
        BY <1>2, <2>1
      <3> QED BY <2>3, <3>1
    <2> QED BY <1>1, <1>2, <2>1, <2>2, <2>4 DEF GenInv, AgesCounted
  <1>4. TotalsCover'
    BY <1>1, <1>2 DEF GenInv, TotalsCover
  <1> QED BY <1>1, <1>3, <1>4 DEF GenInv, GenerationsRight

\* Where only the phase, what PageTrackingTest knows and /proc change.
LEMMA GenInvTracking ==
  ASSUME GenInv, UNCHANGED <<event_vars, totals, visits>>,
         \/ UNCHANGED phase /\ (UNCHANGED gen_row \/ phase # "ending")
         \/ phase = "tracking" /\ phase' = "generational"
  PROVE  GenInv'
  <1>1. age' = age /\ in_interval' = in_interval /\ totals' = totals /\ visits' = visits
    BY DEF event_vars
  <1>2. Recorded' = Recorded
    BY <1>1 DEF Recorded
  <1>3. AgesCounted'
    BY <1>1, <1>2 DEF GenInv, AgesCounted, Lived
  <1>4. TotalsCover'
    BY <1>1, <1>2 DEF GenInv, TotalsCover
  <1>5. GenerationsRight'
    BY <1>1, <1>2 DEF GenInv, GenerationsRight
  <1> QED BY <1>1, <1>3, <1>4, <1>5 DEF GenInv

\* The row of an interval.
LEMMA RowIs ==
  ASSUME GenInv, in_interval, NEW state, NEW r, r = Gen!GenerationalRow(totals, age, Recorded, state)
  PROVE  /\ \A g \in Generations : r[g].virtual = Gen!VirtualSize({p \in Recorded : visits[p] > g})
         /\ \A g \in DOMAIN r : r[g].physical = r[g].written + r[g].readonly
         /\ \A g, h \in DOMAIN r : g < h => r[g].physical >= r[h].physical
         /\ r[0].virtual >= Gen!VirtualSize(Recorded)
  <1> DEFINE Aged(g) == IF g = 0 THEN Recorded ELSE {p \in Recorded : Gen!Old(age, p, g)}
  <1>0. Recorded \in SUBSET Ptrs
    BY DEF Recorded
  <1>1. DOMAIN r = {0} \cup Generations /\ Generations \subseteq Nat \ {0}
    <2>1. \A g \in 1 .. MaxAge : g \in Nat \ {0}
      BY EventsAssumption
    <2> QED BY <2>1, OtherTestsAssumption DEF Gen!GenerationalRow
  <1>2. ASSUME NEW g \in DOMAIN r
        PROVE  /\ r[g].physical = Gen!Column(Aged(g), state).physical
               /\ r[g].written = Gen!Column(Aged(g), state).written
               /\ r[g].readonly = Gen!Column(Aged(g), state).readonly
               /\ Aged(g) \in SUBSET Ptrs
    BY <1>0, <1>1 DEF Gen!GenerationalRow, Gen!Column
  <1>3. ASSUME NEW g \in Generations
        PROVE  r[g].virtual = Gen!VirtualSize({p \in Recorded : visits[p] > g})
    <2>1. {p \in Recorded : Gen!Old(age, p, g)} = {p \in Recorded : visits[p] > g}
      <3>1. g \in Nat /\ g <= MaxAge /\ MaxAge \in Nat
        BY OtherTestsAssumption, EventsAssumption
      <3>2. ASSUME NEW p \in Recorded
            PROVE  age[p] >= g <=> visits[p] > g
        <4>1. visits[p] \in Nat /\ age[p] = Saturated(visits[p] - 1, MaxAge)
          BY <1>0 DEF GenInv, AgesCounted, Lived
        <4> QED BY <3>1, <4>1 DEF Saturated
      <3> QED BY <3>2, Zenon DEF Gen!Old
    <2>2. r[g].virtual = Gen!VirtualSize({p \in Recorded : Gen!Old(age, p, g)})
      BY <1>1 DEF Gen!GenerationalRow, Gen!Column
    <2> QED BY <2>1, <2>2, Zenon
  <1>4. ASSUME NEW g \in DOMAIN r
        PROVE  r[g].physical = r[g].written + r[g].readonly
    <2> HIDE DEF Aged
    <2> QED BY <1>2, ColumnAdds, Zenon
  <1>5. ASSUME NEW g \in DOMAIN r, NEW h \in DOMAIN r, g < h
        PROVE  r[g].physical >= r[h].physical
    <2>1. Aged(h) \in SUBSET Aged(g)
      <3>1. g \in Nat /\ h \in Nat /\ h # 0
        <4>1. g \in {0} \cup Generations /\ h \in {0} \cup Generations
          BY <1>1, Zenon
        <4>2. g \in Nat /\ h \in Nat
          <5>1. 0 \in Nat /\ \A x \in Generations : x \in Nat
            BY <1>1
          <5> QED BY <4>1, <5>1, Zenon
        <4>3. \A a, b \in Nat : a < b => b # 0
          BY SMT
        <4> QED BY <1>5, <4>2, <4>3, Zenon
      <3>2. \A p \in Recorded : age[p] \in Int
        BY <1>0 DEF GenInv, AgesCounted
      <3>3. \A p \in Recorded : age[p] >= h => age[p] >= g
        BY <1>5, <3>1, <3>2
      <3> QED BY <3>1, <3>3 DEF Gen!Old
    <2>2. Gen!Column(Aged(h), state).physical <= Gen!Column(Aged(g), state).physical
      <3>1. Aged(g) \in SUBSET Ptrs
        BY <1>2, Zenon
      <3> HIDE DEF Aged
      <3> QED BY <2>1, <3>1, ColumnPart
    <2> HIDE DEF Aged
    <2>3. r[h].physical <= r[g].physical
      BY <1>2, <2>2, Zenon
    <2> QED BY <2>3
  <1>6. r[0].virtual >= Gen!VirtualSize(Recorded)
    <2>1. r[0].virtual = totals.total_memory_allocated - totals.total_memory_freed
      BY DEF Gen!GenerationalRow, Gen!Column
    <2> QED BY <2>1 DEF GenInv, TotalsCover
  <1> QED BY <1>3, <1>4, <1>5, <1>6

LEMMA GenInvSumGenerations ==
  ASSUME GenInv, SumGenerations
  PROVE  GenInv'
  <1>1. /\ phase = "generational" /\ phase' = "ending" /\ in_interval /\ in_interval' = in_interval
        /\ age' = age /\ visits' = visits /\ totals' = Gen!finish_interval(totals)
        /\ gen_row' = Gen!GenerationalRow(totals, age, Recorded, map.state)
    BY DEF SumGenerations, event_vars, GenInv
  <1>2. Recorded' = Recorded
    BY <1>1 DEF Recorded
  <1>3. AgesCounted'
    BY <1>1, <1>2 DEF GenInv, AgesCounted, Lived
  <1>4. TotalsCover'
    <2>1. totals \in Totals
      BY DEF GenInv, TotalsCover
    <2>2. /\ totals' \in Totals
          /\ totals'.total_memory_allocated = totals.total_memory_allocated
          /\ totals'.total_memory_freed = totals.total_memory_freed
      BY <1>1, <2>1, TotalsAtFinish, Zenon
    <2> QED BY <1>2, <2>2 DEF GenInv, TotalsCover
  <1>5. GenerationsRight'
    <2>1. /\ \A g \in Generations : gen_row'[g].virtual = Gen!VirtualSize({p \in Recorded : visits[p] > g})
          /\ \A g \in DOMAIN gen_row' : gen_row'[g].physical = gen_row'[g].written + gen_row'[g].readonly
          /\ \A g, h \in DOMAIN gen_row' : g < h => gen_row'[g].physical >= gen_row'[h].physical
          /\ gen_row'[0].virtual >= Gen!VirtualSize(Recorded)
      BY <1>1, RowIs, Zenon
    <2> QED BY <1>1, <1>2, <2>1, Zenon DEF GenerationsRight
  <1> QED BY <1>1, <1>3, <1>4, <1>5 DEF GenInv

LEMMA GenInvEndInterval ==
  ASSUME GenInv, EndInterval
  PROVE  GenInv'
  <1>1. /\ in_interval /\ in_interval' = FALSE /\ phase' = "idle" /\ totals' = totals /\ visits' = visits
        /\ age' = [p \in Ptrs |-> IF p \in Recorded THEN Saturated(age[p] + 1, MaxAge) ELSE Gone]
    BY DEF EndInterval, end
  <1>2. ASSUME NEW p \in Recorded
        PROVE  /\ age'[p] = Saturated(visits[p], MaxAge) /\ age'[p] \in Nat /\ p \in Ptrs /\ visits[p] \in Nat
    <2>1. p \in Ptrs /\ visits[p] \in Nat /\ visits[p] - 1 \in Nat /\ age[p] = Saturated(visits[p] - 1, MaxAge)
      BY <1>1 DEF GenInv, AgesCounted, Lived, Recorded
    <2>2. age'[p] = Saturated(age[p] + 1, MaxAge)
      BY <1>1, <2>1
    <2> QED BY <2>1, <2>2, EventsAssumption DEF Saturated
  <1>3. Recorded' = Recorded
    <2>1. ASSUME NEW p \in Ptrs PROVE age'[p] # Gone <=> p \in Recorded
      BY <1>1, <1>2 DEF Gone
    <2> QED BY <2>1 DEF Recorded
  <1>4. AgesCounted'
    <2>1. age' \in [Ptrs -> Int]
      BY <1>1, <1>2 DEF Gone
    <2> QED BY <1>1, <1>2, <1>3, <2>1 DEF GenInv, AgesCounted, Lived
  <1>5. TotalsCover'
    BY <1>1, <1>3 DEF GenInv, TotalsCover
  <1> QED BY <1>1, <1>4, <1>5 DEF GenInv, GenerationsRight

LEMMA GenInvStep == GenInv /\ [OtherNext]_other_vars => GenInv'
  <1> SUFFICES ASSUME GenInv, [OtherNext]_other_vars PROVE GenInv'
    OBVIOUS
  <1>1. ASSUME NEW p \in Ptrs, HearAllocation(p) PROVE GenInv'
    BY <1>1, GenInvHearAllocation
  <1>2. ASSUME NEW p \in Ptrs, HearRelease(p) PROVE GenInv'
    BY <1>2, GenInvHearRelease
  <1>3. ASSUME NEW p \in Ptrs, TrackAllocation(p) PROVE GenInv'
    BY <1>3, GenInvTracking DEF TrackAllocation
  <1>4. CASE BeginInterval
    BY <1>4, GenInvBeginInterval
  <1>5. CASE FinishTracking
    BY <1>5, GenInvTracking DEF FinishTracking
  <1>6. CASE SumGenerations
    BY <1>6, GenInvSumGenerations
  <1>7. CASE EndInterval
    BY <1>7, GenInvEndInterval
  <1>8. CASE UNCHANGED other_vars
    BY <1>8, GenInvTracking DEF other_vars
  <1> QED BY <1>1, <1>2, <1>3, <1>4, <1>5, <1>6, <1>7, <1>8 DEF OtherNext

\* The row of GenerationalTest, for any number of allocations, pages,
\* intervals and generations: what each generation sums is what has lived
\* that long since its last report, written and unwritten make up its size,
\* no generation is larger than a younger one, and the total of live bytes
\* covers the records (generational.cpp:163-264).
THEOREM GenerationsAreRight == OtherSpec => []GenerationsRight
  <1>1. GenInv => GenerationsRight
    BY DEF GenInv
  <1> QED BY <1>1, GenInvInit, GenInvStep, PTL DEF OtherSpec

---------------------------------------------------------------------------
(* The rows of PageTrackingTest                                            *)

Seens == {"away", "clean", "dirty"}

\* The intervals of a history in which the page was written, and the last.
DirtyOf(h) == {i \in 1 .. Len(h) : h[i] = "dirty"}
LastIn(D) == IF D = {} THEN 1 ELSE CHOOSE i \in D : \A j \in D : j <= i
LastOf(h) == LastIn(DirtyOf(h))

PageFields == {"read_only_after_initial_write", "has_new_objects", "modified_this_interval",
               "modified_last_interval", "first_interval", "age_in_intervals", "write_count",
               "age_since_last_write"}

\* What a record says, in interval n, of a page with the history h that is
\* seen now in this interval.
Counts(page, h, n, now) ==
  /\ DOMAIN page = PageFields
  /\ page.age_in_intervals = Len(h)
  /\ page.first_interval = n - Len(h)
  /\ page.write_count = Cardinality(DirtyOf(h)) + (IF now = "dirty" THEN 1 ELSE 0)
  /\ page.age_since_last_write = IF now = "dirty" THEN 0 ELSE Len(h) - LastOf(h) + 1
Carries(page, h, n, now) ==
  Counts(page, h, n, now) /\ page.modified_this_interval = (now = "dirty")

LEMMA DirtyNumbers ==
  ASSUME NEW h \in Seq(Seens)
  PROVE  /\ DirtyOf(h) \in SUBSET (1 .. Len(h)) /\ IsFiniteSet(DirtyOf(h))
         /\ Cardinality(DirtyOf(h)) \in Nat /\ LastOf(h) \in Nat
  <1>1. Len(h) \in Nat /\ DirtyOf(h) \in SUBSET (1 .. Len(h))
    BY DEF DirtyOf
  <1>2. IsFiniteSet(DirtyOf(h)) /\ Cardinality(DirtyOf(h)) \in Nat
    <2>1. IsFiniteSet(1 .. Len(h))
      BY <1>1, FS_Interval
    <2> QED BY <1>1, <2>1, FS_Subset, FS_CardinalityType
  <1>3. LastOf(h) \in Nat
    <2>1. CASE DirtyOf(h) = {}
      BY <2>1 DEF LastOf, LastIn
    <2>2. CASE DirtyOf(h) # {}
      <3> DEFINE B == {Len(h) - i : i \in DirtyOf(h)}
      <3>1. B \in SUBSET Nat /\ B # {}
        <4>1. \A i \in DirtyOf(h) : Len(h) - i \in Nat
          BY <1>1
        <4> QED BY <2>2, <4>1, Zenon
      <3>2. PICK n \in B : \A m \in B : n <= m
        BY <3>1, Adding!SmallestNat, Zenon
      <3>3. PICK i \in DirtyOf(h) : n = Len(h) - i
        BY <3>2
      <3>4. \A j \in DirtyOf(h) : j <= i
        <4>1. \A j \in DirtyOf(h) : n <= Len(h) - j
          BY <3>2, Zenon
        <4> HIDE DEF B
        <4> QED BY <1>1, <3>3, <4>1
      <3>5. LastOf(h) \in DirtyOf(h)
        BY <2>2, <3>4 DEF LastOf, LastIn
      <3> QED BY <1>1, <3>5
    <2> QED BY <2>1, <2>2
  <1> QED BY <1>1, <1>2, <1>3

\* A history with one more interval.
LEMMA DirtyGrows ==
  ASSUME NEW h \in Seq(Seens), NEW now \in Seens
  PROVE  LET g == Append(h, now) IN
         /\ g \in Seq(Seens) /\ Len(g) = Len(h) + 1 /\ g[Len(g)] = now
         /\ now = "dirty" => /\ Cardinality(DirtyOf(g)) = Cardinality(DirtyOf(h)) + 1
                             /\ LastOf(g) = Len(g)
         /\ now # "dirty" => DirtyOf(g) = DirtyOf(h) /\ LastOf(g) = LastOf(h)
  <1> DEFINE g == Append(h, now)
  <1>1. /\ g \in Seq(Seens) /\ Len(g) = Len(h) + 1 /\ g[Len(h) + 1] = now /\ Len(h) \in Nat
        /\ \A i \in 1 .. Len(h) : g[i] = h[i]
    OBVIOUS
  <1> HIDE DEF g
  <1>2. ASSUME now = "dirty"
        PROVE  Cardinality(DirtyOf(g)) = Cardinality(DirtyOf(h)) + 1 /\ LastOf(g) = Len(g)
    <2>1. DirtyOf(g) = DirtyOf(h) \cup {Len(h) + 1} /\ Len(h) + 1 \notin DirtyOf(h)
      BY <1>1, <1>2 DEF DirtyOf
    <2>2. Cardinality(DirtyOf(g)) = Cardinality(DirtyOf(h)) + 1
      BY <2>1, DirtyNumbers, FS_AddElement
    <2>3. /\ Len(g) \in DirtyOf(g) /\ \A j \in DirtyOf(g) : j <= Len(g)
          /\ \A i \in DirtyOf(g) : i \in Nat
      BY <1>1, <2>1 DEF DirtyOf
    <2>4. \A i \in DirtyOf(g) : (\A j \in DirtyOf(g) : j <= i) => i = Len(g)
      BY <1>1, <2>3
    <2> QED BY <2>2, <2>3, <2>4 DEF LastOf, LastIn
  <1>3. ASSUME now # "dirty"
        PROVE  DirtyOf(g) = DirtyOf(h) /\ LastOf(g) = LastOf(h)
    <2>1. DirtyOf(g) = DirtyOf(h)
      BY <1>1, <1>3 DEF DirtyOf
    <2> QED BY <2>1, Zenon DEF LastOf
  <1> QED BY <1>1, <1>2, <1>3 DEF g

\* A page that is met for the first time, ...
LEMMA NewCarries ==
  ASSUME NEW n \in Int
  PROVE  Carries(Tracking!NewPage(n), <<>>, n, "away")
  <1> DEFINE none == <<>>
  <1>1. Len(none) = 0 /\ DirtyOf(none) = {}
    BY DEF DirtyOf
  <1>2. LastOf(none) = 1 /\ Cardinality(DirtyOf(none)) = 0
    BY <1>1, FS_EmptySet DEF LastOf, LastIn
  <1> DEFINE d == Tracking!NewPage(n)
  <1>3. /\ DOMAIN d = PageFields /\ d.age_in_intervals = 0 /\ d.first_interval = n /\ d.write_count = 0
        /\ d.age_since_last_write = 0 /\ d.modified_this_interval = FALSE
    BY DEF Tracking!NewPage, PageFields
  <1> HIDE DEF none, d
  <1>4. Carries(d, none, n, "away")
    <2>1. Counts(d, none, n, "away")
      BY <1>1, <1>2, <1>3 DEF Counts
    <2>2. d.modified_this_interval = ("away" = "dirty")
      BY <1>3
    <2> QED BY <2>1, <2>2, Zenon DEF Carries
  <1> QED BY <1>4 DEF none, d

\* ... one that is tracked in this interval, ...
LEMMA TrackedCarries ==
  ASSUME NEW page, NEW h \in Seq(Seens), NEW n \in Int, Carries(page, h, n, "away"),
         NEW dirty \in BOOLEAN, NEW is_new
  PROVE  Carries(Tracking!TrackPage(page, dirty, is_new), h, n, IF dirty THEN "dirty" ELSE "clean")
  <1>0. Cardinality(DirtyOf(h)) \in Nat
    BY DirtyNumbers
  <1> DEFINE marked == IF dirty THEN Tracking!write(page) ELSE Tracking!no_write(page)
             d == Tracking!TrackPage(page, dirty, is_new)
  <1>1. /\ DOMAIN marked = PageFields /\ marked.age_in_intervals = page.age_in_intervals
        /\ marked.first_interval = page.first_interval
        /\ marked.write_count = page.write_count + (IF dirty THEN 1 ELSE 0)
        /\ marked.age_since_last_write = IF dirty THEN 0 ELSE page.age_since_last_write
        /\ marked.modified_this_interval = dirty
    <2>1. CASE dirty
      BY <2>1 DEF Carries, Counts, PageFields, Tracking!write
    <2>2. CASE ~dirty
      <3>1. marked = Tracking!no_write(page)
        BY <2>2
      <3>2. /\ DOMAIN page = PageFields /\ page.write_count \in Int
        BY <1>0 DEF Carries, Counts
      <3> HIDE DEF marked
      <3>3. /\ DOMAIN marked = PageFields /\ marked.age_in_intervals = page.age_in_intervals
            /\ marked.first_interval = page.first_interval /\ marked.write_count = page.write_count
            /\ marked.age_since_last_write = page.age_since_last_write
            /\ marked.modified_this_interval = FALSE
        BY <3>1, <3>2 DEF PageFields, Tracking!no_write
      <3>4. marked.write_count = page.write_count + (IF dirty THEN 1 ELSE 0)
        BY <2>2, <3>2, <3>3
      <3>5. dirty = FALSE
        BY <2>2
      <3> QED BY <2>2, <3>3, <3>4, <3>5, Zenon
    <2> QED BY <2>1, <2>2
  <1>2. d = [marked EXCEPT !.has_new_objects = @ \/ is_new]
    BY DEF Tracking!TrackPage
  <1> HIDE DEF marked, d
  <1>3. Counts(d, h, n, IF dirty THEN "dirty" ELSE "clean")
    BY <1>0, <1>1, <1>2 DEF Carries, Counts, PageFields
  <1>4. d.modified_this_interval = dirty
    BY <1>1, <1>2 DEF PageFields
  <1> QED BY <1>3, <1>4 DEF Carries, d

\* ... and one at the end of the interval.
LEMMA OlderCarries ==
  ASSUME NEW page, NEW h \in Seq(Seens), NEW n \in Int, NEW now \in Seens, Carries(page, h, n, now)
  PROVE  /\ Carries(Tracking!older(page), Append(h, now), n + 1, "away")
         /\ Tracking!older(page).modified_last_interval = (now = "dirty")
  <1> DEFINE g == Append(h, now)  d == Tracking!older(page)
  <1>1. /\ g \in Seq(Seens) /\ Len(g) = Len(h) + 1 /\ Len(h) \in Nat
        /\ now = "dirty" => /\ Cardinality(DirtyOf(g)) = Cardinality(DirtyOf(h)) + 1
                            /\ LastOf(g) = Len(g)
        /\ now # "dirty" => DirtyOf(g) = DirtyOf(h) /\ LastOf(g) = LastOf(h)
    BY DirtyGrows
  <1>2. Cardinality(DirtyOf(h)) \in Nat /\ LastOf(h) \in Nat
    BY DirtyNumbers
  <1>3. /\ DOMAIN d = PageFields /\ d.age_in_intervals = page.age_in_intervals + 1
        /\ d.first_interval = page.first_interval /\ d.write_count = page.write_count
        /\ d.age_since_last_write = page.age_since_last_write + 1 /\ d.modified_this_interval = FALSE
        /\ d.modified_last_interval = page.modified_this_interval
    BY DEF Carries, Counts, PageFields, Tracking!older
  <1> HIDE DEF g, d
  <1>4. Carries(d, g, n + 1, "away")
    <2>1. Counts(d, g, n + 1, "away")
      BY <1>1, <1>2, <1>3 DEF Carries, Counts
    <2>2. d.modified_this_interval = ("away" = "dirty")
      BY <1>3
    <2> QED BY <2>1, <2>2, Zenon DEF Carries
  <1>5. d.modified_last_interval = (now = "dirty")
    BY <1>3, Zenon DEF Carries
  <1> QED BY <1>4, <1>5 DEF g, d

\* The resident pages of the objects of S, and the physical pages of V.
PagesIn(m, S) == {v \in UNION {PagesOf[p] : p \in S} : m.state[v] \in {"clean", "dirty"}}
FramesOf(m, V) == {m.frame[v] : v \in V}

\* How a physical page is seen in an interval that has met those of P.
SeenIn(m, P, f) == IF f \notin P THEN "away" ELSE m.state[CHOOSE v \in Pages : m.frame[v] = f]

\* Different pages have different physical pages.
LEMMA FrameIs ==
  ASSUME NEW m \in Mappings, NEW v \in Pages
  PROVE  /\ m.frame[v] \in Frames /\ m.state[v] \in {"absent", "zero", "clean", "dirty"}
         /\ (CHOOSE w \in Pages : m.frame[w] = m.frame[v]) = v
         /\ \A V \in SUBSET Pages : v \in V <=> m.frame[v] \in FramesOf(m, V)
  <1>1. /\ m.frame[v] \in Frames /\ m.state[v] \in {"absent", "zero", "clean", "dirty"}
        /\ \A w \in Pages : m.frame[w] = m.frame[v] => w = v
    BY OtherTestsAssumption
  <1>2. (CHOOSE w \in Pages : m.frame[w] = m.frame[v]) = v
    BY <1>1
  <1>3. ASSUME NEW V \in SUBSET Pages
        PROVE  v \in V <=> m.frame[v] \in FramesOf(m, V)
    BY <1>1 DEF FramesOf
  <1> QED BY <1>1, <1>2, <1>3

LEMMA FramesCount ==
  ASSUME NEW m \in Mappings, NEW V \in SUBSET Pages
  PROVE  /\ FramesOf(m, V) \in SUBSET Frames /\ IsFiniteSet(V)
         /\ Cardinality(FramesOf(m, V)) = Cardinality(V)
  <1> DEFINE T == FramesOf(m, V)  g == [v \in V |-> m.frame[v]]
  <1>1. \A v \in V : m.frame[v] \in Frames /\ \A w \in V : m.frame[v] = m.frame[w] => v = w
    BY OtherTestsAssumption
  <1>2. T \in SUBSET Frames
    BY <1>1 DEF FramesOf
  <1>3. g \in [V -> T] /\ (\A v, w \in V : g[v] = g[w] => v = w) /\ (\A f \in T : \E v \in V : g[v] = f)
    BY <1>1 DEF FramesOf
  <1>4. IsFiniteSet(V)
    BY PagesAssumption, FS_Subset
  <1> HIDE DEF T, g
  <1>5. g \in Bijection(V, T)
    BY <1>3 DEF Bijection, Injection, Surjection, IsInjective
  <1>6. Cardinality(T) = Cardinality(V)
    BY <1>4, <1>5, FS_Bijection DEF ExistsBijection
  <1> QED BY <1>2, <1>4, <1>6 DEF T

LEMMA SeenIs ==
  ASSUME NEW m \in Mappings, NEW V \in SUBSET PagesIn(m, Ptrs), NEW f
  PROVE  /\ SeenIn(m, FramesOf(m, V), f) \in Seens
         /\ \A v \in V : m.frame[v] = f => SeenIn(m, FramesOf(m, V), f) = m.state[v]
  <1>1. V \in SUBSET Pages /\ \A v \in V : m.state[v] \in {"clean", "dirty"}
    BY PagesAssumption DEF PagesIn
  <1>2. ASSUME NEW v \in V, m.frame[v] = f
        PROVE  SeenIn(m, FramesOf(m, V), f) = m.state[v]
    <2>1. f \in FramesOf(m, V)
      BY <1>2 DEF FramesOf
    <2>2. (CHOOSE w \in Pages : m.frame[w] = f) = v
      BY <1>1, <1>2, FrameIs
    <2> QED BY <2>1, <2>2, Zenon DEF SeenIn
  <1>3. CASE f \in FramesOf(m, V)
    <2>1. PICK v \in V : m.frame[v] = f
      BY <1>3 DEF FramesOf
    <2> QED BY <1>1, <1>2, <2>1 DEF Seens
  <1>4. CASE f \notin FramesOf(m, V)
    BY <1>2, <1>4 DEF SeenIn, Seens
  <1> QED BY <1>2, <1>3, <1>4

LEMMA TextListIs == ASSUME NEW S PROVE SetToSeq(S) = Adding!SetToSeq(S)
  BY Zenon DEF SetToSeq, Adding!SetToSeq, IsInjective, Adding!IsInjective, Cardinality, Adding!Cardinality

\* The rows of some pages, one for each.
FramesIn(rows) == {rows[i].frame : i \in 1 .. Len(rows)}
RowsAt(t, m, n, V) == SetToSeq({Tracking!PageRow(t, m.frame[v], n) : v \in V})

LEMMA RowsOf ==
  ASSUME NEW m \in Mappings, NEW V \in SUBSET Pages, NEW t, NEW n,
         NEW s, s = RowsAt(t, m, n, V)
  PROVE  /\ \E S : s \in Seq(S)
         /\ Len(s) = Cardinality(V) /\ FramesIn(s) = FramesOf(m, V)
  <1> DEFINE Row(v) == Tracking!PageRow(t, m.frame[v], n)
             R == {Row(v) : v \in V}  g == [v \in V |-> Row(v)]
  <1>0. s = SetToSeq(R)
    BY DEF RowsAt
  <1>1. \A v \in V : Row(v).frame = m.frame[v]
    BY DEF Tracking!PageRow
  <1>2. \A v, w \in V : m.frame[v] = m.frame[w] => v = w
    BY OtherTestsAssumption
  <1> HIDE DEF Row
  <1>3. g \in [V -> R] /\ (\A v, w \in V : g[v] = g[w] => v = w) /\ (\A r \in R : \E v \in V : g[v] = r)
    BY <1>1, <1>2
  <1>4. IsFiniteSet(V)
    BY FramesCount
  <1> HIDE DEF R, g
  <1>5. g \in Bijection(V, R)
    BY <1>3 DEF Bijection, Injection, Surjection, IsInjective
  <1>6. IsFiniteSet(R) /\ Cardinality(R) = Cardinality(V)
    BY <1>4, <1>5, FS_Bijection DEF ExistsBijection
  <1>7. s \in Seq(R) /\ Len(s) = Cardinality(R) /\ {s[i] : i \in 1 .. Len(s)} = R
    <2>1. Adding!IsFiniteSet(R) /\ Adding!Cardinality(R) = Cardinality(R)
      BY <1>6, FiniteIs, CountIs
    <2>2. LET z == Adding!SetToSeq(R) IN
          z \in Seq(R) /\ Len(z) = Adding!Cardinality(R) /\ {z[i] : i \in 1 .. Len(z)} = R
      BY <2>1, Adding!SetToSeqIs
    <2>3. s = Adding!SetToSeq(R)
      BY <1>0, TextListIs, Zenon
    <2> QED BY <2>1, <2>2, <2>3
  <1>8. FramesIn(s) = FramesOf(m, V)
    <2>1. \A i \in 1 .. Len(s) : \E v \in V : s[i].frame = m.frame[v]
      BY <1>1, <1>7 DEF R
    <2>2. ASSUME NEW v \in V PROVE \E i \in 1 .. Len(s) : s[i].frame = m.frame[v]
      <3>1. Row(v) \in R
        BY DEF R
      <3>2. PICK i \in 1 .. Len(s) : s[i] = Row(v)
        BY <1>7, <3>1
      <3> QED BY <1>1, <3>2
    <2> QED BY <2>1, <2>2 DEF FramesOf, FramesIn
  <1> QED BY <1>6, <1>7, <1>8, Zenon

\* Rows after rows.
LEMMA RowsAppended ==
  ASSUME NEW S, NEW r \in Seq(S), NEW T, NEW s \in Seq(T)
  PROVE  /\ r \o s \in Seq(S \cup T) /\ Len(r \o s) = Len(r) + Len(s)
         /\ FramesIn(r \o s) = FramesIn(r) \cup FramesIn(s)
  <1> DEFINE u == r \o s
  <1>1. /\ u \in Seq(S \cup T) /\ Len(u) = Len(r) + Len(s) /\ Len(r) \in Nat /\ Len(s) \in Nat
        /\ \A i \in 1 .. Len(u) : u[i] = IF i <= Len(r) THEN r[i] ELSE s[i - Len(r)]
    OBVIOUS
  <1> HIDE DEF u
  <1>2. \A i \in 1 .. Len(r) : i \in 1 .. Len(u) /\ u[i] = r[i]
    BY <1>1
  <1>3. ASSUME NEW i \in 1 .. Len(s)
        PROVE  i + Len(r) \in 1 .. Len(u) /\ u[i + Len(r)] = s[i]
    <2>1. i + Len(r) \in 1 .. Len(u) /\ ~(i + Len(r) <= Len(r)) /\ (i + Len(r)) - Len(r) = i
      BY <1>1
    <2>2. u[i + Len(r)] = s[(i + Len(r)) - Len(r)]
      BY <1>1, <2>1, Zenon
    <2> QED BY <2>1, <2>2, Zenon
  <1>4. ASSUME NEW i \in 1 .. Len(u)
        PROVE  \/ i \in 1 .. Len(r) /\ u[i] = r[i]
               \/ i - Len(r) \in 1 .. Len(s) /\ u[i] = s[i - Len(r)]
    <2>1. u[i] = IF i <= Len(r) THEN r[i] ELSE s[i - Len(r)]
      BY <1>1, Zenon
    <2>2. CASE i <= Len(r)
      BY <1>1, <2>1, <2>2
    <2>3. CASE ~(i <= Len(r))
      <3>1. i - Len(r) \in 1 .. Len(s)
        BY <1>1, <2>3
      <3> QED BY <2>1, <2>3, <3>1, Zenon
    <2> QED BY <2>2, <2>3
  <1>5. {u[i].frame : i \in 1 .. Len(u)} = {r[i].frame : i \in 1 .. Len(r)} \cup {s[i].frame : i \in 1 .. Len(s)}
    <2>1. {u[i].frame : i \in 1 .. Len(u)} \subseteq {r[i].frame : i \in 1 .. Len(r)} \cup {s[i].frame : i \in 1 .. Len(s)}
      BY <1>4
    <2>2. {r[i].frame : i \in 1 .. Len(r)} \subseteq {u[i].frame : i \in 1 .. Len(u)}
      BY <1>2
    <2>3. {s[i].frame : i \in 1 .. Len(s)} \subseteq {u[i].frame : i \in 1 .. Len(u)}
      BY <1>3
    <2> QED BY <2>1, <2>2, <2>3
  <1> QED BY <1>1, <1>5, Zenon DEF u, FramesIn

\* What the records say in interval n: nothing of a page has been seen
\* before it has one.
RecordsCarry(t, h, n, m, P) ==
  /\ h \in [Frames -> Seq(Seens)]
  /\ DOMAIN t \in SUBSET Frames
  /\ \A f \in Frames \ DOMAIN t : h[f] = <<>>
  /\ \A f \in DOMAIN t : Carries(t[f], h[f], n, SeenIn(m, P, f))
Carried(n, P) == RecordsCarry(tracking, past, n, map, P)

\* The pages of the objects visited are those done, and each has its row.
TrackedSoFar ==
  /\ map \in Mappings
  /\ left \in SUBSET Recorded
  /\ done.virtual = PagesIn(map, Recorded \ left)
  /\ done.physical = FramesOf(map, done.virtual)
  /\ \E S : page_rows \in Seq(S)
  /\ Len(page_rows) = Cardinality(done.virtual)
  /\ FramesIn(page_rows) = done.physical

RowsComplete ==
  /\ Len(page_rows) = Cardinality(Resident)
  /\ FramesIn(page_rows) = Resident

\* The inductive invariant: while PageTrackingTest is at work, its records
\* and rows are right for the pages it has met; an interval further, its
\* records are right without this interval's sight of them.
PageInv ==
  /\ interval_count \in Int
  /\ phase = "tracking" => Carried(interval_count, done.physical) /\ TrackedSoFar
  /\ phase # "tracking" =>
       /\ Carried(interval_count + 1, {})
       /\ \A f \in DOMAIN tracking : tracking[f].modified_last_interval = (past[f][Len(past[f])] = "dirty")
  /\ phase = "generational" => RowsComplete

LEMMA PageInvInit == OtherInit => PageInv
  <1> SUFFICES ASSUME OtherInit PROVE PageInv
    OBVIOUS
  <1>1. phase = "idle" /\ interval_count = 0 /\ tracking = <<>> /\ past = [f \in Frames |-> <<>>]
    BY DEF OtherInit
  <1>2. DOMAIN tracking = {} /\ past \in [Frames -> Seq(Seens)]
    BY <1>1
  <1> QED BY <1>1, <1>2 DEF PageInv, Carried, RecordsCarry

\* A page that has not been met in this interval is as at its beginning.
LEMMA Unmet == ASSUME NEW f, NEW m PROVE SeenIn(m, {}, f) = "away"
  BY DEF SeenIn

LEMMA PageInvBeginInterval ==
  ASSUME GenInv, PageInv, BeginInterval
  PROVE  PageInv'
  <1>1. /\ ~in_interval /\ phase' = "tracking" /\ interval_count' = interval_count + 1
        /\ done' = [virtual |-> {}, physical |-> {}] /\ page_rows' = <<>> /\ left' = Recorded
        /\ map' \in Mappings /\ tracking' = tracking /\ past' = past /\ Recorded' = Recorded
    BY DEF BeginInterval, begin, NothingDone, Recorded
  <1>2. phase # "tracking" /\ interval_count \in Int
    BY <1>1 DEF GenInv, PageInv
  <1>3. Carried(interval_count + 1, {})
    BY <1>2 DEF PageInv
  <1>4. Carried(interval_count, {})'
    <2>1. \A f : SeenIn(map, {}, f) = "away" /\ SeenIn(map', {}, f) = "away"
      BY Unmet, Zenon
    <2> QED BY <1>1, <1>3, <2>1 DEF Carried, RecordsCarry
  <1>5. TrackedSoFar'
    <2>1. /\ done'.virtual = {} /\ done'.physical = {} /\ Recorded' \ left' = {}
          /\ page_rows' = <<>> /\ map' \in Mappings /\ left' \in SUBSET Recorded'
      BY <1>1
    <2>2. PagesIn(map', {}) = {} /\ FramesOf(map', {}) = {}
      BY DEF PagesIn, FramesOf
    <2>3. page_rows' \in Seq({}) /\ Len(page_rows') = 0 /\ FramesIn(page_rows') = {}
      BY <2>1 DEF FramesIn
    <2> QED BY <2>1, <2>2, <2>3, FS_EmptySet DEF TrackedSoFar
  <1> QED BY <1>1, <1>2, <1>4, <1>5 DEF PageInv

LEMMA PageInvFinishTracking ==
  ASSUME PageInv, FinishTracking
  PROVE  PageInv'
  <1>1. /\ phase = "tracking" /\ left = {} /\ tracking' = Tracking!age_all_pages(tracking)
        /\ past' = [f \in Frames |-> IF f \in DOMAIN tracking THEN Append(past[f], Seen(f)) ELSE <<>>]
        /\ phase' = "generational" /\ interval_count' = interval_count /\ page_rows' = page_rows
        /\ map' = map /\ Recorded' = Recorded
    BY DEF FinishTracking, event_vars, Recorded
  <1>2. Carried(interval_count, done.physical) /\ TrackedSoFar /\ interval_count \in Int
    BY <1>1 DEF PageInv
  <1>3. ASSUME NEW f \in DOMAIN tracking
        PROVE  /\ f \in Frames /\ Seen(f) \in Seens /\ past[f] \in Seq(Seens)
               /\ Carries(Tracking!older(tracking[f]), Append(past[f], Seen(f)), interval_count + 1, "away")
               /\ Tracking!older(tracking[f]).modified_last_interval = (Seen(f) = "dirty")
    <2>1. Seen(f) = SeenIn(map, done.physical, f)
      BY Zenon DEF Seen, SeenIn
    <2>2. f \in Frames /\ past[f] \in Seq(Seens) /\ Carries(tracking[f], past[f], interval_count, Seen(f))
      BY <1>2, <2>1 DEF Carried, RecordsCarry
    <2>3. Seen(f) \in Seens
      <3>1. done.virtual \in SUBSET PagesIn(map, Ptrs) /\ done.physical = FramesOf(map, done.virtual) /\ map \in Mappings
        BY <1>2 DEF TrackedSoFar, PagesIn, Recorded
      <3> QED BY <2>1, <3>1, SeenIs
    <2> QED BY <1>2, <2>2, <2>3, OlderCarries
  <1>4. DOMAIN tracking' = DOMAIN tracking /\ \A f \in DOMAIN tracking : tracking'[f] = Tracking!older(tracking[f])
    BY <1>1 DEF Tracking!age_all_pages
  <1>5. past' \in [Frames -> Seq(Seens)] /\ \A f \in DOMAIN tracking : past'[f] = Append(past[f], Seen(f))
    BY <1>1, <1>3
  <1>6. \A f \in Frames \ DOMAIN tracking : past'[f] = <<>>
    BY <1>1
  <1>7. Carried(interval_count + 1, {})'
    BY <1>1, <1>2, <1>3, <1>4, <1>5, <1>6, Unmet DEF Carried, RecordsCarry
  <1>8. \A f \in DOMAIN tracking' :
          tracking'[f].modified_last_interval = (past'[f][Len(past'[f])] = "dirty")
    <2>1. ASSUME NEW f \in DOMAIN tracking
          PROVE  past'[f][Len(past'[f])] = Seen(f)
      BY <1>3, <1>5, DirtyGrows
    <2>2. ASSUME NEW f \in DOMAIN tracking'
          PROVE  tracking'[f].modified_last_interval = (past'[f][Len(past'[f])] = "dirty")
      <3>1. f \in DOMAIN tracking
        BY <1>4
      <3>2. tracking'[f].modified_last_interval = (Seen(f) = "dirty")
        BY <1>3, <1>4, <3>1, Zenon
      <3> QED BY <2>1, <3>1, <3>2, Zenon
    <2> QED BY <2>2
  <1>9. RowsComplete'
    <2>1. done.virtual = PagesIn(map, Recorded) /\ done.physical = FramesOf(map, done.virtual)
      BY <1>1, <1>2 DEF TrackedSoFar
    <2>2. Resident = FramesOf(map, PagesIn(map, Recorded)) /\ Resident' = Resident
      BY <1>1 DEF Resident, FramesOf, PagesIn
    <2>3. PagesIn(map, Recorded) \in SUBSET Pages
      BY PagesAssumption DEF PagesIn, Recorded
    <2>4. Cardinality(Resident) = Cardinality(done.virtual)
      BY <1>2, <2>1, <2>2, <2>3, FramesCount DEF TrackedSoFar
    <2> QED BY <1>1, <1>2, <2>1, <2>2, <2>4 DEF RowsComplete, TrackedSoFar
  <1> QED BY <1>1, <1>2, <1>7, <1>8, <1>9 DEF PageInv

\* What the pages W of an allocation add to the records when those of V have
\* been met.
LEMMA MetCarry ==
  ASSUME NEW m \in Mappings, NEW V \in SUBSET PagesIn(m, Ptrs), NEW W \in SUBSET PagesIn(m, Ptrs),
         V \cap W = {}, NEW n \in Int, NEW is_new, NEW t, NEW h,
         RecordsCarry(t, h, n, m, FramesOf(m, V)),
         NEW u, u = Tracking!TrackPages(t, W, m.frame, m.state, n, is_new)
  PROVE  RecordsCarry(u, h, n, m, FramesOf(m, V \cup W))
  <1>0. /\ h \in [Frames -> Seq(Seens)] /\ DOMAIN t \in SUBSET Frames
        /\ \A f \in Frames \ DOMAIN t : h[f] = <<>>
        /\ \A f \in DOMAIN t : Carries(t[f], h[f], n, SeenIn(m, FramesOf(m, V), f))
    BY DEF RecordsCarry
  <1> DEFINE met == FramesOf(m, W)  dirty == {m.frame[v] : v \in {v \in W : m.state[v] = "dirty"}}
  <1>1. /\ DOMAIN u = DOMAIN t \cup met
        /\ \A f \in met : u[f] = Tracking!TrackPage(Tracking!add_page(t, f, n), f \in dirty, is_new)
        /\ \A f \in DOMAIN t \ met : u[f] = t[f]
    BY DEF Tracking!TrackPages, FramesOf
  <1>2. /\ V \in SUBSET Pages /\ W \in SUBSET Pages /\ V \cup W \in SUBSET PagesIn(m, Ptrs)
        /\ \A v \in W : m.state[v] \in {"clean", "dirty"}
    BY PagesAssumption DEF PagesIn
  <1>3. DOMAIN u \in SUBSET Frames
    BY <1>0, <1>1, <1>2, FramesCount
  <1>4. ASSUME NEW f \in met
        PROVE  Carries(u[f], h[f], n, SeenIn(m, FramesOf(m, V \cup W), f))
    <2>1. PICK v \in W : m.frame[v] = f
      BY DEF FramesOf
    <2>2. SeenIn(m, FramesOf(m, V \cup W), f) = m.state[v]
      BY <1>2, <2>1, SeenIs
    <2>3. SeenIn(m, FramesOf(m, V), f) = "away"
      <3>1. v \notin V /\ v \in Pages
        BY <1>2, <2>1
      <3>2. f \notin FramesOf(m, V)
        BY <1>2, <2>1, <3>1, FrameIs
      <3> QED BY <3>2, Zenon DEF SeenIn
    <2>4. f \in dirty <=> m.state[v] = "dirty"
      <3>1. \A w \in W : m.frame[w] = f => w = v
        BY <1>2, <2>1, OtherTestsAssumption
      <3> QED BY <2>1, <3>1
    <2>5. Carries(Tracking!add_page(t, f, n), h[f], n, "away") /\ h[f] \in Seq(Seens) /\ f \in Frames
      <3>1. f \in Frames /\ h[f] \in Seq(Seens)
        BY <1>0, <1>1, <1>3
      <3>2. CASE f \in DOMAIN t
        BY <1>0, <2>3, <3>1, <3>2, Zenon DEF Tracking!add_page
      <3>3. CASE f \notin DOMAIN t
        <4>1. h[f] = <<>> /\ Tracking!add_page(t, f, n) = Tracking!NewPage(n)
          BY <1>0, <3>1, <3>3, Zenon DEF Tracking!add_page
        <4> QED BY <3>1, <4>1, NewCarries
      <3> QED BY <3>2, <3>3
    <2> DEFINE page == Tracking!add_page(t, f, n)  d == (f \in dirty)
    <2>6. u[f] = Tracking!TrackPage(page, d, is_new) /\ d \in BOOLEAN
      <3>1. u[f] = Tracking!TrackPage(page, d, is_new)
        BY <1>1, Zenon
      <3>2. d \in BOOLEAN
        OBVIOUS
      <3> HIDE DEF page, d
      <3> QED BY <3>1, <3>2
    <2>7. (IF d THEN "dirty" ELSE "clean") = m.state[v]
      BY <1>2, <2>1, <2>4
    <2> HIDE DEF page, d
    <2>8. Carries(Tracking!TrackPage(page, d, is_new), h[f], n, IF d THEN "dirty" ELSE "clean")
      <3>1. Carries(page, h[f], n, "away") /\ h[f] \in Seq(Seens)
        BY <2>5 DEF page
      <3> QED BY <2>6, <3>1, TrackedCarries, Zenon
    <2> QED BY <2>2, <2>6, <2>7, <2>8, Zenon
  <1>5. ASSUME NEW f \in DOMAIN t \ met
        PROVE  Carries(u[f], h[f], n, SeenIn(m, FramesOf(m, V \cup W), f))
    <2>1. f \in FramesOf(m, V \cup W) <=> f \in FramesOf(m, V)
      BY DEF FramesOf
    <2>2. SeenIn(m, FramesOf(m, V \cup W), f) = SeenIn(m, FramesOf(m, V), f)
      <3>1. CASE f \in FramesOf(m, V)
        BY <2>1, <3>1 DEF SeenIn
      <3>2. CASE f \notin FramesOf(m, V)
        BY <2>1, <3>2, Zenon DEF SeenIn
      <3> QED BY <3>1, <3>2
    <2>3. u[f] = t[f]
      BY <1>1
    <2> QED BY <1>0, <2>2, <2>3, Zenon
  <1> QED BY <1>0, <1>1, <1>3, <1>4, <1>5 DEF RecordsCarry

\* Of an object that is not larger than a page, only the page of its first
\* byte is listed.
LEMMA SmallOnOnePage ==
  ASSUME NEW p \in Ptrs, SizeOf[p] <= PAGE_SIZE
  PROVE  PagesOf[p] \subseteq {PageOf(Address[p])}
  <1>1. /\ SizeOf[p] \in Nat /\ Address[p] \in Nat /\ PAGE_SIZE \in Nat /\ PAGE_SIZE > 0
    BY SizesAssumption, PageSizeAssumption
  <1>2. count_virtual_pages(SizeOf[p]) \in {0, 1}
    <2>1. CASE SizeOf[p] = PAGE_SIZE
      BY <1>1, <2>1 DEF count_virtual_pages
    <2>2. CASE SizeOf[p] # PAGE_SIZE
      BY <1>1, <2>2 DEF count_virtual_pages
    <2> QED BY <2>1, <2>2
  <1>3. PageOf(Address[p]) \in Int
    BY <1>1 DEF PageOf
  <1>4. PagesOf[p] = PageOf(Address[p]) .. PageOf(Address[p]) + count_virtual_pages(SizeOf[p]) - 1
    BY Zenon DEF PagesOf
  <1> QED BY <1>2, <1>3, <1>4

LEMMA PageInvTrackAllocation ==
  ASSUME GenInv, PageInv, NEW p \in Ptrs, TrackAllocation(p)
  PROVE  PageInv'
  <1> DEFINE V == done.virtual
             W == {v \in PagesOf[p] : map.state[v] \in {"clean", "dirty"}} \ V
             rows == SetToSeq({Tracking!PageRow(tracking', map.frame[v], interval_count) : v \in W})
  <1>1. /\ phase = "tracking" /\ p \in left /\ left' = left \ {p} /\ phase' = phase
        /\ interval_count' = interval_count /\ map' = map /\ past' = past /\ Recorded' = Recorded
    BY DEF TrackAllocation, event_vars, Recorded
  <1>2. Carried(interval_count, done.physical) /\ TrackedSoFar /\ interval_count \in Int
    BY <1>1 DEF PageInv
  <1>3. /\ map \in Mappings /\ left \in SUBSET Recorded /\ V = PagesIn(map, Recorded \ left)
        /\ done.physical = FramesOf(map, V) /\ Recorded \in SUBSET Ptrs
    BY <1>2 DEF TrackedSoFar, Recorded
  <1>4. /\ V \in SUBSET PagesIn(map, Ptrs) /\ W \in SUBSET PagesIn(map, Ptrs) /\ V \cap W = {}
        /\ V \in SUBSET Pages /\ W \in SUBSET Pages
    BY <1>3, PagesAssumption DEF PagesIn
  <1>5. Tracking!Untracked(PagesOf[p], map.frame, map.state, done) = W
    <2>1. ASSUME NEW v \in PagesOf[p]
          PROVE  /\ map.state[v] \in {"absent", "zero", "clean", "dirty"}
                 /\ v \in V <=> map.frame[v] \in done.physical
      <3>1. v \in Pages
        BY PagesAssumption
      <3> HIDE DEF V
      <3>2. map.state[v] \in {"absent", "zero", "clean", "dirty"}
        BY <1>3, <3>1, FrameIs, Zenon
      <3>3. v \in V <=> map.frame[v] \in FramesOf(map, V)
        BY <1>3, <1>4, <3>1, FrameIs
      <3> QED BY <1>3, <3>2, <3>3
    <2> QED BY <2>1 DEF Tracking!Untracked
  <1>6. ASSUME Tracking!PassedOver(PageOf(Address[p]), SizeOf[p] <= PAGE_SIZE, done) PROVE W = {}
    <2>1. SizeOf[p] <= PAGE_SIZE /\ PageOf(Address[p]) \in V
      BY <1>6 DEF Tracking!PassedOver
    <2>2. PagesOf[p] \subseteq {PageOf(Address[p])}
      BY <2>1, SmallOnOnePage
    <2> QED BY <2>1, <2>2
  <1>7. /\ tracking' = Tracking!TrackPages(tracking, W, map.frame, map.state, interval_count, age[p] = 0)
        /\ page_rows' = page_rows \o rows
        /\ done' = [virtual |-> V \cup W, physical |-> done.physical \cup FramesOf(map, W)]
    <2> DEFINE pages == IF Tracking!PassedOver(PageOf(Address[p]), SizeOf[p] <= PAGE_SIZE, done) THEN {}
                        ELSE Tracking!Untracked(PagesOf[p], map.frame, map.state, done)
    <2>1. pages = W
      BY <1>5, <1>6, Zenon
    <2>2. /\ tracking' = Tracking!TrackPages(tracking, pages, map.frame, map.state, interval_count, age[p] = 0)
          /\ page_rows' = page_rows \o
               SetToSeq({Tracking!PageRow(tracking', map.frame[v], interval_count) : v \in pages})
          /\ done' = [virtual |-> done.virtual \cup pages,
                      physical |-> done.physical \cup {map.frame[v] : v \in pages}]
      BY Zenon DEF TrackAllocation
    <2> HIDE DEF pages, W
    <2> QED BY <2>1, <2>2 DEF FramesOf, FramesIn
  <1> HIDE DEF W
  <1>8. done'.virtual = V \cup W /\ done'.physical = FramesOf(map, V \cup W)
    BY <1>3, <1>7 DEF FramesOf
  <1>9. Carried(interval_count, done.physical)'
    <2>1. RecordsCarry(tracking', past, interval_count, map, FramesOf(map, V \cup W))
      <3> DEFINE is_new == (age[p] = 0)
      <3>1. tracking' = Tracking!TrackPages(tracking, W, map.frame, map.state, interval_count, is_new)
        BY <1>7
      <3> HIDE DEF V, is_new
      <3>2. RecordsCarry(tracking, past, interval_count, map, FramesOf(map, V))
        BY <1>2, <1>3, Zenon DEF Carried
      <3> QED BY <1>2, <1>3, <1>4, <3>1, <3>2, MetCarry, Zenon
    <2> QED BY <1>1, <1>8, <2>1, Zenon DEF Carried
  <1>10. TrackedSoFar'
    <2>1. done'.virtual = PagesIn(map, Recorded \ left')
      BY <1>1, <1>3, <1>8 DEF PagesIn, W
    <2>2. /\ \E S : page_rows' \in Seq(S)
          /\ Len(page_rows') = Cardinality(V) + Cardinality(W)
          /\ FramesIn(page_rows') = done'.physical
      <3>1. /\ \E S : rows \in Seq(S) /\ Len(rows) = Cardinality(W)
            /\ FramesIn(rows) = FramesOf(map, W)
        <4> DEFINE t == tracking'  n == interval_count  m == map  z == rows
        <4>1. m \in Mappings /\ W \in SUBSET Pages /\ z = RowsAt(t, m, n, W)
          BY <1>3, <1>4 DEF RowsAt
        <4> HIDE DEF t, n, m, z
        <4>2. (\E S : z \in Seq(S)) /\ Len(z) = Cardinality(W) /\ FramesIn(z) = FramesOf(m, W)
          BY <4>1, RowsOf, Zenon
        <4> QED BY <4>2, Zenon DEF z, m
      <3>2. PICK T : rows \in Seq(T)
        BY <3>1
      <3>3. PICK S : page_rows \in Seq(S)
        BY <1>2 DEF TrackedSoFar
      <3> HIDE DEF rows
      <3>4. /\ page_rows' \in Seq(S \cup T) /\ Len(page_rows') = Len(page_rows) + Len(rows)
            /\ FramesIn(page_rows') = FramesIn(page_rows) \cup FramesIn(rows)
        <4>1. page_rows' = page_rows \o rows
          BY <1>7, Zenon
        <4> QED BY <3>2, <3>3, <4>1, RowsAppended
      <3>5. done'.physical = done.physical \cup FramesOf(map, W)
        BY <1>7
      <3> QED BY <1>2, <3>1, <3>4, <3>5 DEF TrackedSoFar
    <2>3. Cardinality(V \cup W) = Cardinality(V) + Cardinality(W)
      <3> HIDE DEF V
      <3>1. IsFiniteSet(V) /\ IsFiniteSet(W)
        BY <1>3, <1>4, FramesCount, Zenon
      <3>2. Cardinality(V) \in Nat /\ Cardinality(W) \in Nat
        BY <3>1, FS_CardinalityType, Zenon
      <3>3. Cardinality(V \cup W) = Cardinality(V) + Cardinality(W) - Cardinality(V \cap W)
        BY <3>1, FS_Union, Zenon
      <3>4. Cardinality(V \cap W) = 0
        BY <1>4, FS_EmptySet, Zenon
      <3> QED BY <3>2, <3>3, <3>4
    <2>4. left' \in SUBSET Recorded
      BY <1>1, <1>3
    <2> QED BY <1>1, <1>3, <1>8, <2>1, <2>2, <2>3, <2>4 DEF TrackedSoFar
  <1> QED BY <1>1, <1>2, <1>9, <1>10 DEF PageInv

\* Where PageTrackingTest is not at work.
LEMMA PageInvRests ==
  ASSUME PageInv, phase # "tracking", phase' # "tracking",
         UNCHANGED <<interval_count, tracking, past>>,
         phase' # "generational" \/ UNCHANGED <<phase, age, map, page_rows>>
  PROVE  PageInv'
  <1>1. Carried(interval_count + 1, {})'
    <2>1. \A f : SeenIn(map, {}, f) = "away" /\ SeenIn(map', {}, f) = "away"
      BY Unmet, Zenon
    <2> QED BY <2>1 DEF Carried, RecordsCarry, PageInv
  <1>2. phase' = "generational" => RowsComplete'
    <2> SUFFICES ASSUME phase' = "generational" PROVE RowsComplete'
      OBVIOUS
    <2>1. phase = "generational" /\ UNCHANGED <<age, map, page_rows>>
      OBVIOUS
    <2>2. Recorded' = Recorded
      BY <2>1 DEF Recorded
    <2>3. Resident' = Resident
      BY <2>1, <2>2 DEF Resident
    <2>4. RowsComplete
      BY <2>1 DEF PageInv
    <2> QED BY <2>1, <2>3, <2>4 DEF RowsComplete
  <1> QED BY <1>1, <1>2 DEF PageInv

LEMMA PageInvStep == GenInv /\ PageInv /\ [OtherNext]_other_vars => PageInv'
  <1> SUFFICES ASSUME GenInv, PageInv, [OtherNext]_other_vars PROVE PageInv'
    OBVIOUS
  <1>1. ASSUME NEW p \in Ptrs, HearAllocation(p) PROVE PageInv'
    <2>1. ~in_interval
      BY <1>1 DEF HearAllocation, announce, announce_again, report
    <2> QED BY <1>1, <2>1, PageInvRests DEF HearAllocation, test_vars, GenInv
  <1>2. ASSUME NEW p \in Ptrs, HearRelease(p) PROVE PageInv'
    BY <1>2, PageInvRests DEF HearRelease, retract, test_vars, GenInv
  <1>3. ASSUME NEW p \in Ptrs, TrackAllocation(p) PROVE PageInv'
    BY <1>3, PageInvTrackAllocation
  <1>4. CASE BeginInterval
    BY <1>4, PageInvBeginInterval
  <1>5. CASE FinishTracking
    BY <1>5, PageInvFinishTracking
  <1>6. CASE SumGenerations
    BY <1>6, PageInvRests DEF SumGenerations
  <1>7. CASE EndInterval
    BY <1>7, PageInvRests DEF EndInterval
  <1>8. CASE UNCHANGED other_vars
    <2>1. UNCHANGED <<phase, interval_count, tracking, done, page_rows, left, map, past, age>>
      BY <1>8 DEF other_vars, event_vars
    <2>2. CASE phase = "tracking"
      BY <2>1, <2>2 DEF PageInv, Carried, RecordsCarry, TrackedSoFar, Recorded
    <2>3. CASE phase # "tracking"
      BY <2>1, <2>3, PageInvRests
    <2> QED BY <2>2, <2>3
  <1> QED BY <1>1, <1>2, <1>3, <1>4, <1>5, <1>6, <1>7, <1>8 DEF OtherNext

\* The rows of PageTrackingTest and what its records carry from interval to
\* interval, for any number of allocations, pages and intervals and whatever
\* /proc says: one row for each resident page that is listed for a tracked
\* object, and the age, the writes and the last write of a page are those of
\* its history
\* (page_tracking.cpp:146-219).
THEOREM PageRowsAreExact == OtherSpec => []PageRowsExact
  <1>1. PageInv => PageRowsExact
    <2> SUFFICES ASSUME PageInv PROVE PageRowsExact
      OBVIOUS
    <2>1. ASSUME phase # "tracking", NEW f \in DOMAIN tracking
          PROVE  /\ tracking[f].age_in_intervals = Len(past[f])
                 /\ tracking[f].first_interval = interval_count - Len(past[f]) + 1
                 /\ tracking[f].write_count = Cardinality(DirtyIn(f))
                 /\ tracking[f].age_since_last_write = Len(past[f]) - LastWrite(f) + 1
      <3>1. Carries(tracking[f], past[f], interval_count + 1, "away") /\ past[f] \in Seq(Seens)
        BY <2>1, Unmet DEF PageInv, Carried, RecordsCarry
      <3>2. DirtyIn(f) = DirtyOf(past[f]) /\ LastWrite(f) = LastOf(past[f])
        BY Zenon DEF DirtyIn, DirtyOf, LastWrite, LastOf, LastIn
      <3>3. Cardinality(DirtyIn(f)) \in Nat /\ Len(past[f]) \in Nat /\ interval_count \in Int
        BY <3>1, <3>2, DirtyNumbers DEF PageInv
      <3> DEFINE rec == tracking[f]  hist == past[f]  seen == "away"
      <3> HIDE DEF rec, hist, seen
      <3>4. seen # "dirty" /\ Counts(rec, hist, interval_count + 1, seen)
        BY <3>1 DEF seen, rec, hist, Carries
      <3>5. /\ rec.age_in_intervals = Len(hist) /\ rec.first_interval = (interval_count + 1) - Len(hist)
            /\ rec.write_count = Cardinality(DirtyOf(hist)) + 0
            /\ rec.age_since_last_write = Len(hist) - LastOf(hist) + 1
        <4>1. /\ rec.write_count = Cardinality(DirtyOf(hist)) + (IF seen = "dirty" THEN 1 ELSE 0)
              /\ rec.age_since_last_write = IF seen = "dirty" THEN 0 ELSE Len(hist) - LastOf(hist) + 1
              /\ rec.age_in_intervals = Len(hist) /\ rec.first_interval = (interval_count + 1) - Len(hist)
          BY <3>4, Zenon DEF Counts
        <4> QED BY <3>4, <4>1
      <3>6. Len(hist) \in Nat /\ Cardinality(DirtyOf(hist)) \in Nat
        BY <3>1, DirtyNumbers DEF hist
      <3>7. /\ rec.first_interval = interval_count - Len(hist) + 1 /\ rec.write_count = Cardinality(DirtyOf(hist))
        BY <3>3, <3>5, <3>6
      <3> QED BY <3>2, <3>5, <3>7 DEF rec, hist
    <2> QED BY <2>1, Zenon DEF PageInv, RowsComplete, FramesIn, PageRowsExact
  <1>2. OtherSpec => [](GenInv /\ PageInv)
    BY GenInvInit, GenInvStep, PageInvInit, PageInvStep, PTL DEF OtherSpec
  <1> QED BY <1>1, <1>2, PTL
=============================================================================
