------------------------------ MODULE FoldLaws ------------------------------
(***************************************************************************)
(* What the folds of the community modules compute, for any operator Op: a *)
(* fold over a sequence is the last of its steps, a sum over a set is that *)
(* of any element and the rest; and what the sequences made of a set are.  *)
(* A module that folds or adds up with an operator of its own takes these  *)
(* lemmas through an instance.                                             *)
(*                                                                         *)
(* The library's folds are a CHOOSE of a function defined step by step, on *)
(* all sets of positions or all subsets at once; that one exists is shown  *)
(* on a smallest length or set for which it would not, as the induction    *)
(* theorems take an operator for a parameter.                              *)
(***************************************************************************)
EXTENDS Integers, FiniteSets, SequencesExt, FiniteSetTheorems, WellFoundedInduction, SequenceTheorems, TLAPS

CONSTANT Op(_, _)  \* a step of a fold; the weight Op(m, b) of b in a sum

\* A set of naturals has a least element: the induction of this module.
LEMMA SmallestNat ==
  ASSUME NEW B \in SUBSET Nat, B # {}
  PROVE  \E n \in B : \A m \in B : n <= m
  <1> DEFINE R == OpToRel(<, Nat)
  <1>1. IsWellFoundedOn(R, Nat)
    BY NatLessThanWellFounded
  <1>2. \A x, y \in Nat : x < y => <<x, y>> \in R
    BY Zenon DEF OpToRel
  <1> HIDE DEF R
  <1>3. PICK n \in B : \A m \in B : <<m, n>> \notin R
    BY <1>1, WFMin, Zenon
  <1>4. \A m \in B : ~(m < n)
    BY <1>2, <1>3, Zenon
  <1> QED BY <1>4, SMT

\* Max of a bounded set is one of it.
LEMMA MaxIsIn ==
  ASSUME NEW n \in Nat, NEW S \in SUBSET (0 .. n), S # {}
  PROVE  Max(S) \in S
  <1> DEFINE B == {n - i : i \in S}
  <1>0. B \in SUBSET Nat /\ B # {}
    <2>1. \A i \in S : n - i \in Nat
      BY SMT
    <2> QED BY <2>1, Zenon
  <1>1. PICK m \in B : \A k \in B : m <= k
    BY <1>0, SmallestNat, Zenon
  <1>2. PICK i \in S : m = n - i
    BY <1>1
  <1>3. \A j \in S : i >= j
    BY <1>1, <1>2, SMT
  <1> QED BY <1>3 DEF Max

---------------------------------------------------------------------------
(* Folds over sequences                                                    *)

Folded(base, s) == FoldLeft(Op, base, s)

FoldStep(base, s, g, d) == IF d = {} THEN base ELSE Op(g[d \ {Max(d)}], s[Max(d)])
IsFold(base, s, D, g) == g = [d \in SUBSET D |-> FoldStep(base, s, g, d)]

\* FoldLeft is what the library's fold chooses, one function on all sets of
\* positions.
LEMMA FoldIsChosen ==
  ASSUME NEW base, NEW s
  PROVE  Folded(base, s) = (CHOOSE g : IsFold(base, s, DOMAIN s, g))[DOMAIN s]
  BY DEF Folded, FoldLeft, MapThenFoldSet, IsFold, FoldStep

\* The largest of the first positions, if it is among them.
LEMMA MaxIsLast ==
  ASSUME NEW n \in Nat \ {0}, NEW d \in SUBSET (1 .. n), n \in d
  PROVE  Max(d) = n
  <1>1. d \in SUBSET (0 .. n) /\ d # {}
    BY SMT
  <1>2. Max(d) \in d
    BY <1>1, MaxIsIn
  <1>3. \E x \in d : \A y \in d : x >= y
    <2>1. \A y \in d : n >= y
      BY SMT
    <2> QED BY <2>1
  <1>4. \A y \in d : Max(d) >= y
    BY <1>3 DEF Max
  <1>5. Max(d) \in 1 .. n /\ Max(d) >= n
    BY <1>2, <1>4, Zenon
  <1> QED BY <1>5, SMT

\* Such a function exists: each position adds the sets that end with it.
LEMMA FoldExists ==
  ASSUME NEW base, NEW s, NEW n \in Nat
  PROVE  \E g : IsFold(base, s, 1 .. n, g)
  <1> DEFINE B == {k \in Nat : ~\E g : IsFold(base, s, 1 .. k, g)}
  <1>a. SUFFICES ASSUME B # {} PROVE FALSE
    BY Zenon
  <1>0. B \in SUBSET Nat
    BY Zenon
  <1>1. PICK k \in B : \A j \in B : k <= j
    <2> HIDE DEF B
    <2> QED BY <1>a, <1>0, SmallestNat
  <1>2. k \in Nat /\ ~\E g : IsFold(base, s, 1 .. k, g)
    BY Zenon
  <1>3. CASE k = 0
    <2> DEFINE g == [d \in {{}} |-> base]
    <2>1. \A d \in {{}} : FoldStep(base, s, g, d) = base
      BY Zenon DEF FoldStep
    <2>2. SUBSET (1 .. 0) = {{}}
      BY SMT
    <2>3. g = [d \in SUBSET (1 .. 0) |-> FoldStep(base, s, g, d)]
      <3> HIDE DEF g
      <3>1. g = [d \in {{}} |-> base]
        BY DEF g
      <3> QED BY <2>1, <2>2, <3>1, Zenon
    <2> HIDE DEF g
    <2> QED BY <1>2, <1>3, <2>3, Zenon DEF IsFold
  <1>4. CASE k # 0
    <2>1. k - 1 \in Nat /\ k - 1 \notin B /\ k \in Nat \ {0}
      <3>1. k - 1 \in Nat /\ ~(k <= k - 1)
        BY <1>2, <1>4, SMT
      <3> HIDE DEF B
      <3> QED BY <1>1, <1>2, <1>4, <3>1, Zenon
    <2>2. PICK g : IsFold(base, s, 1 .. k - 1, g)
      BY <2>1, Zenon
    <2> DEFINE f == [d \in SUBSET (1 .. k) |-> IF k \in d THEN Op(g[d \ {k}], s[k]) ELSE g[d]]
    <2>3. \A d \in SUBSET (1 .. k - 1) : g[d] = FoldStep(base, s, g, d) /\ f[d] = g[d]
      <3>1. \A d \in SUBSET (1 .. k - 1) : d \in SUBSET (1 .. k) /\ k \notin d
        BY <1>2, SMT
      <3> QED BY <2>2, <3>1, Zenon DEF IsFold
    <2>4. ASSUME NEW d \in SUBSET (1 .. k) PROVE f[d] = FoldStep(base, s, f, d)
      <3>1. CASE k \in d
        <4>1. Max(d) = k /\ d # {}
          BY <2>1, <3>1, MaxIsLast
        <4>2. d \ {k} \in SUBSET (1 .. k - 1)
          BY <1>2, SMT
        <4>3. f[d] = Op(g[d \ {k}], s[k])
          BY <3>1, Zenon
        <4> HIDE DEF f
        <4> QED BY <2>3, <4>1, <4>2, <4>3, Zenon DEF FoldStep
      <3>2. CASE k \notin d
        <4>1. d \in SUBSET (1 .. k - 1)
          BY <1>2, <3>2, SMT
        <4>2. d = {} \/ d \ {Max(d)} \in SUBSET (1 .. k - 1)
          BY <4>1, Zenon
        <4> HIDE DEF f
        <4> QED BY <2>3, <4>1, <4>2, Zenon DEF FoldStep
      <3> QED BY <3>1, <3>2, Zenon
    <2>5. f = [d \in SUBSET (1 .. k) |-> f[d]]
      BY Zenon
    <2> HIDE DEF f
    <2>6. f = [d \in SUBSET (1 .. k) |-> FoldStep(base, s, f, d)]
      BY <2>4, <2>5, Zenon
    <2> QED BY <1>2, <2>6, Zenon DEF IsFold
  <1> QED BY <1>3, <1>4, Zenon

\* So a fold over a sequence is the last of its steps.
LEMMA FoldSteps ==
  ASSUME NEW base, NEW S, NEW s \in Seq(S)
  PROVE  \E f : /\ f[0] = base
                /\ \A i \in 1 .. Len(s) : f[i] = Op(f[i - 1], s[i])
                /\ Folded(base, s) = f[Len(s)]
  <1> DEFINE n == Len(s)
             c == CHOOSE g : IsFold(base, s, 1 .. n, g)
  <1>n. n \in Nat
    OBVIOUS
  <1>1. n \in Nat /\ DOMAIN s = 1 .. n
    OBVIOUS
  <1>2. \E g : IsFold(base, s, 1 .. n, g)
    BY <1>1, FoldExists
  <1>3. IsFold(base, s, 1 .. n, c)
    BY <1>2, Zenon
  <1>4. Folded(base, s) = c[1 .. n]
    BY <1>1, FoldIsChosen, Zenon
  <1> HIDE DEF c, n
  <1> DEFINE f == [i \in 0 .. n |-> c[1 .. i]]
  <1>5. f[0] = base
    <2>1. 0 \in 0 .. n /\ 1 .. 0 = {} /\ {} \in SUBSET (1 .. n)
      BY <1>1, SMT
    <2>2. c[{}] = FoldStep(base, s, c, {})
      BY <1>3, <2>1, Zenon DEF IsFold
    <2> QED BY <2>1, <2>2, Zenon DEF FoldStep
  <1>6. ASSUME NEW i \in 1 .. n PROVE f[i] = Op(f[i - 1], s[i])
    <2>1. i \in Nat \ {0} /\ i \in 0 .. n /\ i - 1 \in 0 .. n /\ i \in 1 .. i /\ 1 .. i # {}
      <3>1. i \in Nat \ {0} /\ i \in 0 .. n /\ i - 1 \in 0 .. n
        BY <1>n, SMT
      <3>2. i \in 1 .. i
        BY <3>1, SMT
      <3> QED BY <3>1, <3>2, Zenon
    <2>2. 1 .. i \in SUBSET (1 .. n) /\ 1 .. i \in SUBSET (1 .. i)
      <3>1. \A j \in 1 .. i : j \in 1 .. n
        BY <1>n, SMT
      <3> QED BY <3>1, Zenon
    <2>6. (1 .. i) \ {i} = 1 .. i - 1
      BY <2>1, SMT
    <2>3. Max(1 .. i) = i
      BY <2>1, <2>2, MaxIsLast
    <2>4. c[1 .. i] = FoldStep(base, s, c, 1 .. i)
      BY <1>3, <2>2, Zenon DEF IsFold
    <2>5. f[i] = c[1 .. i] /\ f[i - 1] = c[1 .. i - 1]
      BY <2>1, Zenon
    <2> HIDE DEF f
    <2> QED BY <2>1, <2>2, <2>3, <2>4, <2>5, <2>6, Zenon DEF FoldStep
  <1>7. f[n] = c[1 .. n]
    <2>1. n \in 0 .. n
      BY <1>n, SMT
    <2> QED BY <2>1, Zenon
  <1> HIDE DEF f
  <1> QED BY <1>4, <1>5, <1>6, <1>7, Zenon DEF n

\* What each step takes on to the next position, the fold takes to the last.
LEMMA FoldPasses ==
  ASSUME NEW base, NEW S, NEW s \in Seq(S), NEW T, base \in T[0],
         \A i \in 1 .. Len(s) : \A t \in T[i - 1] : Op(t, s[i]) \in T[i]
  PROVE  Folded(base, s) \in T[Len(s)]
  <1> DEFINE n == Len(s)
  <1>n. n \in Nat
    OBVIOUS
  <1>1. PICK f : /\ f[0] = base /\ Folded(base, s) = f[n]
                 /\ \A i \in 1 .. n : f[i] = Op(f[i - 1], s[i])
    BY FoldSteps
  <1> HIDE DEF n
  <1> DEFINE B == {i \in 0 .. n : f[i] \notin T[i]}
  <1>a. SUFFICES ASSUME B # {} PROVE FALSE
    <2>1. n \in 0 .. n
      BY <1>n
    <2> QED BY <1>1, <2>1 DEF n
  <1>0. B \in SUBSET Nat
    BY <1>n
  <1>3. PICK k \in B : \A j \in B : k <= j
    <2> HIDE DEF B
    <2> QED BY <1>a, <1>0, SmallestNat
  <1>4. k \in 0 .. n /\ f[k] \notin T[k]
    BY Zenon
  <1>5. k \in 1 .. n /\ k - 1 \in 0 .. n /\ ~(k <= k - 1)
    <2>1. k # 0
      BY <1>1, <1>4, Zenon
    <2> QED BY <1>n, <1>4, <2>1
  <1>6. f[k - 1] \in T[k - 1]
    BY <1>3, <1>5, Zenon
  <1> QED BY <1>1, <1>4, <1>5, <1>6, Zenon DEF n

\* What every step keeps, the fold keeps.
LEMMA FoldStays ==
  ASSUME NEW T, NEW base \in T, NEW S, NEW s \in Seq(S), \A t \in T, x \in S : Op(t, x) \in T
  PROVE  Folded(base, s) \in T
  <1> DEFINE Ts == [i \in 0 .. Len(s) |-> T]
  <1>1. 0 \in 0 .. Len(s) /\ Len(s) \in 0 .. Len(s)
    OBVIOUS
  <1>2. \A i \in 1 .. Len(s) : i \in 0 .. Len(s) /\ i - 1 \in 0 .. Len(s) /\ s[i] \in S
    OBVIOUS
  <1>3. \A i \in 0 .. Len(s) : Ts[i] = T
    BY Zenon
  <1> HIDE DEF Ts
  <1>4. \A i \in 1 .. Len(s) : \A t \in Ts[i - 1] : Op(t, s[i]) \in Ts[i]
    BY <1>2, <1>3, Zenon
  <1>5. base \in Ts[0]
    BY <1>1, <1>3, Zenon
  <1>6. Folded(base, s) \in Ts[Len(s)]
    BY <1>4, <1>5, FoldPasses
  <1> QED BY <1>1, <1>3, <1>6, Zenon

---------------------------------------------------------------------------
(* Sequences and the sets of their members                                 *)

\* A set's members, each once.
LEMMA SetToSeqIs ==
  ASSUME NEW S, IsFiniteSet(S)
  PROVE  LET s == SetToSeq(S) IN
         /\ s \in Seq(S) /\ Len(s) = Cardinality(S)
         /\ \A i, j \in 1 .. Len(s) : s[i] = s[j] => i = j
         /\ {s[i] : i \in 1 .. Len(s)} = S
  <1> DEFINE n == Cardinality(S)  s == SetToSeq(S)
  <1>1. n \in Nat /\ ExistsBijection(1 .. n, S)
    BY FS_CardinalityType
  <1>2. \E f \in [1 .. n -> S] : IsInjective(f)
    BY <1>1 DEF ExistsBijection, Bijection, Injection
  <1>3. s \in [1 .. n -> S] /\ IsInjective(s)
    BY <1>2, Zenon DEF SetToSeq
  <1>4. IsFiniteSet(1 .. n) /\ Cardinality(1 .. n) = n
    BY <1>1, FS_Interval
  <1>5. s \in Surjection(1 .. n, S)
    <2>1. s \in Injection(1 .. n, S)
      BY <1>3, Zenon DEF Injection
    <2> HIDE DEF s
    <2> QED BY <1>4, <2>1, FS_Injection
  <1> HIDE DEF s, n
  <1>6. s \in Seq(S) /\ Len(s) = n
    BY <1>1, <1>3
  <1>7. \A i, j \in 1 .. n : s[i] = s[j] => i = j
    BY <1>3 DEF IsInjective
  <1>8. {s[i] : i \in 1 .. n} = S
    BY <1>3, <1>5 DEF Surjection
  <1> QED BY <1>6, <1>7, <1>8 DEF s, n

\* A sequence that repeats nothing has as many members as positions.
LEMMA CountedOnce ==
  ASSUME NEW S, NEW s \in Seq(S), \A i, j \in 1 .. Len(s) : s[i] = s[j] => i = j
  PROVE  Cardinality({s[i] : i \in 1 .. Len(s)}) = Len(s)
  <1> DEFINE n == Len(s)  T == {s[i] : i \in 1 .. n}
  <1>1. n \in Nat /\ s \in [1 .. n -> T]
    OBVIOUS
  <1>2. s \in Bijection(1 .. n, T)
    <2>1. IsInjective(s)
      BY <1>1 DEF IsInjective
    <2>2. \A t \in T : \E i \in 1 .. n : s[i] = t
      BY Zenon
    <2> HIDE DEF n, T
    <2> QED BY <1>1, <2>1, <2>2 DEF Bijection, Injection, Surjection
  <1> HIDE DEF n, T
  <1>3. Cardinality(T) = n
    BY <1>1, <1>2, FS_CountingElements DEF ExistsBijection
  <1> QED BY <1>3 DEF n, T

---------------------------------------------------------------------------
(* Sums over finite sets                                                   *)

\* Among subsets of a finite set there is one that contains no other.
LEMMA SmallestSet ==
  ASSUME NEW S, IsFiniteSet(S), NEW B \in SUBSET (SUBSET S), B # {}
  PROVE  \E T \in B : \A U \in B : U \subseteq T => U = T
  <1> DEFINE R == StrictSubsetOrdering(S)
  <1>1. B \subseteq FiniteSubsetsOf(S)
    BY FS_FiniteSubsetsOfFinite, Zenon
  <1>2. \A T, U \in SUBSET S : U \subseteq T /\ U # T => <<U, T>> \in R
    BY SMT DEF StrictSubsetOrdering
  <1>3. IsWellFoundedOn(R, FiniteSubsetsOf(S))
    BY FS_StrictSubsetOrderingWellFounded
  <1> HIDE DEF R
  <1>4. PICK T \in B : \A U \in B : <<U, T>> \notin R
    BY <1>1, <1>3, WFMin, Zenon
  <1>5. T \in SUBSET S /\ \A U \in B : U \in SUBSET S
    BY Zenon
  <1> QED BY <1>2, <1>4, <1>5, Zenon

\* The weight of bs, Op(m, b) being that of b.
SumOver(m, bs) == MapThenSumSet(LAMBDA b : Op(m, b), bs)

\* One step of it, and a function that takes every step.
Pick(s) == CHOOSE x \in s : TRUE
SumStep(m, g, s) == IF s = {} THEN 0 ELSE Op(m, Pick(s)) + g[s \ {Pick(s)}]
IsSum(m, bs, g) == g = [s \in SUBSET bs |-> SumStep(m, g, s)]

\* SumOver is what the library's fold chooses, one function on all the
\* subsets.
LEMMA SumIsChosen ==
  ASSUME NEW m, NEW bs
  PROVE  SumOver(m, bs) = (CHOOSE g : IsSum(m, bs, g))[bs]
  BY DEF SumOver, MapThenSumSet, MapThenFoldSet, IsSum, SumStep, Pick

\* The sums of a set are those of its subsets too.
LEMMA SumsShrink ==
  ASSUME NEW m, NEW bs, NEW cs \in SUBSET bs, NEW g, IsSum(m, bs, g)
  PROVE  \E r : IsSum(m, cs, r) /\ r[cs] = g[cs]
  <1> DEFINE r == [s \in SUBSET cs |-> g[s]]
  <1>1. ASSUME NEW s \in SUBSET cs
        PROVE  r[s] = SumStep(m, r, s)
    <2>1. s \in SUBSET bs /\ s \ {Pick(s)} \in SUBSET cs
      OBVIOUS
    <2>2. g[s] = SumStep(m, g, s)
      BY <2>1, Zenon DEF IsSum
    <2>3. r[s] = g[s] /\ r[s \ {Pick(s)}] = g[s \ {Pick(s)}]
      BY <2>1, Zenon
    <2> HIDE DEF r
    <2> QED BY <2>2, <2>3, Zenon DEF SumStep
  <1>2. r[cs] = g[cs] /\ r = [s \in SUBSET cs |-> r[s]]
    BY Zenon
  <1> HIDE DEF r
  <1>3. r = [s \in SUBSET cs |-> SumStep(m, r, s)]
    BY <1>1, <1>2, Zenon
  <1> QED BY <1>2, <1>3, Zenon DEF IsSum

\* Two such functions agree: otherwise they would first differ on a smallest
\* subset, whose sum one step defines.
LEMMA SumsAgree ==
  ASSUME NEW m, NEW bs, IsFiniteSet(bs), NEW f, NEW g, IsSum(m, bs, f), IsSum(m, bs, g)
  PROVE  \A s \in SUBSET bs : f[s] = g[s]
  <1> DEFINE B == {s \in SUBSET bs : f[s] # g[s]}
  <1>a. SUFFICES ASSUME B # {} PROVE FALSE
    BY Zenon
  <1>1. PICK s \in B : \A u \in B : u \subseteq s => u = s
    <2>1. B \in SUBSET (SUBSET bs)
      BY Zenon
    <2> HIDE DEF B
    <2> QED BY <1>a, <2>1, SmallestSet
  <1>2. f[s] = SumStep(m, f, s) /\ g[s] = SumStep(m, g, s)
    BY Zenon DEF IsSum
  <1>3. s # {}
    BY <1>2, Zenon DEF SumStep
  <1>4. Pick(s) \in s
    BY <1>3, Zenon DEF Pick
  <1>5. f[s \ {Pick(s)}] = g[s \ {Pick(s)}]
    <2>1. s \ {Pick(s)} \in SUBSET bs /\ s \ {Pick(s)} \subseteq s /\ s \ {Pick(s)} # s
      BY <1>4
    <2> QED BY <1>1, <2>1, Zenon
  <1> QED BY <1>2, <1>5, Zenon DEF SumStep

\* Such a function exists: otherwise there would be a smallest set without.
LEMMA SumsExist ==
  ASSUME NEW m, NEW bs, IsFiniteSet(bs)
  PROVE  \E g : IsSum(m, bs, g)
  <1> DEFINE B == {s \in SUBSET bs : ~\E g : IsSum(m, s, g)}
  <1>a. SUFFICES ASSUME B # {} PROVE FALSE
    BY Zenon
  <1>1. PICK t \in B : \A u \in B : u \subseteq t => u = t
    <2>1. B \in SUBSET (SUBSET bs)
      BY Zenon
    <2> HIDE DEF B
    <2> QED BY <1>a, <2>1, SmallestSet
  <1> DEFINE V(u) == (CHOOSE g : IsSum(m, u, g))[u]
             f == [s \in SUBSET t |-> IF s = {} THEN 0 ELSE Op(m, Pick(s)) + V(s \ {Pick(s)})]
  <1>2. ASSUME NEW u \in SUBSET t, u # t
        PROVE  V(u) = IF u = {} THEN 0 ELSE Op(m, Pick(u)) + V(u \ {Pick(u)})
    <2>1. PICK g : g = (CHOOSE x : IsSum(m, u, x))
      OBVIOUS
    <2>2. u \in SUBSET bs /\ u \notin B
      BY <1>1, <1>2, Zenon
    <2>3. IsSum(m, u, g)
      BY <2>1, <2>2, Zenon
    <2>4. g[u] = SumStep(m, g, u)
      BY <2>3, Zenon DEF IsSum
    <2>5. CASE u = {}
      BY <2>1, <2>4, <2>5, Zenon DEF SumStep
    <2>6. CASE u # {}
      <3> DEFINE w == u \ {Pick(u)}
      <3>1. Pick(u) \in u
        BY <2>6, Zenon DEF Pick
      <3>2. w \in SUBSET u /\ w \in SUBSET bs /\ w \in SUBSET t /\ w # t
        BY <2>2, <3>1
      <3> HIDE DEF w
      <3>3. PICK k : k = (CHOOSE x : IsSum(m, w, x))
        OBVIOUS
      <3>4. IsSum(m, w, k)
        BY <1>1, <3>2, <3>3, Zenon
      <3>5. PICK l : IsSum(m, w, l) /\ l[w] = g[w]
        <4> HIDE DEF V, f, B
        <4>1. IsSum(m, u, g) /\ w \in SUBSET u
          BY <2>3, <3>2
        <4> QED BY <4>1, SumsShrink
      <3>6. IsFiniteSet(w)
        BY <3>2, FS_Subset, Zenon
      <3>8. k[w] = g[w]
        <4>1. \A s \in SUBSET w : k[s] = l[s]
          BY <3>4, <3>5, <3>6, SumsAgree
        <4> QED BY <3>5, <4>1, Zenon
      <3>9. g[u] = Op(m, Pick(u)) + g[w]
        BY <2>4, <2>6, Zenon DEF SumStep, w
      <3> QED BY <2>1, <2>6, <3>3, <3>8, <3>9, Zenon DEF w
    <2> QED BY <2>5, <2>6, Zenon
  <1>3. ASSUME NEW s \in SUBSET t
        PROVE  f[s] = SumStep(m, f, s)
    <2>1. CASE s = {}
      BY <2>1, Zenon DEF SumStep
    <2>2. CASE s # {}
      <3> DEFINE w == s \ {Pick(s)}
      <3>1. Pick(s) \in s
        BY <2>2, Zenon DEF Pick
      <3>2. w \in SUBSET t /\ w # t
        BY <3>1
      <3>3. f[s] = Op(m, Pick(s)) + V(w)
        BY <2>2, Zenon
      <3>4. V(w) = IF w = {} THEN 0 ELSE Op(m, Pick(w)) + V(w \ {Pick(w)})
        BY <1>2, <3>2, Zenon
      <3>5. f[w] = IF w = {} THEN 0 ELSE Op(m, Pick(w)) + V(w \ {Pick(w)})
        BY <3>2, Zenon
      <3> HIDE DEF f, V
      <3> QED BY <2>2, <3>3, <3>4, <3>5, Zenon DEF SumStep
    <2> QED BY <2>1, <2>2, Zenon
  <1>4. f = [s \in SUBSET t |-> f[s]]
    <2> HIDE DEF V
    <2> QED BY Zenon
  <1> HIDE DEF f
  <1>5. f = [s \in SUBSET t |-> SumStep(m, f, s)]
    BY <1>3, <1>4, Zenon
  <1> QED BY <1>1, <1>5, Zenon DEF IsSum

\* So what the fold chooses is a sum.
LEMMA SumChosen ==
  ASSUME NEW m, NEW bs, IsFiniteSet(bs)
  PROVE  \E g : IsSum(m, bs, g) /\ SumOver(m, bs) = g[bs]
  <1> DEFINE c == CHOOSE g : IsSum(m, bs, g)
  <1>1. \E g : IsSum(m, bs, g)
    BY SumsExist
  <1>2. IsSum(m, bs, c)
    BY <1>1, Zenon
  <1> QED BY <1>2, SumIsChosen, Zenon

\* The sum of nothing, ...
LEMMA SumEmpty ==
  ASSUME NEW m
  PROVE  SumOver(m, {}) = 0
  <1>1. PICK g : IsSum(m, {}, g) /\ SumOver(m, {}) = g[{}]
    BY SumChosen, FS_EmptySet
  <1> QED BY <1>1, Zenon DEF IsSum, SumStep

\* ... the sum of a set from that of the rest, for the element the fold
\* picks, ...
LEMMA SumPick ==
  ASSUME NEW m, NEW bs, IsFiniteSet(bs), bs # {}
  PROVE  SumOver(m, bs) = Op(m, Pick(bs)) + SumOver(m, bs \ {Pick(bs)})
  <1> DEFINE w == bs \ {Pick(bs)}
  <1>1. PICK g : IsSum(m, bs, g) /\ SumOver(m, bs) = g[bs]
    BY SumChosen
  <1>2. w \in SUBSET bs /\ IsFiniteSet(w)
    BY FS_Subset
  <1>3. g[bs] = Op(m, Pick(bs)) + g[w]
    BY <1>1, Zenon DEF IsSum, SumStep
  <1> HIDE DEF w
  <1>4. PICK k : IsSum(m, w, k) /\ SumOver(m, w) = k[w]
    BY <1>2, SumChosen
  <1>5. PICK l : IsSum(m, w, l) /\ l[w] = g[w]
    BY <1>1, <1>2, SumsShrink
  <1>6. \A s \in SUBSET w : k[s] = l[s]
    BY <1>2, <1>4, <1>5, SumsAgree
  <1>7. k[w] = g[w]
    BY <1>5, <1>6, Zenon
  <1> QED BY <1>1, <1>3, <1>4, <1>7, Zenon DEF w

\* ... and its type.
LEMMA SumType ==
  ASSUME NEW m, NEW bs, IsFiniteSet(bs), \A b \in bs : Op(m, b) \in Nat
  PROVE  SumOver(m, bs) \in Nat
  <1> DEFINE B == {s \in SUBSET bs : SumOver(m, s) \notin Nat}
  <1>a. SUFFICES ASSUME B # {} PROVE FALSE
    BY Zenon
  <1>0. B \in SUBSET (SUBSET bs)
    BY Zenon
  <1>1. PICK s \in B : \A u \in B : u \subseteq s => u = s
    <2> HIDE DEF B
    <2> QED BY <1>a, <1>0, SmallestSet
  <1>2. s \in SUBSET bs /\ IsFiniteSet(s) /\ SumOver(m, s) \notin Nat
    <2>1. s \in SUBSET bs /\ SumOver(m, s) \notin Nat
      BY Zenon
    <2> QED BY <2>1, FS_Subset
  <1>3. s # {}
    BY <1>2, SumEmpty
  <1> DEFINE p == Pick(s)  w == s \ {p}
  <1>4. p \in s
    BY <1>3, Zenon DEF Pick
  <1>5. w \in SUBSET bs /\ w # s /\ w \subseteq s
    BY <1>2, <1>4
  <1>6. w \notin B
    <2> HIDE DEF B, w
    <2> QED BY <1>1, <1>5, Zenon
  <1>7. SumOver(m, w) \in Nat
    BY <1>5, <1>6, Zenon
  <1>8. SumOver(m, s) = Op(m, p) + SumOver(m, w)
    BY <1>2, <1>3, SumPick
  <1>9. Op(m, p) \in Nat
    BY <1>2, <1>4
  <1> HIDE DEF B, w, p
  <1> QED BY <1>2, <1>7, <1>8, <1>9, SMT

\* The sum of a set from that of the rest, for any element: the order in
\* which the fold goes does not matter.
LEMMA SumLess ==
  ASSUME NEW m, NEW bs, IsFiniteSet(bs), \A b \in bs : Op(m, b) \in Nat, NEW x \in bs
  PROVE  SumOver(m, bs) = Op(m, x) + SumOver(m, bs \ {x})
  <1> DEFINE Bad(s) == \E y \in s : SumOver(m, s) # Op(m, y) + SumOver(m, s \ {y})
             B == {s \in SUBSET bs : Bad(s)}
  <1>b. SUFFICES B = {}
    BY Zenon
  <1>a. SUFFICES ASSUME B # {} PROVE FALSE
    BY Zenon
  <1>0. B \in SUBSET (SUBSET bs)
    BY Zenon
  <1>1. PICK s \in B : \A u \in B : u \subseteq s => u = s
    <2> HIDE DEF B
    <2> QED BY <1>a, <1>0, SmallestSet
  <1>2. s \in SUBSET bs /\ IsFiniteSet(s) /\ Bad(s)
    <2>1. s \in SUBSET bs /\ Bad(s)
      BY Zenon
    <2> QED BY <2>1, FS_Subset, Zenon
  <1>3. PICK y \in s : SumOver(m, s) # Op(m, y) + SumOver(m, s \ {y})
    BY <1>2, Zenon
  <1> DEFINE p == Pick(s)
  <1>4. p \in s
    BY <1>3, Zenon DEF Pick
  <1>5. SumOver(m, s) = Op(m, p) + SumOver(m, s \ {p})
    BY <1>2, <1>3, SumPick
  <1> HIDE DEF p
  <1>6. p # y
    BY <1>3, <1>5, Zenon
  <1>7. \A u \in SUBSET s : u # s => \A z \in u : SumOver(m, u) = Op(m, z) + SumOver(m, u \ {z})
    <2>1. SUFFICES ASSUME NEW u \in SUBSET s, u # s PROVE ~Bad(u)
      BY Zenon
    <2>2. u \notin B /\ u \in SUBSET bs
      <3> HIDE DEF B
      <3> QED BY <1>1, <1>2, <2>1, Zenon
    <2> HIDE DEF Bad
    <2> QED BY <2>2, Zenon
  <1>8. SumOver(m, s \ {p}) = Op(m, y) + SumOver(m, (s \ {p}) \ {y})
    <2>1. s \ {p} \in SUBSET s /\ s \ {p} # s /\ y \in s \ {p}
      BY <1>4, <1>6
    <2> QED BY <1>7, <2>1, Zenon
  <1>9. SumOver(m, s \ {y}) = Op(m, p) + SumOver(m, (s \ {p}) \ {y})
    <2>1. s \ {y} \in SUBSET s /\ s \ {y} # s /\ p \in s \ {y}
      BY <1>4, <1>6
    <2>2. (s \ {y}) \ {p} = (s \ {p}) \ {y}
      OBVIOUS
    <2>3. SumOver(m, s \ {y}) = Op(m, p) + SumOver(m, (s \ {y}) \ {p})
      BY <1>7, <2>1, Zenon
    <2> QED BY <2>2, <2>3
  <1>10. SumOver(m, (s \ {p}) \ {y}) \in Nat
    <2>1. IsFiniteSet((s \ {p}) \ {y}) /\ (s \ {p}) \ {y} \subseteq bs
      BY <1>2, FS_Subset
    <2> QED BY <2>1, SumType
  <1>11. Op(m, p) \in Nat /\ Op(m, y) \in Nat
    BY <1>2, <1>3, <1>4
  <1> HIDE DEF B, Bad
  <1> QED BY <1>3, <1>5, <1>8, <1>9, <1>10, <1>11, SMT

\* It depends on the sizes only.
LEMMA SumSame ==
  ASSUME NEW m, NEW k, NEW bs, IsFiniteSet(bs), \A b \in bs : Op(m, b) = Op(k, b)
  PROVE  SumOver(m, bs) = SumOver(k, bs)
  <1> DEFINE B == {s \in SUBSET bs : SumOver(m, s) # SumOver(k, s)}
  <1>a. SUFFICES ASSUME B # {} PROVE FALSE
    BY Zenon
  <1>0. B \in SUBSET (SUBSET bs)
    BY Zenon
  <1>1. PICK s \in B : \A u \in B : u \subseteq s => u = s
    <2> HIDE DEF B
    <2> QED BY <1>a, <1>0, SmallestSet
  <1>2. s \in SUBSET bs /\ IsFiniteSet(s) /\ SumOver(m, s) # SumOver(k, s)
    <2>1. s \in SUBSET bs /\ SumOver(m, s) # SumOver(k, s)
      BY Zenon
    <2> QED BY <2>1, FS_Subset
  <1>3. s # {}
    BY <1>2, SumEmpty
  <1> DEFINE p == Pick(s)  w == s \ {p}
  <1>4. p \in s
    BY <1>3, Zenon DEF Pick
  <1>5. w \in SUBSET bs /\ w # s /\ w \subseteq s
    BY <1>2, <1>4
  <1>6. w \notin B
    <2> HIDE DEF B, w
    <2> QED BY <1>1, <1>5, Zenon
  <1>7. SumOver(m, w) = SumOver(k, w)
    BY <1>5, <1>6, Zenon
  <1>8. SumOver(m, s) = Op(m, p) + SumOver(m, w) /\ SumOver(k, s) = Op(k, p) + SumOver(k, w)
    BY <1>2, <1>3, SumPick
  <1>9. Op(m, p) = Op(k, p)
    BY <1>2, <1>4
  <1> HIDE DEF B, w, p
  <1> QED BY <1>2, <1>7, <1>8, <1>9, Zenon

\* It adds up over a part and the rest.
LEMMA SumUnion ==
  ASSUME NEW m, NEW bs, IsFiniteSet(bs), \A b \in bs : Op(m, b) \in Nat,
         NEW cs \in SUBSET bs
  PROVE  SumOver(m, bs) = SumOver(m, cs) + SumOver(m, bs \ cs)
  <1> DEFINE B == {s \in SUBSET cs : SumOver(m, bs) # SumOver(m, s) + SumOver(m, bs \ s)}
  <1>f. IsFiniteSet(cs)
    BY FS_Subset
  <1>b. SUFFICES B = {}
    BY Zenon
  <1>a. SUFFICES ASSUME B # {} PROVE FALSE
    BY Zenon
  <1>0. B \in SUBSET (SUBSET cs)
    BY Zenon
  <1>1. PICK s \in B : \A u \in B : u \subseteq s => u = s
    <2> HIDE DEF B
    <2> QED BY <1>a, <1>0, <1>f, SmallestSet
  <1>2. s \in SUBSET cs /\ SumOver(m, bs) # SumOver(m, s) + SumOver(m, bs \ s)
    BY Zenon
  <1>3. \A u \in SUBSET bs : IsFiniteSet(u) /\ (\A b \in u : Op(m, b) \in Nat) /\ SumOver(m, u) \in Nat
    BY FS_Subset, SumType
  <1>4. CASE s = {}
    <2>1. bs \ {} = bs
      OBVIOUS
    <2>2. SumOver(m, bs) \in Nat
      BY <1>3
    <2> HIDE DEF B
    <2> QED BY <1>2, <1>4, <2>1, <2>2, SumEmpty, SMT
  <1>5. CASE s # {}
    <2>1. PICK x \in s : TRUE
      BY <1>5
    <2> DEFINE w == s \ {x}
    <2>2. w \in SUBSET cs /\ w # s /\ w \subseteq s /\ s \in SUBSET bs /\ w \in SUBSET bs
      BY <1>2, <2>1
    <2>3. w \notin B
      <3> HIDE DEF B, w
      <3> QED BY <1>1, <2>2, Zenon
    <2>4. SumOver(m, bs) = SumOver(m, w) + SumOver(m, bs \ w)
      BY <2>2, <2>3, Zenon
    <2>5. SumOver(m, s) = Op(m, x) + SumOver(m, w)
      BY <1>3, <2>1, <2>2, SumLess
    <2>6. SumOver(m, bs \ w) = Op(m, x) + SumOver(m, bs \ s)
      <3>1. bs \ w \in SUBSET bs /\ x \in bs \ w /\ (bs \ w) \ {x} = bs \ s
        BY <2>1, <2>2
      <3> HIDE DEF w
      <3> QED BY <1>3, <3>1, SumLess
    <2>7. Op(m, x) \in Nat /\ SumOver(m, w) \in Nat /\ SumOver(m, bs \ s) \in Nat
      <3>1. bs \ s \in SUBSET bs
        OBVIOUS
      <3> QED BY <1>3, <2>1, <2>2, <3>1
    <2> HIDE DEF B, w
    <2> QED BY <1>2, <2>4, <2>5, <2>6, <2>7, SMT
  <1> QED BY <1>4, <1>5, Zenon

\* A part does not weigh more than the whole.
LEMMA SumPart ==
  ASSUME NEW m, NEW bs, IsFiniteSet(bs), \A b \in bs : Op(m, b) \in Nat, NEW cs \in SUBSET bs
  PROVE  SumOver(m, cs) <= SumOver(m, bs)
  <1>1. SumOver(m, bs) = SumOver(m, cs) + SumOver(m, bs \ cs)
    BY SumUnion
  <1>2. \A u \in SUBSET bs : SumOver(m, u) \in Nat
    BY FS_Subset, SumType
  <1>3. SumOver(m, cs) \in Nat /\ SumOver(m, bs \ cs) \in Nat
    BY <1>2
  <1> QED BY <1>1, <1>3, SMT

\* Weights that add up have sums that do.
LEMMA SumAdds ==
  ASSUME NEW m, NEW k, NEW l, NEW bs, IsFiniteSet(bs),
         \A b \in bs : Op(k, b) \in Nat /\ Op(l, b) \in Nat /\ Op(m, b) = Op(k, b) + Op(l, b)
  PROVE  SumOver(m, bs) = SumOver(k, bs) + SumOver(l, bs)
  <1> DEFINE B == {s \in SUBSET bs : SumOver(m, s) # SumOver(k, s) + SumOver(l, s)}
  <1>a. SUFFICES ASSUME B # {} PROVE FALSE
    BY Zenon
  <1>0. B \in SUBSET (SUBSET bs)
    BY Zenon
  <1>1. PICK s \in B : \A u \in B : u \subseteq s => u = s
    <2> HIDE DEF B
    <2> QED BY <1>a, <1>0, SmallestSet
  <1>2. s \in SUBSET bs /\ IsFiniteSet(s) /\ SumOver(m, s) # SumOver(k, s) + SumOver(l, s)
    <2>1. s \in SUBSET bs /\ SumOver(m, s) # SumOver(k, s) + SumOver(l, s)
      BY Zenon
    <2> QED BY <2>1, FS_Subset
  <1>3. s # {}
    <2>1. SumOver(m, {}) = 0 /\ SumOver(k, {}) = 0 /\ SumOver(l, {}) = 0 /\ 0 + 0 = 0
      BY SumEmpty
    <2> QED BY <1>2, <2>1, Zenon
  <1> DEFINE p == Pick(s)  w == s \ {p}
  <1>4. p \in s
    BY <1>3, Zenon DEF Pick
  <1>5. w \in SUBSET bs /\ w # s /\ w \subseteq s
    BY <1>2, <1>4
  <1>6. w \notin B
    <2> HIDE DEF B, w
    <2> QED BY <1>1, <1>5, Zenon
  <1>7. SumOver(m, w) = SumOver(k, w) + SumOver(l, w)
    BY <1>5, <1>6, Zenon
  <1>8. /\ SumOver(m, s) = Op(m, p) + SumOver(m, w)
        /\ SumOver(k, s) = Op(k, p) + SumOver(k, w)
        /\ SumOver(l, s) = Op(l, p) + SumOver(l, w)
    BY <1>2, <1>3, SumPick
  <1>9. Op(k, p) \in Nat /\ Op(l, p) \in Nat /\ Op(m, p) = Op(k, p) + Op(l, p)
    BY <1>2, <1>4
  <1>10. SumOver(k, w) \in Nat /\ SumOver(l, w) \in Nat
    <2>1. IsFiniteSet(w) /\ \A b \in w : Op(k, b) \in Nat /\ Op(l, b) \in Nat
      BY <1>5, FS_Subset
    <2> HIDE DEF w
    <2> QED BY <2>1, SumType
  <1> HIDE DEF B, w, p
  <1> QED BY <1>2, <1>7, <1>8, <1>9, <1>10, SMT
=============================================================================
