------------------------------ MODULE BkLemmas ------------------------------
(***************************************************************************)
(* Lemmas about the operators that BkMalloc is built from: sums of block   *)
(* sizes and lists with blocks unlinked, which the model takes from the    *)
(* library's folds, and what taking and dropping a slot, a chunk or bump   *)
(* memory does to the counts of a block. A list with blocks unlinked is a  *)
(* CHOOSE of a function defined step by step; what it is is proved here by *)
(* looking at a smallest number for which it would be wrong.               *)
(***************************************************************************)
EXTENDS BkProps, FiniteSetTheorems, WellFoundedInduction, SequenceTheorems, TLAPS

\* The law that defines quotient and remainder of the integers.
LEMMA Division == \A x, m \in Int : m > 0 => x = (x \div m) * m + (x % m)
  BY SMT

\* Quotient and remainder of a natural number.
LEMMA DivMod ==
  ASSUME NEW x \in Nat, NEW m \in Nat \ {0}
  PROVE  /\ x \div m \in Nat /\ x % m \in 0 .. m - 1
         /\ x = (x \div m) * m + (x % m)
  <1>1. x \div m \in Int /\ x % m \in 0 .. m - 1
    BY SMT
  <1>2. x \in Int /\ m \in Int /\ m > 0
    BY SMT
  <1>3. x = (x \div m) * m + (x % m)
    BY Division, <1>2, Zenon
  <1>4. ASSUME NEW d \in Int, NEW r \in 0 .. m - 1, x = d * m + r, d < 0
        PROVE  FALSE
    <2>1. d * m <= (-1) * m
      BY <1>4, SMT
    <2> QED BY <1>4, <2>1, SMT
  <1> QED BY <1>1, <1>3, <1>4, SMT

\* They are the only ones.
LEMMA DivUnique ==
  ASSUME NEW m \in Nat \ {0}, NEW q \in Nat, NEW r \in 0 .. m - 1
  PROVE  (q * m + r) \div m = q /\ (q * m + r) % m = r
  <1> DEFINE x == q * m + r
  <1>0. x \in Nat
    BY SMT
  <1> HIDE DEF x
  <1>1. x = (x \div m) * m + (x % m) /\ x \div m \in Nat /\ x % m \in 0 .. m - 1
    BY <1>0, DivMod, Zenon
  <1>2. (x \div m) = q
    <2>1. CASE x \div m < q
      BY <1>0, <1>1, <2>1, SMT DEF x
    <2>2. CASE x \div m > q
      BY <1>0, <1>1, <2>2, SMT DEF x
    <2> QED BY <1>0, <1>1, <2>1, <2>2, SMT
  <1>3. x % m = r
    BY <1>0, <1>1, <1>2, SMT DEF x
  <1> QED BY <1>2, <1>3 DEF x

\* Aligning up gives a larger address: bkmalloc.h:206 adds al - x % al.
LEMMA AlignedUp ==
  ASSUME NEW x \in Nat, NEW al \in Nat \ {0}
  PROVE  AlignUp(x, al) \in Nat /\ x < AlignUp(x, al)
  BY DivMod, SMT DEF AlignUp

\* A set of naturals has a least element: the induction of this module.
LEMMA SmallestNat ==
  ASSUME NEW B \in SUBSET Nat, B # {}
  PROVE  \E n \in B : \A m \in B : n <= m
  <1> DEFINE R == OpToRel(<, Nat)
  <1>1. IsWellFoundedOn(R, Nat)
    BY NatLessThanWellFounded
  <1>2. \A x, y \in Nat : x < y => <<x, y>> \in R
    BY Zenon DEF OpToRel
  <1> HIDE DEF R
  <1>3. PICK n \in B : \A m \in B : <<m, n>> \notin R
    BY <1>1, WFMin, Zenon
  <1>4. \A m \in B : ~(m < n)
    BY <1>2, <1>3, Zenon
  <1> QED BY <1>4, SMT

\* Min of the library is that element.
LEMMA MinIsLeast ==
  ASSUME NEW S \in SUBSET Nat, S # {}
  PROVE  Min(S) \in S /\ \A y \in S : Min(S) <= y
  BY SmallestNat DEF Min

\* Max of a bounded set is one of it.
LEMMA MaxIsIn ==
  ASSUME NEW n \in Nat, NEW S \in SUBSET (0 .. n), S # {}
  PROVE  Max(S) \in S
  <1> DEFINE B == {n - i : i \in S}
  <1>0. B \in SUBSET Nat /\ B # {}
    <2>1. \A i \in S : n - i \in Nat
      BY SMT
    <2> QED BY <2>1, Zenon
  <1>1. PICK m \in B : \A k \in B : m <= k
    BY <1>0, SmallestNat, Zenon
  <1>2. PICK i \in S : m = n - i
    BY <1>1
  <1>3. \A j \in S : i >= j
    BY <1>1, <1>2, SMT
  <1> QED BY <1>3 DEF Max

---------------------------------------------------------------------------
(* Sums of the sizes in a table                                            *)

SumOver(m, bs) == MapThenSumSet(LAMBDA b : m[b].size, bs)

SizeIn(m, b) == m[b].size
Weighing == INSTANCE FoldLaws WITH Op <- SizeIn

LEMMA SumOverIs == ASSUME NEW m, NEW bs PROVE SumOver(m, bs) = Weighing!SumOver(m, bs)
  BY DEF SumOver, MapThenSumSet, MapThenFoldSet, SizeIn,
         Weighing!SumOver, Weighing!MapThenSumSet, Weighing!MapThenFoldSet

LEMMA WeighsFinite == ASSUME NEW S PROVE IsFiniteSet(S) <=> Weighing!IsFiniteSet(S)
  BY DEF IsFiniteSet, Weighing!IsFiniteSet

\* The sum of nothing, ...
LEMMA SumEmpty ==
  ASSUME NEW m
  PROVE  SumOver(m, {}) = 0
  BY SumOverIs, Weighing!SumEmpty, Zenon

\* ... its type, ...
LEMMA SumType ==
  ASSUME NEW m, NEW bs, IsFiniteSet(bs), \A b \in bs : m[b].size \in Nat
  PROVE  SumOver(m, bs) \in Nat
  BY SumOverIs, WeighsFinite, Weighing!SumType, Zenon DEF SizeIn

\* ... the sum of a set from that of all but one of its elements, ...
LEMMA SumLess ==
  ASSUME NEW m, NEW bs, IsFiniteSet(bs), \A b \in bs : m[b].size \in Nat, NEW x \in bs
  PROVE  SumOver(m, bs) = m[x].size + SumOver(m, bs \ {x})
  <1>1. Weighing!IsFiniteSet(bs) /\ \A b \in bs : SizeIn(m, b) \in Nat
    BY WeighsFinite, Zenon DEF SizeIn
  <1>2. Weighing!SumOver(m, bs) = SizeIn(m, x) + Weighing!SumOver(m, bs \ {x})
    BY <1>1, Weighing!SumLess
  <1> QED BY <1>2, SumOverIs, Zenon DEF SizeIn

\* ... and sums of the same sizes.
LEMMA SumSame ==
  ASSUME NEW m, NEW k, NEW bs, IsFiniteSet(bs), \A b \in bs : m[b].size = k[b].size
  PROVE  SumOver(m, bs) = SumOver(k, bs)
  BY SumOverIs, WeighsFinite, Weighing!SumSame, Zenon DEF SizeIn

\* It adds up over a part and the rest.
LEMMA SumUnion ==
  ASSUME NEW m, NEW bs, IsFiniteSet(bs), \A b \in bs : m[b].size \in Nat,
         NEW cs \in SUBSET bs
  PROVE  SumOver(m, bs) = SumOver(m, cs) + SumOver(m, bs \ cs)
  <1>1. Weighing!IsFiniteSet(bs) /\ \A b \in bs : SizeIn(m, b) \in Nat
    BY WeighsFinite, Zenon DEF SizeIn
  <1>2. Weighing!SumOver(m, bs) = Weighing!SumOver(m, cs) + Weighing!SumOver(m, bs \ cs)
    BY <1>1, Weighing!SumUnion
  <1> QED BY <1>2, SumOverIs, Zenon

\* The elements of a sequence.
LEMMA OfRange ==
  ASSUME NEW S, NEW s \in Seq(S), NEW x
  PROVE  x \in Range(s) <=> \E i \in 1 .. Len(s) : s[i] = x
  BY DEF Range

\* They are of the set the sequence is over.
LEMMA RangeIn ==
  ASSUME NEW S, NEW s \in Seq(S)
  PROVE  Range(s) \subseteq S
  BY DEF Range

\* An empty list.
LEMMA EmptySeqFacts ==
  /\ IsInjective(<<>>) /\ Range(<<>>) = {}
  /\ \A S : <<>> \in Seq(S)
  BY DEF IsInjective, Range

\* Adding a block at the head of a list, ...
LEMMA ConsFacts ==
  ASSUME NEW S, NEW s \in Seq(S), NEW x \in S, x \notin Range(s), IsInjective(s)
  PROVE  /\ <<x>> \o s \in Seq(S) /\ IsInjective(<<x>> \o s)
         /\ Range(<<x>> \o s) = {x} \cup Range(s)
  <1> DEFINE r == <<x>> \o s
  <1>1. r \in Seq(S) /\ Len(r) = Len(s) + 1 /\ \A i \in 1 .. Len(r) : r[i] = IF i = 1 THEN x ELSE s[i - 1]
    OBVIOUS
  <1> HIDE DEF r
  <1>2. \A i \in 1 .. Len(s) : s[i] # x
    BY OfRange
  <1>3. Range(r) = {x} \cup Range(s)
    <2>1. ASSUME NEW y \in Range(r) PROVE y \in {x} \cup Range(s)
      BY <1>1, <2>1, OfRange
    <2>2. ASSUME NEW y \in Range(s) PROVE y \in Range(r)
      <3>1. PICK i \in 1 .. Len(s) : s[i] = y
        BY OfRange
      <3>2. i + 1 \in 1 .. Len(r) /\ r[i + 1] = y
        BY <1>1, <3>1
      <3> QED BY <1>1, <3>2, OfRange
    <2>3. x \in Range(r)
      <3>1. 1 \in 1 .. Len(r) /\ r[1] = x
        BY <1>1
      <3> QED BY <1>1, <3>1, OfRange
    <2> QED BY <2>1, <2>2, <2>3
  <1>4. IsInjective(r)
    BY <1>1, <1>2 DEF IsInjective
  <1> QED BY <1>1, <1>3, <1>4 DEF r

\* ... and at its end.
LEMMA AppendFacts ==
  ASSUME NEW S, NEW s \in Seq(S), NEW x \in S, x \notin Range(s), IsInjective(s)
  PROVE  /\ Append(s, x) \in Seq(S) /\ IsInjective(Append(s, x))
         /\ Range(Append(s, x)) = Range(s) \cup {x}
  <1> DEFINE r == Append(s, x)
  <1>1. r \in Seq(S) /\ Len(r) = Len(s) + 1 /\ \A i \in 1 .. Len(r) : r[i] = IF i = Len(s) + 1 THEN x ELSE s[i]
    OBVIOUS
  <1> HIDE DEF r
  <1>2. \A i \in 1 .. Len(s) : s[i] # x
    BY OfRange
  <1>3. Range(r) = Range(s) \cup {x}
    <2>1. ASSUME NEW y \in Range(r) PROVE y \in {x} \cup Range(s)
      BY <1>1, <2>1, OfRange
    <2>2. ASSUME NEW y \in Range(s) PROVE y \in Range(r)
      <3>1. PICK i \in 1 .. Len(s) : s[i] = y
        BY OfRange
      <3>2. i \in 1 .. Len(r) /\ r[i] = y
        BY <1>1, <3>1
      <3> QED BY <1>1, <3>2, OfRange
    <2>3. x \in Range(r)
      <3>1. Len(r) \in 1 .. Len(r) /\ r[Len(r)] = x
        BY <1>1
      <3> QED BY <1>1, <3>1, OfRange
    <2> QED BY <2>1, <2>2, <2>3
  <1>4. IsInjective(r)
    BY <1>1, <1>2 DEF IsInjective
  <1> QED BY <1>1, <1>3, <1>4 DEF r

\* The front of a list.
LEMMA PrefixFacts ==
  ASSUME NEW S, NEW s \in Seq(S), NEW n \in 0 .. Len(s), IsInjective(s)
  PROVE  /\ SubSeq(s, 1, n) \in Seq(S) /\ IsInjective(SubSeq(s, 1, n))
         /\ Range(SubSeq(s, 1, n)) \subseteq Range(s)
  <1> DEFINE r == SubSeq(s, 1, n)
  <1>1. r \in Seq(S) /\ Len(r) = n /\ \A i \in 1 .. n : r[i] = s[i]
    OBVIOUS
  <1> HIDE DEF r
  <1>2. IsInjective(r)
    BY <1>1 DEF IsInjective
  <1>3. ASSUME NEW y \in Range(r) PROVE y \in Range(s)
    BY <1>1, <1>3, OfRange
  <1> QED BY <1>1, <1>2, <1>3 DEF r

\* Unlinking one block of a list.
LEMMA RemoveAtFacts ==
  ASSUME NEW S, NEW s \in Seq(S), NEW i \in 1 .. Len(s), IsInjective(s)
  PROVE  /\ RemoveAt(s, i) \in Seq(S) /\ IsInjective(RemoveAt(s, i))
         /\ Range(RemoveAt(s, i)) = Range(s) \ {s[i]}
  <1> DEFINE r == RemoveAt(s, i)
  <1>1. /\ r \in Seq(S) /\ Len(r) = Len(s) - 1
        /\ \A j \in 1 .. Len(r) : r[j] = IF j < i THEN s[j] ELSE s[j + 1]
    <2> DEFINE a == SubSeq(s, 1, i - 1)  b == SubSeq(s, i + 1, Len(s))
    <2>1. a \in Seq(S) /\ Len(a) = i - 1 /\ \A j \in 1 .. i - 1 : a[j] = s[j]
      BY SubSeqProperties
    <2>2. b \in Seq(S) /\ Len(b) = Len(s) - i /\ \A j \in 1 .. Len(s) - i : b[j] = s[i + j]
      <3>1. CASE i = Len(s)
        BY <3>1
      <3>2. CASE i < Len(s)
        BY <3>2, SubSeqProperties
      <3> QED BY <3>1, <3>2
    <2>3. r = a \o b
      BY DEF RemoveAt
    <2> HIDE DEF a, b, r
    <2>4. /\ r \in Seq(S) /\ Len(r) = Len(a) + Len(b)
          /\ \A j \in 1 .. Len(a) + Len(b) : r[j] = IF j <= Len(a) THEN a[j] ELSE b[j - Len(a)]
      BY <2>1, <2>2, <2>3, ConcatProperties
    <2>5. Len(r) = Len(s) - 1
      BY <2>1, <2>2, <2>4
    <2>6. ASSUME NEW j \in 1 .. Len(r)
          PROVE  r[j] = IF j < i THEN s[j] ELSE s[j + 1]
      <3>1. CASE j < i
        BY <2>1, <2>4, <2>5, <3>1
      <3>2. CASE j >= i
        <4>1. r[j] = b[j - Len(a)] /\ j - Len(a) \in 1 .. Len(s) - i
          BY <2>1, <2>4, <2>5, <3>2
        <4>2. b[j - Len(a)] = s[i + (j - Len(a))]
          BY <2>2, <4>1
        <4>3. i + (j - Len(a)) = j + 1
          BY <2>1
        <4> QED BY <3>2, <4>1, <4>2, <4>3
      <3> QED BY <3>1, <3>2
    <2> QED BY <2>4, <2>5, <2>6
  <1> HIDE DEF r
  <1>2. IsInjective(r)
    BY <1>1 DEF IsInjective
  <1>3. Range(r) = Range(s) \ {s[i]}
    <2>1. ASSUME NEW y \in Range(r) PROVE y \in Range(s) \ {s[i]}
      <3>1. PICK j \in 1 .. Len(r) : r[j] = y
        BY <1>1, OfRange
      <3>2. PICK k \in 1 .. Len(s) : s[k] = y /\ k # i
        BY <1>1, <3>1
      <3>3. y \in Range(s)
        BY <3>2, OfRange
      <3>4. y # s[i]
        BY <3>2 DEF IsInjective
      <3> QED BY <3>3, <3>4
    <2>2. ASSUME NEW y \in Range(s), y # s[i] PROVE y \in Range(r)
      <3>1. PICK j \in 1 .. Len(s) : s[j] = y
        BY OfRange
      <3>2. j # i
        BY <2>2, <3>1
      <3>3. \E k \in 1 .. Len(r) : r[k] = y
        <4>1. CASE j < i
          BY <1>1, <3>1, <4>1
        <4>2. CASE j > i
          <5>1. j - 1 \in 1 .. Len(r) /\ r[j - 1] = y
            BY <1>1, <3>1, <4>2
          <5> QED BY <5>1
        <4> QED BY <3>2, <4>1, <4>2
      <3> QED BY <1>1, <3>3, OfRange
    <2> QED BY <2>1, <2>2
  <1> QED BY <1>1, <1>2, <1>3 DEF r

LeftStep(s, bs, l, i) ==
  IF i = 0 THEN <<>> ELSE IF s[i] \in bs THEN l[i - 1] ELSE Append(l[i - 1], s[i])
IsLeft(s, bs, n, l) == l = [i \in 0 .. n |-> LeftStep(s, bs, l, i)]

\* Without is what the fold chooses, one function on the lengths.
LEMMA WithoutChosen ==
  ASSUME NEW s, NEW bs
  PROVE  Without(s, bs) = (CHOOSE l : IsLeft(s, bs, Len(s), l))[Len(s)]
  BY DEF Without, IsLeft, LeftStep

\* Such a function exists for every length.
LEMMA LeftExists ==
  ASSUME NEW s, NEW bs, NEW n \in Nat
  PROVE  \E l : IsLeft(s, bs, n, l)
  <1> DEFINE B == {k \in Nat : ~\E l : IsLeft(s, bs, k, l)}
  <1>a. SUFFICES ASSUME B # {} PROVE FALSE
    BY Zenon
  <1>0. B \in SUBSET Nat
    BY Zenon
  <1>1. PICK k \in B : \A j \in B : k <= j
    <2> HIDE DEF B
    <2> QED BY <1>a, <1>0, SmallestNat
  <1>2. k \in Nat /\ ~\E l : IsLeft(s, bs, k, l)
    BY Zenon
  <1>3. CASE k = 0
    <2> DEFINE l == [i \in 0 .. 0 |-> <<>>]
    <2>1. \A i \in 0 .. 0 : LeftStep(s, bs, l, i) = <<>>
      BY DEF LeftStep
    <2>2. IsLeft(s, bs, 0, l)
      BY <2>1 DEF IsLeft
    <2> HIDE DEF l
    <2> QED BY <1>2, <1>3, <2>2
  <1>4. CASE k # 0
    <2>1. k - 1 \in Nat /\ k - 1 \notin B
      <3>1. k - 1 \in Nat /\ ~(k <= k - 1)
        BY <1>2, <1>4, SMT
      <3> HIDE DEF B
      <3> QED BY <1>1, <3>1, Zenon
    <2>2. PICK g : IsLeft(s, bs, k - 1, g)
      BY <2>1, Zenon
    <2> DEFINE f == [i \in 0 .. k |-> IF i = k THEN LeftStep(s, bs, g, k) ELSE g[i]]
    <2>3. ASSUME NEW i \in 0 .. k PROVE f[i] = LeftStep(s, bs, f, i)
      <3>1. \A j \in 0 .. k - 1 : f[j] = g[j] /\ g[j] = LeftStep(s, bs, g, j)
        <4>1. \A j \in 0 .. k - 1 : j \in 0 .. k /\ j # k
          BY <1>2, SMT
        <4>2. \A j \in 0 .. k - 1 : g[j] = LeftStep(s, bs, g, j)
          BY <2>2, Zenon DEF IsLeft
        <4> QED BY <4>1, <4>2, Zenon
      <3>2. f[k] = LeftStep(s, bs, g, k)
        <4>1. k \in 0 .. k
          BY <1>2, SMT
        <4> QED BY <4>1, Zenon
      <3>3. f[i] = LeftStep(s, bs, g, i)
        <4>1. i = k \/ i \in 0 .. k - 1
          BY <1>2, SMT
        <4> HIDE DEF f
        <4> QED BY <3>1, <3>2, <4>1, Zenon
      <3>4. i = 0 \/ (i - 1 \in 0 .. k - 1 /\ f[i - 1] = g[i - 1])
        <4>1. i = 0 \/ i - 1 \in 0 .. k - 1
          BY <1>2, SMT
        <4> HIDE DEF f
        <4> QED BY <3>1, <4>1, Zenon
      <3> HIDE DEF f
      <3> QED BY <3>3, <3>4, Zenon DEF LeftStep
    <2>4. f = [i \in 0 .. k |-> f[i]]
      BY Zenon
    <2> HIDE DEF f
    <2>5. f = [i \in 0 .. k |-> LeftStep(s, bs, f, i)]
      BY <2>3, <2>4, Zenon
    <2> QED BY <1>2, <2>5, Zenon DEF IsLeft
  <1> QED BY <1>3, <1>4, Zenon

\* What is left of a list when blocks are unlinked from it.
LEMMA WithoutFacts ==
  ASSUME NEW S, NEW s \in Seq(S), NEW bs, IsInjective(s)
  PROVE  /\ Without(s, bs) \in Seq(S) /\ IsInjective(Without(s, bs))
         /\ Range(Without(s, bs)) = Range(s) \ bs
  <1> DEFINE n == Len(s)
  <1>n. n \in Nat
    OBVIOUS
  <1>1. PICK l : IsLeft(s, bs, n, l) /\ Without(s, bs) = l[n]
    <2> DEFINE c == CHOOSE x : IsLeft(s, bs, n, x)
    <2>1. \E x : IsLeft(s, bs, n, x)
      BY <1>n, LeftExists
    <2>2. IsLeft(s, bs, n, c)
      BY <2>1, Zenon
    <2> QED BY <2>2, WithoutChosen, Zenon
  <1> DEFINE First(i) == {s[j] : j \in 1 .. i}
             Good(i) == l[i] \in Seq(S) /\ IsInjective(l[i]) /\ Range(l[i]) = First(i) \ bs
             B == {i \in 0 .. n : ~Good(i)}
  <1>2. SUFFICES B = {}
    <2>1. n \in 0 .. n
      BY <1>n
    <2>2. Good(n)
      BY <1>2, <2>1, Zenon
    <2>3. Range(s) = First(n)
      BY DEF Range
    <2> QED BY <1>1, <2>2, <2>3, Zenon
  <1>a. SUFFICES ASSUME B # {} PROVE FALSE
    BY Zenon
  <1>0. B \in SUBSET Nat
    <2>1. \A i \in 0 .. n : i \in Nat
      BY <1>n
    <2> QED BY <2>1, Zenon
  <1>3. PICK k \in B : \A j \in B : k <= j
    <2> HIDE DEF B
    <2> QED BY <1>a, <1>0, SmallestNat
  <1>4. k \in 0 .. n /\ ~Good(k)
    BY Zenon
  <1>5. l[k] = LeftStep(s, bs, l, k)
    BY <1>1, <1>4, Zenon DEF IsLeft
  <1>6. CASE k = 0
    <2>1. l[k] = <<>>
      BY <1>5, <1>6, Zenon DEF LeftStep
    <2>2. First(0) = {}
      OBVIOUS
    <2> HIDE DEF First
    <2>3. Good(k)
      BY <1>6, <2>1, <2>2, EmptySeqFacts
    <2> QED BY <1>4, <2>3, Zenon
  <1>7. CASE k # 0
    <2>1. k - 1 \in 0 .. n /\ k \in 1 .. n
      BY <1>n, <1>4, <1>7
    <2>2. k - 1 \notin B
      <3>1. ~(k <= k - 1)
        BY <1>4
      <3> HIDE DEF B
      <3> QED BY <1>3, <3>1, Zenon
    <2>3. Good(k - 1)
      BY <2>1, <2>2, Zenon
    <2>4. First(k) = First(k - 1) \cup {s[k]}
      <3>1. \A j : j \in 1 .. k <=> j \in 1 .. k - 1 \/ j = k
        BY <2>1
      <3> QED BY <3>1, Zenon
    <2>5. s[k] \notin First(k - 1) /\ s[k] \in S
      <3>1. \A j \in 1 .. k - 1 : s[j] # s[k]
        BY <2>1 DEF IsInjective
      <3> QED BY <2>1, <3>1
    <2> HIDE DEF First, B
    <2>6. CASE s[k] \in bs
      <3>1. l[k] = l[k - 1]
        BY <1>5, <1>7, <2>6, Zenon DEF LeftStep
      <3> QED BY <1>4, <2>3, <2>4, <2>6, <3>1, Zenon
    <2>7. CASE s[k] \notin bs
      <3>1. l[k] = Append(l[k - 1], s[k])
        BY <1>5, <1>7, <2>7, Zenon DEF LeftStep
      <3>2. s[k] \notin Range(l[k - 1])
        BY <2>3, <2>5, Zenon
      <3>3. /\ l[k] \in Seq(S) /\ IsInjective(l[k])
            /\ Range(l[k]) = Range(l[k - 1]) \cup {s[k]}
        BY <2>3, <2>5, <3>1, <3>2, AppendFacts
      <3>4. Range(l[k]) = First(k) \ bs
        BY <2>3, <2>4, <2>7, <3>3, Zenon
      <3> QED BY <1>4, <3>3, <3>4, Zenon
    <2> QED BY <2>6, <2>7
  <1> QED BY <1>6, <1>7

Regions == 0 .. (MaxSlots \div RegionSlots) - 1
SlotType == [taken : SUBSET Nat, full : SUBSET Nat, n : Int]
ChunkType == [free : BOOLEAN, been : BOOLEAN]
BumpType == [at : Nat, n : Int, freed : Int]

HeldSlots(class, A) == {u \in A : IsSlot(class, u)}
HeldChunks(class, A) == {u \in A : IsChunk(class, u)}
HeldBumps(class, A) == {u \in A : IsBump(class, u)}

RegionsMatch(s) == \A r \in Regions : r \in s.full <=> InRegion(s.taken, r) = 0 .. RegionSlots - 1

SlotsMatch(class, s, A) ==
  /\ s \in SlotType
  /\ s.taken = {SlotAt(class, u) : u \in HeldSlots(class, A)}
  /\ s.taken \subseteq 0 .. SlotsOf(class) - 1
  /\ s.n = Cardinality(s.taken)
  /\ RegionsMatch(s)
  /\ \A u \in HeldSlots(class, A) : u = SlotStart(class, SlotAt(class, u))

ChunksMatch(class, c, A) ==
  /\ DOMAIN c \subseteq 1 .. ChunkEnd - 1
  /\ c \in [DOMAIN c -> ChunkType]
  /\ {u \in DOMAIN c : ~c[u].free} = HeldChunks(class, A)

BumpMatch(class, b, A) ==
  /\ b \in BumpType
  /\ b.n - b.freed = Cardinality(HeldBumps(class, A))
  /\ \A u \in HeldBumps(class, A) : u < b.at

BlockMatch(class, s, c, b, A) ==
  SlotsMatch(class, s, A) /\ ChunksMatch(class, c, A) /\ BumpMatch(class, b, A)

---------------------------------------------------------------------------

\* The layout of a block as numbers.
LEMMA Geometry ==
  /\ NrClasses \in Nat \ {0} /\ MaxSlots \in Nat \ {0} /\ RegionSlots \in Nat \ {0}
  /\ ChunkEnd \in Nat \ {0} /\ SlotBase \in Nat \ {0} /\ BlockUnits \in Nat \ {0}
  /\ PageUnits \in Nat \ {0}
  /\ 1 < ChunkEnd /\ ChunkEnd <= SlotBase /\ SlotBase < BlockUnits
  /\ MaxSlots % RegionSlots = 0
  BY GeometryAssumption

\* A class has a size and is not the class of big blocks.
LEMMA Sizes ==
  ASSUME NEW class \in Classes
  PROVE  SizeOf(class) \in Nat \ {0} /\ class # Big /\ class \in 0 .. NrClasses
  BY SizesAssumption, Geometry DEF Classes, Big

\* The slots of a class end where its bump space begins.
LEMMA SlotCount ==
  ASSUME NEW class \in Classes
  PROVE  /\ SlotsOf(class) \in Nat /\ SlotsOf(class) <= MaxSlots
         /\ BumpBase(class) \in Nat /\ SlotBase <= BumpBase(class)
  <1> DEFINE d == (BlockUnits - SlotBase) \div SizeOf(class)
  <1>1. BlockUnits - SlotBase \in Nat /\ SizeOf(class) \in Nat \ {0}
    BY Geometry, Sizes
  <1>2. d \in Nat
    BY <1>1, DivMod
  <1> HIDE DEF d
  <1>3. {d, MaxSlots} \in SUBSET Nat /\ {d, MaxSlots} # {}
    BY <1>2, Geometry
  <1>4. Min({d, MaxSlots}) \in {d, MaxSlots} /\ Min({d, MaxSlots}) <= MaxSlots
    BY <1>3, MinIsLeast
  <1>5. SlotsOf(class) = Min({d, MaxSlots})
    BY DEF SlotsOf, d
  <1>6. SlotsOf(class) \in Nat /\ SlotsOf(class) <= MaxSlots
    BY <1>2, <1>4, <1>5, Geometry
  <1> HIDE DEF SlotsOf
  <1>7. SizeOf(class) * SlotsOf(class) \in Nat
    BY <1>1, <1>6
  <1> QED BY <1>6, <1>7, Geometry DEF BumpBase

\* A slot's address leads back to the slot.
LEMMA SlotPlace ==
  ASSUME NEW class \in Classes, NEW slot \in Nat
  PROVE  /\ SlotStart(class, slot) \in Nat /\ SlotBase <= SlotStart(class, slot)
         /\ SlotAt(class, SlotStart(class, slot)) = slot
         /\ slot < SlotsOf(class) => IsSlot(class, SlotStart(class, slot))
  <1> DEFINE z == SizeOf(class)
  <1>1. z \in Nat \ {0} /\ class # Big
    BY Sizes
  <1> HIDE DEF z
  <1>2. slot * z \in Nat /\ (slot * z + 0) \div z = slot
    BY <1>1, DivUnique
  <1>3. SlotStart(class, slot) = SlotBase + slot * z
    BY DEF SlotStart, z
  <1>4. SlotAt(class, SlotStart(class, slot)) = slot
    <2>1. SlotStart(class, slot) - SlotBase = slot * z + 0
      BY <1>2, <1>3, Geometry
    <2> QED BY <1>2, <2>1 DEF SlotAt, z
  <1>5. slot < SlotsOf(class) => SlotStart(class, slot) < BumpBase(class)
    <2> DEFINE k == SlotsOf(class)
    <2>1. k \in Nat
      BY SlotCount
    <2>2. BumpBase(class) = SlotBase + z * k
      BY DEF BumpBase, z
    <2> HIDE DEF k
    <2>3. slot < k => slot * z < z * k
      BY <1>1, <2>1
    <2>4. slot * z \in Nat /\ z * k \in Nat
      BY <1>1, <2>1
    <2>5. slot < k => SlotStart(class, slot) < BumpBase(class)
      BY <1>3, <2>2, <2>3, <2>4, Geometry
    <2> QED BY <2>5 DEF k
  <1> QED BY <1>1, <1>2, <1>3, <1>4, <1>5, Geometry DEF IsSlot

\* The offsets taken of a region.
LEMMA InRegionIs ==
  ASSUME NEW taken \in SUBSET Nat, NEW r \in Nat
  PROVE  /\ InRegion(taken, r) \subseteq 0 .. RegionSlots - 1
         /\ \A o \in 0 .. RegionSlots - 1 : o \in InRegion(taken, r) <=> r * RegionSlots + o \in taken
  <1>0. RegionSlots \in Nat \ {0}
    BY Geometry
  <1>1. \A s \in taken : /\ s \in Nat /\ s % RegionSlots \in 0 .. RegionSlots - 1
                         /\ s = (s \div RegionSlots) * RegionSlots + (s % RegionSlots)
    BY <1>0, DivMod
  <1>2. ASSUME NEW o \in 0 .. RegionSlots - 1
        PROVE  o \in InRegion(taken, r) <=> r * RegionSlots + o \in taken
    <2>1. (r * RegionSlots + o) \div RegionSlots = r /\ (r * RegionSlots + o) % RegionSlots = o
      BY <1>0, DivUnique
    <2>2. ASSUME o \in InRegion(taken, r) PROVE r * RegionSlots + o \in taken
      <3>1. PICK s \in taken : s \div RegionSlots = r /\ o = s % RegionSlots
        BY <2>2 DEF InRegion, RegionOf
      <3>2. s = (s \div RegionSlots) * RegionSlots + (s % RegionSlots)
        BY <1>1
      <3> QED BY <3>1, <3>2
    <2>3. ASSUME r * RegionSlots + o \in taken PROVE o \in InRegion(taken, r)
      BY <2>1, <2>3, Zenon DEF InRegion, RegionOf
    <2> QED BY <2>2, <2>3
  <1>3. InRegion(taken, r) \subseteq 0 .. RegionSlots - 1
    BY <1>1, Zenon DEF InRegion
  <1> QED BY <1>2, <1>3

\* A bit that is clear is found.
LEMMA FirstClearIs ==
  ASSUME NEW set, NEW bits \in Nat, NEW k \in 0 .. bits - 1, k \notin set
  PROVE  /\ FirstClear(set, bits) \in 0 .. bits - 1 /\ FirstClear(set, bits) \notin set
         /\ FirstClear(set, bits) <= k
  <1> DEFINE F == (0 .. bits - 1) \ set
  <1>1. F \in SUBSET Nat /\ k \in F
    OBVIOUS
  <1>2. ~(0 .. bits - 1 \subseteq set)
    OBVIOUS
  <1>3. FirstClear(set, bits) = Min(F)
    BY <1>2, Zenon DEF FirstClear
  <1> HIDE DEF F
  <1>4. Min(F) \in F /\ Min(F) <= k
    BY <1>1, MinIsLeast
  <1> QED BY <1>3, <1>4 DEF F

\* The slot that is found is free and is one of the block's.
LEMMA NextSlotFree ==
  ASSUME NEW class \in Classes, NEW s \in SlotType, RegionsMatch(s),
         s.taken \subseteq 0 .. SlotsOf(class) - 1, s.n = Cardinality(s.taken),
         s.n # SlotsOf(class)
  PROVE  NextSlot(s) \in 0 .. SlotsOf(class) - 1 /\ NextSlot(s) \notin s.taken
  <1> DEFINE k == SlotsOf(class)
  <1>k. k \in Nat /\ k <= MaxSlots
    BY SlotCount
  <1>c. RegionSlots \in Nat \ {0} /\ MaxSlots \in Nat \ {0} /\ MaxSlots % RegionSlots = 0
    BY Geometry
  <1>t. s.taken \subseteq 0 .. k - 1 /\ s.taken \in SUBSET Nat /\ s.n = Cardinality(s.taken) /\ s.n # k
    BY DEF SlotType
  <1> HIDE DEF k
  <1>1. PICK f \in 0 .. k - 1 : f \notin s.taken
    <2>1. IsFiniteSet(0 .. k - 1) /\ Cardinality(0 .. k - 1) = k
      <3>1. 0 \in Int /\ k - 1 \in Int
        BY <1>k
      <3>2. IsFiniteSet(0 .. k - 1) /\ Cardinality(0 .. k - 1) = IF 0 > k - 1 THEN 0 ELSE (k - 1) - 0 + 1
        BY <3>1, FS_Interval, Zenon
      <3> QED BY <1>k, <3>2
    <2>2. s.taken # 0 .. k - 1
      BY <1>t, <2>1
    <2> QED BY <1>t, <2>2
  <1> DEFINE m == MaxSlots \div RegionSlots
  <1>2. m \in Nat /\ MaxSlots = m * RegionSlots
    <2>1. m \in Nat /\ MaxSlots = m * RegionSlots + (MaxSlots % RegionSlots)
      BY <1>c, DivMod, Zenon
    <2> HIDE DEF m
    <2> QED BY <1>c, <2>1
  <1> DEFINE d == f \div RegionSlots  e == f % RegionSlots
  <1>3. d \in Nat /\ e \in 0 .. RegionSlots - 1 /\ f = d * RegionSlots + e
    <2>1. f \in Nat
      BY <1>k
    <2> QED BY <1>c, <2>1, DivMod, Zenon
  <1>4. d \in 0 .. m - 1
    <2>1. d * RegionSlots < m * RegionSlots
      BY <1>k, <1>c, <1>1, <1>2, <1>3
    <2> HIDE DEF d, m
    <2>2. CASE d >= m
      <3>1. d * RegionSlots >= m * RegionSlots
        BY <1>c, <1>2, <1>3, <2>2
      <3> QED BY <1>c, <1>2, <1>3, <2>1, <3>1
    <2> QED BY <1>2, <1>3, <2>2
  <1>r. Regions = 0 .. m - 1
    BY DEF Regions
  <1> HIDE DEF d, e, m
  <1>5. d \notin s.full
    <2>1. e \notin InRegion(s.taken, d)
      BY <1>1, <1>3, <1>t, InRegionIs
    <2> QED BY <1>3, <1>4, <1>r, <2>1 DEF RegionsMatch
  <1> DEFINE r == FirstClear(s.full, m)
  <1>6. r \in 0 .. m - 1 /\ r \notin s.full /\ r <= d
    BY <1>2, <1>4, <1>5, FirstClearIs
  <1> HIDE DEF r
  <1> DEFINE N == InRegion(s.taken, r)
  <1>7. N \subseteq 0 .. RegionSlots - 1 /\ N # 0 .. RegionSlots - 1
    <2>1. r \in Nat /\ r \in Regions
      BY <1>6, <1>r, <1>2
    <2>2. N \subseteq 0 .. RegionSlots - 1
      BY <1>t, <2>1, InRegionIs, Zenon
    <2>3. N # 0 .. RegionSlots - 1
      BY <1>6, <2>1, Zenon DEF RegionsMatch
    <2> QED BY <2>2, <2>3
  <1> DEFINE o == FirstClear(N, RegionSlots)
  <1>8. /\ o \in 0 .. RegionSlots - 1 /\ o \notin N
        /\ \A j \in 0 .. RegionSlots - 1 : j \notin N => o <= j
    <2> HIDE DEF N, o
    <2>1. PICK j \in 0 .. RegionSlots - 1 : j \notin N
      BY <1>7
    <2> QED BY <1>c, <2>1, FirstClearIs DEF o
  <1>9. NextSlot(s) = r * RegionSlots + o
    BY DEF NextSlot, r, m
  <1>10. r * RegionSlots + o \notin s.taken
    BY <1>6, <1>8, <1>t, InRegionIs
  <1>11. r * RegionSlots + o <= f
    <2>1. CASE r = d
      <3>1. e \notin N
        BY <1>1, <1>3, <1>t, <2>1, InRegionIs
      <3> HIDE DEF N, o
      <3> QED BY <1>3, <1>8, <1>c, <2>1, <3>1
    <2>2. CASE r < d
      <3> HIDE DEF N, o
      <3>1. (r + 1) * RegionSlots <= d * RegionSlots
        BY <1>c, <1>3, <1>6, <2>2
      <3>2. r * RegionSlots + RegionSlots <= d * RegionSlots
        BY <1>c, <1>6, <3>1
      <3> QED BY <1>c, <1>3, <1>6, <1>8, <3>2
    <2> QED BY <1>3, <1>6, <2>1, <2>2
  <1>12. r * RegionSlots + o \in Nat
    <2> HIDE DEF N, o
    <2> QED BY <1>c, <1>6, <1>8
  <1> QED BY <1>k, <1>1, <1>9, <1>10, <1>11, <1>12 DEF k

\* Every address is a slot's, a chunk's or a bump allocation's.
LEMMA Kinds ==
  ASSUME NEW class \in Classes, NEW u \in Nat
  PROVE  /\ IsSlot(class, u) \/ IsChunk(class, u) \/ IsBump(class, u)
         /\ ~(IsSlot(class, u) /\ IsChunk(class, u))
         /\ ~(IsSlot(class, u) /\ IsBump(class, u))
         /\ ~(IsChunk(class, u) /\ IsBump(class, u))
  BY Geometry, Sizes, SlotCount DEF IsSlot, IsChunk, IsBump

\* The region of a slot and its offset there.
LEMMA RegionSplit ==
  ASSUME NEW x \in Nat
  PROVE  /\ RegionOf(x) \in Nat /\ x % RegionSlots \in 0 .. RegionSlots - 1
         /\ x = RegionOf(x) * RegionSlots + (x % RegionSlots)
  <1>1. RegionSlots \in Nat \ {0}
    BY Geometry
  <1> QED BY <1>1, DivMod, Zenon DEF RegionOf

\* A slot of another region.
LEMMA OtherRegion ==
  ASSUME NEW T \in SUBSET Nat, NEW U \in SUBSET Nat, NEW x \in Nat,
         \A y \in Nat : y # x => (y \in T <=> y \in U), NEW r \in Nat, r # RegionOf(x)
  PROVE  InRegion(T, r) = InRegion(U, r)
  <1>1. ASSUME NEW o \in 0 .. RegionSlots - 1
        PROVE  o \in InRegion(T, r) <=> o \in InRegion(U, r)
    <2>1. RegionSlots \in Nat \ {0}
      BY Geometry
    <2>2. (r * RegionSlots + o) \div RegionSlots = r
      BY <2>1, DivUnique
    <2>3. r * RegionSlots + o \in Nat
      BY <2>1
    <2>4. r * RegionSlots + o # x
      BY <2>2 DEF RegionOf
    <2>5. r * RegionSlots + o \in T <=> r * RegionSlots + o \in U
      BY <2>3, <2>4, Zenon
    <2> QED BY <2>5, InRegionIs, Zenon
  <1>2. InRegion(T, r) \subseteq 0 .. RegionSlots - 1 /\ InRegion(U, r) \subseteq 0 .. RegionSlots - 1
    BY InRegionIs, Zenon
  <1> QED BY <1>1, <1>2, Zenon

\* A free slot makes its region one that is not full.
LEMMA FreeInRegion ==
  ASSUME NEW T \in SUBSET Nat, NEW x \in Nat, x \notin T
  PROVE  InRegion(T, RegionOf(x)) # 0 .. RegionSlots - 1
  <1>1. x % RegionSlots \notin InRegion(T, RegionOf(x))
    BY RegionSplit, InRegionIs, Zenon
  <1> QED BY <1>1, RegionSplit, Zenon

\* Taking a slot keeps the full regions' bits exact, ...
LEMMA TakeSlotRegions ==
  ASSUME NEW s \in SlotType, RegionsMatch(s), NextSlot(s) \in Nat, NextSlot(s) \notin s.taken
  PROVE  TakeSlot(s) \in SlotType /\ RegionsMatch(TakeSlot(s))
  <1> DEFINE x == NextSlot(s)  T == s.taken \cup {x}  q == RegionOf(x)
             F == IF InRegion(T, q) = 0 .. RegionSlots - 1 THEN s.full \cup {q} ELSE s.full
  <1>0. x \in Nat /\ x \notin s.taken /\ s.taken \in SUBSET Nat /\ s.full \in SUBSET Nat /\ s.n \in Int
    BY DEF SlotType
  <1>1. q \in Nat
    BY <1>0, RegionSplit
  <1>2. TakeSlot(s) = [taken |-> T, n |-> s.n + 1, full |-> F]
    BY DEF TakeSlot
  <1> HIDE DEF x
  <1>3. T \in SUBSET Nat
    BY <1>0
  <1>4. F \in SUBSET Nat
    BY <1>0, <1>1
  <1>5. ASSUME NEW r \in Regions
        PROVE  r \in F <=> InRegion(T, r) = 0 .. RegionSlots - 1
    <2>1. r \in Nat
      BY Geometry DEF Regions
    <2>2. CASE r = q
      <3>1. r \notin s.full
        BY <1>0, <1>5, <2>2, FreeInRegion, Zenon DEF RegionsMatch
      <3> HIDE DEF T, q
      <3> QED BY <2>2, <3>1, Zenon
    <2>3. CASE r # q
      <3>1. \A y \in Nat : y # x => (y \in s.taken <=> y \in T)
        OBVIOUS
      <3> HIDE DEF T, q
      <3>2. InRegion(s.taken, r) = InRegion(T, r)
        BY <1>0, <1>3, <2>1, <2>3, <3>1, OtherRegion, Zenon DEF q
      <3>3. r \in s.full <=> InRegion(s.taken, r) = 0 .. RegionSlots - 1
        BY <1>5, Zenon DEF RegionsMatch
      <3> QED BY <2>3, <3>2, <3>3, Zenon
    <2> QED BY <2>2, <2>3
  <1> HIDE DEF T, F, q
  <1> QED BY <1>0, <1>2, <1>3, <1>4, <1>5 DEF SlotType, RegionsMatch

\* ... and so does dropping one.
LEMMA DropSlotRegions ==
  ASSUME NEW s \in SlotType, RegionsMatch(s), NEW x \in Nat
  PROVE  DropSlot(s, x) \in SlotType /\ RegionsMatch(DropSlot(s, x))
  <1> DEFINE T == s.taken \ {x}  q == RegionOf(x)  F == s.full \ {q}
  <1>0. s.taken \in SUBSET Nat /\ s.full \in SUBSET Nat /\ s.n \in Int
    BY DEF SlotType
  <1>1. q \in Nat
    BY <1>0, RegionSplit
  <1>2. DropSlot(s, x) = [taken |-> T, n |-> s.n - 1, full |-> F]
    BY DEF DropSlot
  <1>3. T \in SUBSET Nat
    BY <1>0
  <1>4. F \in SUBSET Nat
    BY <1>0, <1>1
  <1>5. ASSUME NEW r \in Regions
        PROVE  r \in F <=> InRegion(T, r) = 0 .. RegionSlots - 1
    <2>1. r \in Nat
      BY Geometry DEF Regions
    <2>2. CASE r = q
      <3>1. InRegion(T, r) # 0 .. RegionSlots - 1
        <4>1. x \notin T
          OBVIOUS
        <4> HIDE DEF T
        <4> QED BY <1>3, <2>2, <4>1, FreeInRegion, Zenon
      <3> HIDE DEF T, q
      <3> QED BY <2>2, <3>1, Zenon
    <2>3. CASE r # q
      <3>1. \A y \in Nat : y # x => (y \in s.taken <=> y \in T)
        OBVIOUS
      <3> HIDE DEF T, q
      <3>2. InRegion(s.taken, r) = InRegion(T, r)
        BY <1>0, <1>3, <2>1, <2>3, <3>1, OtherRegion, Zenon DEF q
      <3>3. r \in s.full <=> InRegion(s.taken, r) = 0 .. RegionSlots - 1
        BY <1>5, Zenon DEF RegionsMatch
      <3> QED BY <2>3, <3>2, <3>3, Zenon
    <2> QED BY <2>2, <2>3
  <1> HIDE DEF T, F, q
  <1> QED BY <1>0, <1>2, <1>3, <1>4, <1>5 DEF SlotType, RegionsMatch

\* What is held of the other kinds of memory when an address comes or goes.
LEMMA OtherKinds ==
  ASSUME NEW class \in Classes, NEW A \in SUBSET Nat, NEW u \in Nat
  PROVE  /\ ~IsSlot(class, u) => /\ HeldSlots(class, A \cup {u}) = HeldSlots(class, A)
                                 /\ HeldSlots(class, A \ {u}) = HeldSlots(class, A)
         /\ ~IsChunk(class, u) => /\ HeldChunks(class, A \cup {u}) = HeldChunks(class, A)
                                  /\ HeldChunks(class, A \ {u}) = HeldChunks(class, A)
         /\ ~IsBump(class, u) => /\ HeldBumps(class, A \cup {u}) = HeldBumps(class, A)
                                 /\ HeldBumps(class, A \ {u}) = HeldBumps(class, A)
  BY Zenon DEF HeldSlots, HeldChunks, HeldBumps

\* AllocSlot on a block: a slot nobody has, and the counts follow.
LEMMA TakeSlotMatch ==
  ASSUME NEW class \in Classes, NEW s, NEW c, NEW b, NEW A \in SUBSET Nat,
         BlockMatch(class, s, c, b, A), s.n # SlotsOf(class)
  PROVE  LET u == SlotStart(class, NextSlot(s)) IN
         u \in Nat /\ u \notin A /\ BlockMatch(class, TakeSlot(s), c, b, A \cup {u})
  <1> DEFINE x == NextSlot(s)  u == SlotStart(class, x)
  <1>0. SlotsMatch(class, s, A) /\ s \in SlotType /\ SlotsOf(class) \in Nat
    BY SlotCount DEF BlockMatch, SlotsMatch
  <1>1. x \in 0 .. SlotsOf(class) - 1 /\ x \notin s.taken
    <2>1. /\ RegionsMatch(s) /\ s.taken \subseteq 0 .. SlotsOf(class) - 1
          /\ s.n = Cardinality(s.taken)
      BY <1>0, Zenon DEF SlotsMatch
    <2> QED BY <1>0, <2>1, NextSlotFree, Zenon
  <1>2. x \in Nat /\ x < SlotsOf(class)
    BY <1>0, <1>1
  <1>3. TakeSlot(s).taken = s.taken \cup {x} /\ TakeSlot(s).n = s.n + 1
    BY DEF TakeSlot
  <1>4. TakeSlot(s) \in SlotType /\ RegionsMatch(TakeSlot(s))
    BY <1>0, <1>1, <1>2, TakeSlotRegions, Zenon DEF SlotsMatch
  <1> HIDE DEF x
  <1>5. u \in Nat /\ SlotAt(class, u) = x /\ IsSlot(class, u)
    BY <1>2, SlotPlace, Zenon
  <1>h. u = SlotStart(class, x)
    OBVIOUS
  <1> HIDE DEF u
  <1>6. u \notin A
    BY <1>0, <1>1, <1>5, Zenon DEF SlotsMatch, HeldSlots
  <1>7. HeldSlots(class, A \cup {u}) = HeldSlots(class, A) \cup {u}
    BY <1>5, Zenon DEF HeldSlots
  <1>8. SlotsMatch(class, TakeSlot(s), A \cup {u})
    <2>1. s.taken \cup {x} = {SlotAt(class, v) : v \in HeldSlots(class, A \cup {u})}
      BY <1>0, <1>5, <1>7, Zenon DEF SlotsMatch
    <2>2. s.taken \cup {x} \subseteq 0 .. SlotsOf(class) - 1
      BY <1>0, <1>1, Zenon DEF SlotsMatch
    <2>3. s.n + 1 = Cardinality(s.taken \cup {x})
      <3>1. IsFiniteSet(s.taken)
        <4>1. s.taken \in SUBSET (0 .. SlotsOf(class) - 1)
          BY <1>0, Zenon DEF SlotsMatch
        <4>2. IsFiniteSet(0 .. SlotsOf(class) - 1)
          BY <1>0, FS_Interval
        <4> QED BY <4>1, <4>2, FS_Subset, Zenon
      <3>2. Cardinality(s.taken \cup {x}) = Cardinality(s.taken) + 1
        BY <1>1, <3>1, FS_AddElement, Zenon
      <3> QED BY <1>0, <3>2, Zenon DEF SlotsMatch
    <2>4. \A v \in HeldSlots(class, A \cup {u}) : v = SlotStart(class, SlotAt(class, v))
      BY <1>0, <1>5, <1>7, <1>h, Zenon DEF SlotsMatch
    <2> QED BY <1>3, <1>4, <2>1, <2>2, <2>3, <2>4, Zenon DEF SlotsMatch
  <1>9. ChunksMatch(class, c, A \cup {u}) /\ BumpMatch(class, b, A \cup {u})
    <2>1. /\ HeldChunks(class, A \cup {u}) = HeldChunks(class, A)
          /\ HeldBumps(class, A \cup {u}) = HeldBumps(class, A)
      BY <1>5, Kinds, OtherKinds, Zenon
    <2> QED BY <2>1, Zenon DEF ChunksMatch, BumpMatch, BlockMatch
  <1> QED BY <1>5, <1>6, <1>8, <1>9, Zenon DEF BlockMatch, x, u

\* FreeSlot on a block.
LEMMA DropSlotMatch ==
  ASSUME NEW class \in Classes, NEW s, NEW c, NEW b, NEW A \in SUBSET Nat,
         BlockMatch(class, s, c, b, A), NEW u \in A, IsSlot(class, u)
  PROVE  BlockMatch(class, DropSlot(s, SlotAt(class, u)), c, b, A \ {u})
  <1> DEFINE x == SlotAt(class, u)  d == DropSlot(s, x)
  <1>0. SlotsMatch(class, s, A) /\ s \in SlotType /\ SlotsOf(class) \in Nat
    BY SlotCount DEF BlockMatch, SlotsMatch
  <1>u. u \in HeldSlots(class, A)
    BY DEF HeldSlots
  <1>1. x \in s.taken /\ s.taken \in SUBSET (0 .. SlotsOf(class) - 1)
    BY <1>0, <1>u, Zenon DEF SlotsMatch
  <1>2. x \in Nat
    BY <1>0, <1>1
  <1>3. d.taken = s.taken \ {x} /\ d.n = s.n - 1
    BY DEF DropSlot
  <1>4. d \in SlotType /\ RegionsMatch(d)
    BY <1>0, <1>2, DropSlotRegions, Zenon DEF SlotsMatch
  <1>5. HeldSlots(class, A \ {u}) = HeldSlots(class, A) \ {u}
    BY Zenon DEF HeldSlots
  <1>6. \A v \in HeldSlots(class, A) : SlotAt(class, v) = x => v = u
    BY <1>0, <1>u, Zenon DEF SlotsMatch
  <1>h. x = SlotAt(class, u)
    OBVIOUS
  <1> HIDE DEF x, d
  <1>8. SlotsMatch(class, d, A \ {u})
    <2>1. s.taken \ {x} = {SlotAt(class, v) : v \in HeldSlots(class, A \ {u})}
      <3>1. s.taken = {SlotAt(class, v) : v \in HeldSlots(class, A)}
        BY <1>0, Zenon DEF SlotsMatch
      <3> QED BY <1>5, <1>6, <1>h, <3>1, Zenon
    <2>2. s.taken \ {x} \subseteq 0 .. SlotsOf(class) - 1
      BY <1>1, Zenon
    <2>3. s.n - 1 = Cardinality(s.taken \ {x})
      <3>1. IsFiniteSet(s.taken)
        <4>2. IsFiniteSet(0 .. SlotsOf(class) - 1)
          BY <1>0, FS_Interval
        <4> QED BY <1>1, <4>2, FS_Subset, Zenon
      <3>2. Cardinality(s.taken \ {x}) = Cardinality(s.taken) - 1
        BY <1>1, <3>1, FS_RemoveElement, Zenon
      <3> QED BY <1>0, <3>2, Zenon DEF SlotsMatch
    <2>4. \A v \in HeldSlots(class, A \ {u}) : v = SlotStart(class, SlotAt(class, v))
      BY <1>0, <1>5, Zenon DEF SlotsMatch
    <2> QED BY <1>3, <1>4, <2>1, <2>2, <2>3, <2>4, Zenon DEF SlotsMatch
  <1>9. ChunksMatch(class, c, A \ {u}) /\ BumpMatch(class, b, A \ {u})
    <2>1. /\ HeldChunks(class, A \ {u}) = HeldChunks(class, A)
          /\ HeldBumps(class, A \ {u}) = HeldBumps(class, A)
      <3>1. u \in Nat
        OBVIOUS
      <3> QED BY <3>1, Kinds, OtherKinds, Zenon
    <2> QED BY <2>1, Zenon DEF ChunksMatch, BumpMatch, BlockMatch
  <1> QED BY <1>8, <1>9, Zenon DEF BlockMatch, x, d

\* Where the next chunk begins.
LEMMA NextChunkIs ==
  ASSUME NEW c, DOMAIN c \subseteq 1 .. ChunkEnd - 1, NEW u \in DOMAIN c
  PROVE  /\ NextChunk(c, u) \in Nat /\ u < NextChunk(c, u) /\ NextChunk(c, u) <= ChunkEnd
         /\ \A v \in DOMAIN c : v > u => NextChunk(c, u) <= v
  <1> DEFINE N == {v \in DOMAIN c : v > u} \cup {ChunkEnd}
  <1>1. N \in SUBSET Nat /\ ChunkEnd \in N /\ \A v \in N : u < v
    BY Geometry
  <1>2. NextChunk(c, u) = Min(N)
    BY DEF NextChunk
  <1>3. \A v \in DOMAIN c : v > u => v \in N
    OBVIOUS
  <1> HIDE DEF N
  <1>4. Min(N) \in N /\ \A y \in N : Min(N) <= y
    BY <1>1, MinIsLeast
  <1> QED BY <1>1, <1>2, <1>3, <1>4

\* Where an aligned chunk begins.
LEMMA ChunkStartIs ==
  ASSUME NEW u \in Nat, NEW al \in Nat \ {0}, NEW class \in Classes
  PROVE  ChunkStart(u, al, class) \in Nat /\ u <= ChunkStart(u, al, class)
  <1>1. u + SizeOf(class) \in Nat /\ u <= u + SizeOf(class)
    BY Sizes
  <1>2. AlignUp(u + SizeOf(class), al) \in Nat /\ u + SizeOf(class) < AlignUp(u + SizeOf(class), al)
    BY <1>1, AlignedUp, Zenon
  <1> QED BY <1>1, <1>2 DEF ChunkStart

\* Where a chunk can be given from: a free one, or behind one.
LEMMA FittingIs ==
  ASSUME NEW class \in Classes, NEW c, DOMAIN c \subseteq 1 .. ChunkEnd - 1,
         NEW n \in Nat \ {0}, NEW al \in Nat \ {0}, NEW u \in Fitting(c, n, al, class)
  PROVE  LET start == ChunkStart(u, al, class) IN
         /\ u \in DOMAIN c /\ c[u].free /\ start \in Nat /\ u <= start
         /\ start + n < NextChunk(c, u) /\ start \in 1 .. ChunkEnd - 1
         /\ start \in DOMAIN c => start = u
         /\ \A v \in DOMAIN c : start < v => start + n < v
         /\ IsChunk(class, start)
  <1> DEFINE start == ChunkStart(u, al, class)  x == NextChunk(c, u)
  <1>1. u \in DOMAIN c /\ c[u].free /\ start + n < x
    BY DEF Fitting
  <1>2. u \in Nat /\ 1 <= u
    BY <1>1
  <1>3. start \in Nat /\ u <= start
    BY <1>2, ChunkStartIs
  <1>4. x \in Nat /\ u < x /\ x <= ChunkEnd /\ \A v \in DOMAIN c : v > u => x <= v
    BY <1>1, NextChunkIs
  <1> HIDE DEF start, x
  <1>5. start \in DOMAIN c => start = u
    <2>1. start < x
      BY <1>1, <1>3, <1>4
    <2> QED BY <1>2, <1>3, <1>4, <2>1
  <1>6. \A v \in DOMAIN c : start < v => start + n < v
    <2>1. \A v \in DOMAIN c : v \in Nat
      OBVIOUS
    <2> QED BY <1>1, <1>2, <1>3, <1>4, <2>1
  <1>7. start \in 1 .. ChunkEnd - 1 /\ start < SlotBase
    BY <1>1, <1>2, <1>3, <1>4, Geometry
  <1>8. IsChunk(class, start)
    BY <1>7, Sizes DEF IsChunk
  <1> QED BY <1>1, <1>3, <1>5, <1>6, <1>7, <1>8 DEF start, x

\* AllocChunk on a block: a chunk nobody has, and the headers follow.
LEMMA TakeChunkMatch ==
  ASSUME NEW class \in Classes, NEW s, NEW c, NEW b, NEW A \in SUBSET Nat,
         BlockMatch(class, s, c, b, A),
         NEW n \in Nat \ {0}, NEW al \in Nat \ {0}, NEW u \in Fitting(c, n, al, class)
  PROVE  LET start == ChunkStart(u, al, class) IN
         /\ start \in Nat /\ start \notin A
         /\ BlockMatch(class, s, TakeChunk(c, u, start), b, A \cup {start})
  <1> DEFINE start == ChunkStart(u, al, class)  d == TakeChunk(c, u, start)
  <1>0. /\ DOMAIN c \subseteq 1 .. ChunkEnd - 1 /\ c \in [DOMAIN c -> ChunkType]
        /\ {v \in DOMAIN c : ~c[v].free} = HeldChunks(class, A)
    BY Zenon DEF BlockMatch, ChunksMatch
  <1>1. /\ u \in DOMAIN c /\ c[u].free /\ start \in Nat /\ u <= start /\ start \in 1 .. ChunkEnd - 1
        /\ start \in DOMAIN c => start = u
        /\ IsChunk(class, start)
    BY <1>0, FittingIs, Zenon
  <1>2. /\ DOMAIN d = DOMAIN c \cup {start}
        /\ d[start] = [free |-> FALSE, been |-> c[u].been]
        /\ \A v \in DOMAIN c : v # start => d[v] = c[v]
        /\ d \in [DOMAIN c \cup {start} -> ChunkType]
    BY <1>0, <1>1 DEF TakeChunk, ChunkType
  <1> HIDE DEF start, d
  <1>3. start \notin A
    BY <1>0, <1>1, Zenon DEF HeldChunks
  <1>4. HeldChunks(class, A \cup {start}) = HeldChunks(class, A) \cup {start}
    BY <1>1, Zenon DEF HeldChunks
  <1>5. {v \in DOMAIN d : ~d[v].free} = {v \in DOMAIN c : ~c[v].free} \cup {start}
    <2>1. ~d[start].free
      BY <1>2
    <2>2. \A v \in DOMAIN c : v # start => (d[v].free <=> c[v].free)
      BY <1>2
    <2>3. start \notin DOMAIN c \/ c[start].free
      BY <1>1, Zenon
    <2>4. \A v : v \in DOMAIN d <=> v \in DOMAIN c \/ v = start
      BY <1>2, Zenon
    <2> QED BY <2>1, <2>2, <2>3, <2>4, Zenon
  <1>6. ChunksMatch(class, d, A \cup {start})
    <2>1. DOMAIN d \subseteq 1 .. ChunkEnd - 1
      BY <1>0, <1>1, <1>2, Zenon
    <2>2. d \in [DOMAIN d -> ChunkType]
      BY <1>2, Zenon
    <2> QED BY <1>0, <1>4, <1>5, <2>1, <2>2, Zenon DEF ChunksMatch
  <1>7. SlotsMatch(class, s, A \cup {start}) /\ BumpMatch(class, b, A \cup {start})
    <2>1. /\ HeldSlots(class, A \cup {start}) = HeldSlots(class, A)
          /\ HeldBumps(class, A \cup {start}) = HeldBumps(class, A)
      BY <1>1, Kinds, OtherKinds, Zenon
    <2> QED BY <2>1, Zenon DEF SlotsMatch, BumpMatch, BlockMatch
  <1> QED BY <1>1, <1>3, <1>6, <1>7, Zenon DEF BlockMatch, d, start

\* FreeChunk on a block.
LEMMA DropChunkMatch ==
  ASSUME NEW class \in Classes, NEW s, NEW c, NEW b, NEW A \in SUBSET Nat,
         BlockMatch(class, s, c, b, A), NEW u \in A, IsChunk(class, u)
  PROVE  BlockMatch(class, s, DropChunk(c, u), b, A \ {u})
  <1> DEFINE d == DropChunk(c, u)
  <1>0. /\ DOMAIN c \subseteq 1 .. ChunkEnd - 1 /\ c \in [DOMAIN c -> ChunkType]
        /\ {v \in DOMAIN c : ~c[v].free} = HeldChunks(class, A)
    BY Zenon DEF BlockMatch, ChunksMatch
  <1>1. u \in HeldChunks(class, A)
    BY DEF HeldChunks
  <1>1a. u \in DOMAIN c
    BY <1>0, <1>1, Zenon
  <1>2. /\ DOMAIN d = DOMAIN c /\ d \in [DOMAIN c -> ChunkType] /\ d[u].free
        /\ \A v \in DOMAIN c : v # u => d[v] = c[v]
    BY <1>0, <1>1a DEF DropChunk, ChunkType
  <1> HIDE DEF d
  <1>3. HeldChunks(class, A \ {u}) = HeldChunks(class, A) \ {u}
    BY Zenon DEF HeldChunks
  <1>4. {v \in DOMAIN d : ~d[v].free} = {v \in DOMAIN c : ~c[v].free} \ {u}
    BY <1>2, Zenon
  <1>5. ChunksMatch(class, d, A \ {u})
    BY <1>0, <1>2, <1>3, <1>4, Zenon DEF ChunksMatch
  <1>6. SlotsMatch(class, s, A \ {u}) /\ BumpMatch(class, b, A \ {u})
    <2>1. /\ HeldSlots(class, A \ {u}) = HeldSlots(class, A)
          /\ HeldBumps(class, A \ {u}) = HeldBumps(class, A)
      <3>1. u \in Nat
        OBVIOUS
      <3> QED BY <3>1, Kinds, OtherKinds, Zenon
    <2> QED BY <2>1, Zenon DEF SlotsMatch, BumpMatch, BlockMatch
  <1> QED BY <1>5, <1>6, Zenon DEF BlockMatch, d

\* Coalescing free chunks drops no header of a chunk that is held.
LEMMA CoalescedMatch ==
  ASSUME NEW class, NEW s, NEW c, NEW b, NEW A, BlockMatch(class, s, c, b, A)
  PROVE  BlockMatch(class, s, Coalesced(c), b, A)
  <1> DEFINE d == Coalesced(c)
  <1>0. /\ DOMAIN c \subseteq 1 .. ChunkEnd - 1 /\ c \in [DOMAIN c -> ChunkType]
        /\ {v \in DOMAIN c : ~c[v].free} = HeldChunks(class, A)
    BY Zenon DEF BlockMatch, ChunksMatch
  <1>1. /\ DOMAIN d = DOMAIN c \ Swallowed(c)
        /\ \A v \in DOMAIN c \ Swallowed(c) : d[v] = c[v]
        /\ d \in [DOMAIN c \ Swallowed(c) -> ChunkType]
    <2> HIDE DEF Swallowed
    <2> QED BY <1>0, Zenon DEF Coalesced
  <1>2. \A v \in Swallowed(c) : c[v].free
    BY Zenon DEF Swallowed
  <1> HIDE DEF d
  <1>3. {v \in DOMAIN d : ~d[v].free} = {v \in DOMAIN c : ~c[v].free}
    BY <1>1, <1>2, Zenon
  <1>4. DOMAIN d \subseteq 1 .. ChunkEnd - 1
    BY <1>0, <1>1, Zenon
  <1> QED BY <1>0, <1>1, <1>3, <1>4, Zenon DEF BlockMatch, ChunksMatch, d

\* AllocBump on a block: memory past everything given so far.
LEMMA TakeBumpMatch ==
  ASSUME NEW class \in Classes, NEW s, NEW c, NEW b, NEW A \in SUBSET Nat, IsFiniteSet(A),
         BlockMatch(class, s, c, b, A), BumpBase(class) <= b.at,
         NEW n \in Nat \ {0}, NEW al \in Nat \ {0}
  PROVE  LET start == BumpStart(b, al) IN
         /\ start \in Nat /\ start \notin A /\ IsBump(class, start) /\ b.at < start
         /\ BumpBase(class) <= TakeBump(b, n, al).at /\ TakeBump(b, n, al).at = start + n
         /\ BlockMatch(class, s, c, TakeBump(b, n, al), A \cup {start})
  <1> DEFINE start == BumpStart(b, al)  d == TakeBump(b, n, al)
  <1>0. /\ b \in BumpType /\ b.n - b.freed = Cardinality(HeldBumps(class, A))
        /\ \A u \in HeldBumps(class, A) : u < b.at
    BY Zenon DEF BlockMatch, BumpMatch
  <1>1. b.at \in Nat /\ b.n \in Int /\ b.freed \in Int
    BY <1>0 DEF BumpType
  <1>2. start \in Nat /\ b.at < start
    BY <1>1, AlignedUp, Zenon DEF BumpStart
  <1>3. d.at = start + n /\ d.n = b.n + 1 /\ d.freed = b.freed /\ d \in BumpType
    <2> HIDE DEF start
    <2>1. d = [b EXCEPT !.at = start + n, !.n = @ + 1]
      BY DEF TakeBump, start
    <2> DEFINE e == [b EXCEPT !.at = start + n]
    <2>2. d = [e EXCEPT !.n = e.n + 1]
      BY <1>0, <2>1, Zenon DEF BumpType
    <2>3. start + n \in Nat
      BY <1>2
    <2>4. e = [at |-> start + n, n |-> b.n, freed |-> b.freed]
      BY <1>0 DEF BumpType
    <2> HIDE DEF d, e
    <2>5. d = [at |-> start + n, n |-> b.n + 1, freed |-> b.freed]
      BY <2>2, <2>4
    <2> QED BY <1>1, <2>3, <2>5 DEF BumpType
  <1> HIDE DEF start, d
  <1>4. IsBump(class, start)
    BY <1>1, <1>2, SlotCount, Sizes DEF IsBump
  <1>5. start \notin A
    <2>1. start \notin HeldBumps(class, A)
      BY <1>0, <1>1, <1>2
    <2> QED BY <1>4, <2>1, Zenon DEF HeldBumps
  <1>6. HeldBumps(class, A \cup {start}) = HeldBumps(class, A) \cup {start}
    BY <1>4, Zenon DEF HeldBumps
  <1>7. Cardinality(HeldBumps(class, A) \cup {start}) = Cardinality(HeldBumps(class, A)) + 1
    <2>1. HeldBumps(class, A) \in SUBSET A /\ start \notin HeldBumps(class, A)
      BY <1>5, Zenon DEF HeldBumps
    <2>2. IsFiniteSet(HeldBumps(class, A))
      BY <2>1, FS_Subset
    <2> QED BY <2>1, <2>2, FS_AddElement, Zenon
  <1>8. BumpMatch(class, d, A \cup {start})
    <2>1. d.n - d.freed = Cardinality(HeldBumps(class, A \cup {start}))
      <3> DEFINE k == Cardinality(HeldBumps(class, A))
                 l == Cardinality(HeldBumps(class, A \cup {start}))
      <3>1. k = b.n - b.freed /\ l = k + 1
        BY <1>0, <1>6, <1>7
      <3> HIDE DEF k, l
      <3> QED BY <1>1, <1>3, <3>1 DEF l
    <2>2. \A u \in HeldBumps(class, A \cup {start}) : u < d.at
      <3>1. HeldBumps(class, A) \subseteq Nat
        BY DEF HeldBumps
      <3> QED BY <1>0, <1>1, <1>2, <1>3, <1>6, <3>1
    <2> QED BY <1>3, <2>1, <2>2, Zenon DEF BumpMatch
  <1>9. SlotsMatch(class, s, A \cup {start}) /\ ChunksMatch(class, c, A \cup {start})
    <2>1. /\ HeldSlots(class, A \cup {start}) = HeldSlots(class, A)
          /\ HeldChunks(class, A \cup {start}) = HeldChunks(class, A)
      BY <1>2, <1>4, Kinds, OtherKinds, Zenon
    <2> QED BY <2>1, Zenon DEF SlotsMatch, ChunksMatch, BlockMatch
  <1>10. BumpBase(class) <= d.at
    BY <1>1, <1>2, <1>3, SlotCount
  <1> QED BY <1>2, <1>3, <1>4, <1>5, <1>8, <1>9, <1>10, Zenon DEF BlockMatch, d, start

\* FreeBump on a block: what is given and not freed are the allocations held.
LEMMA DropBumpMatch ==
  ASSUME NEW class \in Classes, NEW s, NEW c, NEW b, NEW A \in SUBSET Nat, IsFiniteSet(A),
         BlockMatch(class, s, c, b, A), NEW u \in A, IsBump(class, u)
  PROVE  BlockMatch(class, s, c, [b EXCEPT !.freed = @ + 1], A \ {u})
  <1> DEFINE d == [b EXCEPT !.freed = @ + 1]
  <1>0. /\ b \in BumpType /\ b.n - b.freed = Cardinality(HeldBumps(class, A))
        /\ \A v \in HeldBumps(class, A) : v < b.at
    BY Zenon DEF BlockMatch, BumpMatch
  <1>1. b.at \in Nat /\ b.n \in Int /\ b.freed \in Int
    BY <1>0 DEF BumpType
  <1>2. d.at = b.at /\ d.n = b.n /\ d.freed = b.freed + 1 /\ d \in BumpType
    BY <1>0, <1>1 DEF BumpType
  <1> HIDE DEF d
  <1>3. HeldBumps(class, A \ {u}) = HeldBumps(class, A) \ {u} /\ u \in HeldBumps(class, A)
    BY Zenon DEF HeldBumps
  <1>4. Cardinality(HeldBumps(class, A) \ {u}) = Cardinality(HeldBumps(class, A)) - 1
    <2>1. HeldBumps(class, A) \in SUBSET A
      BY Zenon DEF HeldBumps
    <2>2. IsFiniteSet(HeldBumps(class, A))
      BY <2>1, FS_Subset
    <2> QED BY <1>3, <2>2, FS_RemoveElement, Zenon
  <1>5. BumpMatch(class, d, A \ {u})
    <2>1. d.n - d.freed = Cardinality(HeldBumps(class, A \ {u}))
      <3> DEFINE k == Cardinality(HeldBumps(class, A))
                 l == Cardinality(HeldBumps(class, A \ {u}))
      <3>1. k = b.n - b.freed /\ l = k - 1
        BY <1>0, <1>3, <1>4
      <3> HIDE DEF k, l
      <3> QED BY <1>1, <1>2, <3>1 DEF l
    <2> QED BY <1>0, <1>2, <1>3, <2>1, Zenon DEF BumpMatch
  <1>6. SlotsMatch(class, s, A \ {u}) /\ ChunksMatch(class, c, A \ {u})
    <2>1. /\ HeldSlots(class, A \ {u}) = HeldSlots(class, A)
          /\ HeldChunks(class, A \ {u}) = HeldChunks(class, A)
      <3>1. u \in Nat
        OBVIOUS
      <3> QED BY <3>1, Kinds, OtherKinds, Zenon
    <2> QED BY <2>1, Zenon DEF SlotsMatch, ChunksMatch, BlockMatch
  <1> QED BY <1>5, <1>6, Zenon DEF BlockMatch, d

\* A block that was reset has nothing of it held, ...
LEMMA FreshMatch ==
  ASSUME NEW class \in Classes, NEW other \in Classes, NEW zero \in BOOLEAN
  PROVE  /\ BlockMatch(class, NoSlots, FreshChunks(zero), FreshBump(other), {})
         /\ BumpBase(other) <= FreshBump(other).at
  <1>1. HeldSlots(class, {}) = {} /\ HeldChunks(class, {}) = {} /\ HeldBumps(class, {}) = {}
    BY DEF HeldSlots, HeldChunks, HeldBumps
  <1>2. SlotsMatch(class, NoSlots, {})
    <2>1. NoSlots \in SlotType /\ NoSlots.taken = {} /\ NoSlots.full = {} /\ NoSlots.n = 0
      BY DEF NoSlots, SlotType
    <2>2. RegionsMatch(NoSlots)
      <3>1. ASSUME NEW r \in Regions PROVE InRegion({}, r) # 0 .. RegionSlots - 1
        <4>1. r * RegionSlots \in Nat /\ RegionOf(r * RegionSlots) = r
          <5>1. r \in Nat /\ RegionSlots \in Nat \ {0} /\ 0 \in 0 .. RegionSlots - 1
            BY Geometry DEF Regions
          <5>2. (r * RegionSlots + 0) \div RegionSlots = r
            BY <5>1, DivUnique, Zenon
          <5>3. r * RegionSlots \in Nat
            BY <5>1
          <5>4. r * RegionSlots + 0 = r * RegionSlots
            BY <5>3
          <5> QED BY <5>2, <5>3, <5>4 DEF RegionOf
        <4> QED BY <4>1, FreeInRegion
      <3> QED BY <2>1, <3>1 DEF RegionsMatch
    <2> QED BY <1>1, <2>1, <2>2, FS_EmptySet DEF SlotsMatch
  <1>3. ChunksMatch(class, FreshChunks(zero), {})
    BY <1>1, Geometry DEF ChunksMatch, FreshChunks, FirstChunk, ChunkType
  <1>4. BumpMatch(class, FreshBump(other), {}) /\ FreshBump(other).at = BumpBase(other)
    BY <1>1, SlotCount, FS_EmptySet DEF BumpMatch, FreshBump, BumpType
  <1>5. BumpBase(other) \in Nat
    BY SlotCount
  <1> QED BY <1>2, <1>3, <1>4, <1>5 DEF BlockMatch

\* ... and of a block that counts as empty nothing is.
LEMMA EmptyMatch ==
  ASSUME NEW class \in Classes, NEW s, NEW c, NEW b, NEW A \in SUBSET Nat, IsFiniteSet(A),
         BlockMatch(class, s, c, b, A), AllFree(c), s.n = 0, b.n = b.freed
  PROVE  A = {}
  <1>1. HeldSlots(class, A) = {}
    <2>1. IsFiniteSet(s.taken)
      <3>1. s.taken \in SUBSET (0 .. SlotsOf(class) - 1)
        BY Zenon DEF BlockMatch, SlotsMatch
      <3>2. IsFiniteSet(0 .. SlotsOf(class) - 1)
        BY SlotCount, FS_Interval
      <3> QED BY <3>1, <3>2, FS_Subset, Zenon
    <2>2. s.taken = {}
      BY <2>1, FS_EmptySet DEF BlockMatch, SlotsMatch
    <2> QED BY <2>2 DEF BlockMatch, SlotsMatch
  <1>2. HeldChunks(class, A) = {}
    BY Zenon DEF BlockMatch, ChunksMatch, AllFree
  <1>3. HeldBumps(class, A) = {}
    <2>1. HeldBumps(class, A) \in SUBSET A
      BY Zenon DEF HeldBumps
    <2>2. IsFiniteSet(HeldBumps(class, A))
      BY <2>1, FS_Subset
    <2>3. Cardinality(HeldBumps(class, A)) = 0
      BY DEF BlockMatch, BumpMatch, BumpType
    <2> QED BY <2>2, <2>3, FS_EmptySet, Zenon
  <1>4. \A u \in A : IsSlot(class, u) \/ IsChunk(class, u) \/ IsBump(class, u)
    BY Kinds
  <1> QED BY <1>1, <1>2, <1>3, <1>4, Zenon DEF HeldSlots, HeldChunks, HeldBumps
=============================================================================
