----------------------------- MODULE DataLemmas -----------------------------
(***************************************************************************)
(* Facts about sets of numbers, and about what is defined by going through *)
(* a finite set one member at a time, that the proofs of several           *)
(* components use.  The folds and sums of the models are such definitions. *)
(***************************************************************************)
EXTENDS Integers, FiniteSets, WellFoundedInduction, FiniteSetTheorems, TLAPS

\* A set of numbers that is not empty has a least one.
LEMMA Least ==
  ASSUME NEW T \in SUBSET Nat, T # {}
  PROVE  \E x \in T : \A y \in T : x <= y
<1>1. \E x \in T : \A y \in T : <<y, x>> \notin OpToRel(<, Nat)
  BY NatLessThanWellFounded, WFMin, Zenon
<1>2. \A x, y \in Nat : y < x => <<y, x>> \in OpToRel(<, Nat)
  BY Zenon DEF OpToRel
<1>3. \E x \in T : \A y \in T : ~ (y < x)
  BY <1>1, <1>2, Zenon
<1> QED BY <1>3

\* And a greatest, if it is bounded.
LEMMA Greatest ==
  ASSUME NEW T \in SUBSET Nat, T # {}, NEW bound \in Nat, \A x \in T : x <= bound
  PROVE  \E x \in T : \A y \in T : y <= x
<1> DEFINE Gaps == {bound - x : x \in T}
<1>1. Gaps \in SUBSET Nat /\ Gaps # {}
  <2>1. \A x \in T : x \in Nat /\ bound - x \in Nat
    OBVIOUS
  <2> QED BY <2>1
<1>2. PICK g \in Gaps : \A h \in Gaps : g <= h
  BY <1>1, Least
<1>3. PICK x \in T : g = bound - x
  BY <1>2
<1>4. ASSUME NEW y \in T PROVE y <= x
  <2>1. bound - y \in Gaps
    OBVIOUS
  <2>2. g <= bound - y
    BY <1>2, <2>1
  <2> QED BY <1>3, <2>2
<1> QED BY <1>4

\* Finitely many numbers are bounded.
LEMMA Bounded ==
  ASSUME NEW n \in Nat, NEW f, \A k \in 1 .. n : f[k] \in Nat
  PROVE  \E bound \in Nat : \A k \in 1 .. n : f[k] <= bound
<1> DEFINE Has(m) == \E bound \in Nat : \A k \in 1 .. m : f[k] <= bound
           Lacking == {m \in 0 .. n : ~Has(m)}
<1> SUFFICES ASSUME Lacking # {} PROVE FALSE
  <2>1. n \in 0 .. n
    OBVIOUS
  <2> QED BY <2>1
<1>1. PICK m \in Lacking : \A l \in Lacking : m <= l
  <2>1. Lacking \in SUBSET Nat
    OBVIOUS
  <2> QED BY <2>1, Least
<1>2. m \in 0 .. n /\ ~Has(m)
  <2> HIDE DEF Has
  <2> QED OBVIOUS
<1>3. m # 0
  <2>1. Has(0)
    <3>1. 0 \in Nat /\ \A k \in 1 .. 0 : f[k] <= 0
      OBVIOUS
    <3> QED BY <3>1, Zenon
  <2> QED BY <1>2, <2>1
<1>4. m - 1 \in 0 .. n /\ ~(m <= m - 1)
  BY <1>2, <1>3
<1>5. Has(m - 1)
  BY <1>1, <1>4
<1>6. PICK bound \in Nat : \A k \in 1 .. m - 1 : f[k] <= bound
  BY <1>5
<1>7. f[m] \in Nat
  BY <1>2, <1>3
<1> DEFINE more == bound + f[m]
<1>8. more \in Nat /\ \A k \in 1 .. m : f[k] <= more
  <2>1. \A k \in 1 .. m : f[k] \in Nat
    BY <1>2
  <2>2. \A k \in 1 .. m : k \in 1 .. m - 1 \/ k = m
    BY <1>2
  <2>3. \A k \in 1 .. m - 1 : f[k] <= more
    <3>1. ASSUME NEW k \in 1 .. m - 1 PROVE f[k] <= bound + f[m]
      <4>1. f[k] <= bound /\ f[k] \in Nat
        BY <1>6, <2>1
      <4> QED BY <1>7, <4>1
    <3> QED BY <3>1
  <2>4. f[m] <= more /\ more \in Nat
    BY <1>7
  <2> HIDE DEF more
  <2> QED BY <2>2, <2>3, <2>4
<1> QED BY <1>2, <1>8

\* Induction over the numbers, about a set.
LEMMA Counting ==
  ASSUME NEW T \in SUBSET Nat, 0 \in T, \A n \in T : n + 1 \in T
  PROVE  \A n \in Nat : n \in T
<1> SUFFICES ASSUME Nat \ T # {} PROVE FALSE
  OBVIOUS
<1>1. PICK m \in Nat \ T : \A l \in Nat \ T : m <= l
  <2>1. Nat \ T \in SUBSET Nat
    OBVIOUS
  <2> QED BY <2>1, Least
<1>2. m # 0
  OBVIOUS
<1>3. m - 1 \in Nat /\ ~(m <= m - 1)
  BY <1>2
<1>4. m - 1 \in T
  BY <1>1, <1>3
<1>5. (m - 1) + 1 = m
  OBVIOUS
<1>6. m \in T
  BY <1>4, <1>5
<1> QED BY <1>6

\* Finitely many numbers have a greatest.
LEMMA GreatestOfFinite ==
  ASSUME NEW S \in SUBSET Nat, IsFiniteSet(S), S # {}
  PROVE  \E x \in S : \A y \in S : y <= x
<1> DEFINE Tops(s) == \E x \in s : \A y \in s : y <= x
           T == {n \in Nat : \A s \in SUBSET S : Cardinality(s) = n /\ s # {} => Tops(s)}
<1>0. \A s \in SUBSET S : IsFiniteSet(s) /\ Cardinality(s) \in Nat
  BY FS_Subset, FS_CardinalityType
<1>1. 0 \in T
  <2>1. \A s \in SUBSET S : Cardinality(s) = 0 => s = {}
    BY <1>0, FS_EmptySet
  <2> HIDE DEF Tops
  <2> QED BY <2>1
<1>2. ASSUME NEW n \in T PROVE n + 1 \in T
  <2>1. n \in Nat
    BY <1>2
  <2>2. ASSUME NEW s \in SUBSET S, Cardinality(s) = n + 1, s # {} PROVE Tops(s)
    <3> PICK x : x \in s
      BY <2>2
    <3>1. Cardinality(s \ {x}) = n
      <4>1. IsFiniteSet(s) /\ Cardinality(s \ {x}) = Cardinality(s) - 1
        BY <1>0, FS_RemoveElement
      <4> QED BY <2>1, <2>2, <4>1
    <3>2. CASE s \ {x} = {}
      <4>1. \A y \in s : y <= x
        BY <3>2
      <4> QED BY <4>1
    <3>3. CASE s \ {x} # {}
      <4>1. Tops(s \ {x})
        <5>1. s \ {x} \in SUBSET S
          OBVIOUS
        <5> HIDE DEF Tops
        <5> QED BY <1>2, <3>1, <3>3, <5>1
      <4>2. PICK z \in s \ {x} : \A y \in s \ {x} : y <= z
        BY <4>1
      <4>3. x \in Nat /\ z \in Nat /\ \A y \in s : y \in Nat
        OBVIOUS
      <4>4. CASE x <= z
        <5>1. \A y \in s : y <= z
          BY <4>2, <4>4
        <5> QED BY <4>2, <5>1
      <4>5. CASE ~(x <= z)
        <5>1. \A y \in s : y <= x
          <6>1. ASSUME NEW y \in s PROVE y <= x
            <7>1. y = x \/ y <= z
              BY <4>2
            <7> QED BY <4>3, <4>5, <7>1
          <6> QED BY <6>1
        <5> QED BY <5>1
      <4> QED BY <4>4, <4>5
    <3> QED BY <3>2, <3>3
  <2> HIDE DEF Tops
  <2> QED BY <2>1, <2>2
<1> HIDE DEF Tops
<1>3. \A n \in Nat : n \in T
  <2>1. T \in SUBSET Nat
    OBVIOUS
  <2> HIDE DEF T
  <2> QED BY <1>1, <1>2, <2>1, Counting
<1>4. Cardinality(S) \in T
  <2> HIDE DEF T
  <2> QED BY <1>0, <1>3
<1>5. Tops(S)
  BY <1>4
<1> QED BY <1>5 DEF Tops

\* And can be put in order.
LEMMA PutInOrder ==
  ASSUME NEW S \in SUBSET Nat, IsFiniteSet(S)
  PROVE  \E order \in [1 .. Cardinality(S) -> S] :
           \A i, j \in 1 .. Cardinality(S) : i < j => order[i] < order[j]
<1> DEFINE Orders(f, s, n) == /\ f \in [1 .. n -> s]
                              /\ \A i, j \in 1 .. n : i < j => f[i] < f[j]
           T == {n \in Nat : \A s \in SUBSET S : Cardinality(s) = n => \E f : Orders(f, s, n)}
<1>0. \A s \in SUBSET S : IsFiniteSet(s) /\ Cardinality(s) \in Nat
  BY FS_Subset, FS_CardinalityType
<1>1. 0 \in T
  <2>1. ASSUME NEW s \in SUBSET S PROVE \E f : Orders(f, s, 0)
    <3> DEFINE f == [i \in 1 .. 0 |-> 0]
    <3>1. Orders(f, s, 0)
      OBVIOUS
    <3> QED BY <3>1
  <2> HIDE DEF Orders
  <2> QED BY <2>1
<1>2. ASSUME NEW n \in T PROVE n + 1 \in T
  <2>1. n \in Nat
    BY <1>2
  <2>2. ASSUME NEW s \in SUBSET S, Cardinality(s) = n + 1 PROVE \E f : Orders(f, s, n + 1)
    <3>1. s # {}
      <4>1. s = {} => Cardinality(s) = 0
        BY FS_EmptySet
      <4> QED BY <2>1, <2>2, <4>1
    <3>2. PICK x \in s : \A y \in s : x <= y
      BY <3>1, Least
    <3>3. Cardinality(s \ {x}) = n
      <4>1. IsFiniteSet(s) /\ Cardinality(s \ {x}) = Cardinality(s) - 1
        BY <1>0, FS_RemoveElement
      <4> QED BY <2>1, <2>2, <4>1
    <3>4. PICK g : Orders(g, s \ {x}, n)
      <4>1. s \ {x} \in SUBSET S
        OBVIOUS
      <4> HIDE DEF Orders
      <4> QED BY <1>2, <3>3, <4>1
    <3> DEFINE f == [i \in 1 .. n + 1 |-> IF i = 1 THEN x ELSE g[i - 1]]
    <3>5. \A i \in 2 .. n + 1 : i - 1 \in 1 .. n /\ g[i - 1] \in s \ {x}
      BY <2>1, <3>4
    <3>6. f \in [1 .. n + 1 -> s]
      <4>1. \A i \in 1 .. n + 1 : i = 1 \/ i \in 2 .. n + 1
        BY <2>1
      <4> QED BY <3>5, <4>1
    <3>7. ASSUME NEW i \in 1 .. n + 1, NEW j \in 1 .. n + 1, i < j PROVE f[i] < f[j]
      <4>1. j \in 2 .. n + 1 /\ f[j] = g[j - 1]
        BY <2>1, <3>7
      <4>2. CASE i = 1
        <5>1. f[i] = x /\ g[j - 1] \in s /\ g[j - 1] # x
          BY <3>5, <4>1, <4>2
        <5>2. x <= g[j - 1] /\ x \in Nat /\ g[j - 1] \in Nat
          BY <3>2, <5>1
        <5> HIDE DEF f
        <5> QED BY <4>1, <5>1, <5>2
      <4>3. CASE i # 1
        <5>1. f[i] = g[i - 1] /\ i \in 2 .. n + 1
          BY <2>1, <4>3
        <5>2. i - 1 \in 1 .. n /\ j - 1 \in 1 .. n /\ i - 1 < j - 1
          BY <2>1, <3>7, <4>1, <5>1
        <5>3. g[i - 1] < g[j - 1]
          BY <3>4, <5>2
        <5> HIDE DEF f
        <5> QED BY <4>1, <5>1, <5>3
      <4> QED BY <4>2, <4>3
    <3> HIDE DEF f
    <3>8. Orders(f, s, n + 1)
      BY <3>6, <3>7
    <3> HIDE DEF Orders
    <3> QED BY <3>8
  <2> HIDE DEF Orders
  <2> QED BY <2>1, <2>2
<1> HIDE DEF Orders
<1>3. \A n \in Nat : n \in T
  <2>1. T \in SUBSET Nat
    OBVIOUS
  <2> HIDE DEF T
  <2> QED BY <1>1, <1>2, <2>1, Counting
<1>4. Cardinality(S) \in T
  <2> HIDE DEF T
  <2> QED BY <1>0, <1>3
<1>5. PICK f : Orders(f, S, Cardinality(S))
  BY <1>4
<1> QED BY <1>5 DEF Orders

-----------------------------------------------------------------------------
(* Folds over a finite set D: pick is the member taken first from a subset, *)
(* step what is made of that member and of the fold of the others.          *)

Steps(D, pick, base, step, h) ==
  h = [s \in SUBSET D |-> IF s = {} THEN base ELSE step[<<pick[s], h[s \ {pick[s]}]>>]]

\* There is such a function, with values where the steps stay.
LEMMA FoldExists ==
  ASSUME NEW D, IsFiniteSet(D),
         NEW pick, \A s \in SUBSET D : s # {} => pick[s] \in s,
         NEW V, NEW base \in V, NEW step \in [D \X V -> V]
  PROVE  \E h \in [SUBSET D -> V] : Steps(D, pick, base, step, h)
<1> DEFINE Fits(h, k) ==
             \A s \in SUBSET D : Cardinality(s) <= k =>
               h[s] = IF s = {} THEN base ELSE step[<<pick[s], h[s \ {pick[s]}]>>]
           T == {k \in Nat : \E h \in [SUBSET D -> V] : Fits(h, k)}
<1>0. \A s \in SUBSET D : IsFiniteSet(s) /\ Cardinality(s) \in Nat /\ Cardinality(s) <= Cardinality(D)
  BY FS_Subset, FS_CardinalityType
<1>e. \A s \in SUBSET D : s # {} => /\ pick[s] \in s /\ s \ {pick[s]} \in SUBSET D
                                    /\ Cardinality(s \ {pick[s]}) = Cardinality(s) - 1
  BY <1>0, FS_RemoveElement
<1>1. 0 \in T
  <2> DEFINE h == [s \in SUBSET D |-> base]
  <2>1. h \in [SUBSET D -> V]
    OBVIOUS
  <2>2. ASSUME NEW s \in SUBSET D, Cardinality(s) <= 0 PROVE s = {}
    BY <1>0, <2>2, FS_EmptySet
  <2>3. Fits(h, 0)
    BY <2>2
  <2> HIDE DEF h
  <2> QED BY <2>1, <2>3
<1>2. ASSUME NEW k \in T PROVE k + 1 \in T
  <2>1. PICK g \in [SUBSET D -> V] : Fits(g, k)
    BY <1>2
  <2> DEFINE h == [s \in SUBSET D |-> IF Cardinality(s) <= k THEN g[s]
                                      ELSE step[<<pick[s], g[s \ {pick[s]}]>>]]
  <2>2. k \in Nat
    BY <1>2
  <2>3. ASSUME NEW s \in SUBSET D, ~(Cardinality(s) <= k) PROVE s # {}
    <3>1. s = {} => Cardinality(s) = 0
      BY FS_EmptySet
    <3> QED BY <2>2, <2>3, <3>1
  <2>4. h \in [SUBSET D -> V]
    <3>1. ASSUME NEW s \in SUBSET D PROVE (IF Cardinality(s) <= k THEN g[s]
                                      ELSE step[<<pick[s], g[s \ {pick[s]}]>>]) \in V
      <4>1. CASE Cardinality(s) <= k
        BY <4>1
      <4>2. CASE ~(Cardinality(s) <= k)
        <5>1. s # {}
          BY <2>3, <4>2
        <5>2. <<pick[s], g[s \ {pick[s]}]>> \in D \X V
          BY <1>e, <5>1
        <5> QED BY <4>2, <5>2
      <4> QED BY <4>1, <4>2
    <3> QED BY <3>1
  <2>5. ASSUME NEW s \in SUBSET D, Cardinality(s) <= k + 1
        PROVE  h[s] = IF s = {} THEN base ELSE step[<<pick[s], h[s \ {pick[s]}]>>]
    <3>1. s # {} => h[s \ {pick[s]}] = g[s \ {pick[s]}]
      BY <1>0, <1>e, <2>2, <2>5
    <3>2. CASE Cardinality(s) <= k
      <4>1. h[s] = g[s]
        BY <3>2
      <4>2. g[s] = IF s = {} THEN base ELSE step[<<pick[s], g[s \ {pick[s]}]>>]
        BY <2>1, <3>2
      <4> QED BY <3>1, <4>1, <4>2
    <3>3. CASE ~(Cardinality(s) <= k)
      <4>1. h[s] = step[<<pick[s], g[s \ {pick[s]}]>>]
        BY <3>3
      <4>2. s # {}
        BY <2>3, <3>3
      <4> QED BY <3>1, <4>1, <4>2
    <3> QED BY <3>2, <3>3
  <2> HIDE DEF h
  <2>6. Fits(h, k + 1)
    BY <2>5
  <2> HIDE DEF Fits
  <2> QED BY <2>2, <2>4, <2>6
<1> HIDE DEF Fits
<1>3. \A n \in Nat : n \in T
  <2>1. T \in SUBSET Nat
    OBVIOUS
  <2> HIDE DEF T
  <2> QED BY <1>1, <1>2, <2>1, Counting
<1>4. Cardinality(D) \in Nat
  BY FS_CardinalityType
<1>5. PICK h \in [SUBSET D -> V] : Fits(h, Cardinality(D))
  BY <1>3, <1>4
<1>6. \A s \in SUBSET D : h[s] = IF s = {} THEN base ELSE step[<<pick[s], h[s \ {pick[s]}]>>]
  BY <1>0, <1>5 DEF Fits
<1>7. h = [s \in SUBSET D |-> h[s]]
  BY <1>5
<1>8. Steps(D, pick, base, step, h)
  BY <1>6, <1>7, Zenon DEF Steps
<1> QED BY <1>5, <1>8
-----------------------------------------------------------------------------
(* Sums over a finite set.  The library folds a set by choosing members in  *)
(* some order; v is the sum of f over S when such a fold makes it.          *)

AnyOf(D) == [s \in SUBSET D |-> CHOOSE x \in s : TRUE]

Adds(D, f, h) ==
  /\ h \in [SUBSET D -> Int]
  /\ \A s \in SUBSET D :
       h[s] = IF s = {} THEN 0 ELSE f[AnyOf(D)[s]] + h[s \ {AnyOf(D)[s]}]

IsSum(D, f, v) == \E h : Adds(D, f, h) /\ v = h[D]

LEMMA AnyOfIsOne ==
  ASSUME NEW D, NEW s \in SUBSET D, s # {}
  PROVE  AnyOf(D)[s] \in s /\ AnyOf(D)[s] = CHOOSE x \in s : TRUE
BY DEF AnyOf

\* There is a sum.
LEMMA SumExists ==
  ASSUME NEW D, IsFiniteSet(D), NEW f, \A x \in D : f[x] \in Int
  PROVE  \E h : Adds(D, f, h)
<1> DEFINE step == [q \in D \X Int |-> f[q[1]] + q[2]]
<1>1. step \in [D \X Int -> Int] /\ 0 \in Int
  OBVIOUS
<1>2. \A s \in SUBSET D : s # {} => AnyOf(D)[s] \in s
  BY AnyOfIsOne
<1>3. PICK h \in [SUBSET D -> Int] : Steps(D, AnyOf(D), 0, step, h)
  <2> HIDE DEF step
  <2> QED BY <1>1, <1>2, FoldExists
<1>4. ASSUME NEW s \in SUBSET D
      PROVE  h[s] = IF s = {} THEN 0 ELSE f[AnyOf(D)[s]] + h[s \ {AnyOf(D)[s]}]
  <2>1. h[s] = IF s = {} THEN 0 ELSE step[<<AnyOf(D)[s], h[s \ {AnyOf(D)[s]}]>>]
    <3> HIDE DEF step
    <3> QED BY <1>3 DEF Steps
  <2>2. s # {} => AnyOf(D)[s] \in D /\ h[s \ {AnyOf(D)[s]}] \in Int
    BY <1>2
  <2> QED BY <2>1, <2>2
<1> QED BY <1>4 DEF Adds

\* What the library's operators choose is a fold of this form.
IsFold(D, f, k) ==
  k = [s \in SUBSET D |-> IF s = {} THEN 0
         ELSE f[CHOOSE x \in s : TRUE] + k[s \ {CHOOSE x \in s : TRUE}]]

LEMMA FoldIsSum ==
  ASSUME NEW D, IsFiniteSet(D), NEW f, \A x \in D : f[x] \in Int
  PROVE  /\ \E k : IsFold(D, f, k)
         /\ \A k : IsFold(D, f, k) => IsSum(D, f, k[D])
<1>0. \A s \in SUBSET D : IsFiniteSet(s) /\ Cardinality(s) \in Nat
  BY FS_Subset, FS_CardinalityType
<1>1. PICK h : Adds(D, f, h)
  BY SumExists
<1>2. IsFold(D, f, h)
  <2>1. ASSUME NEW s \in SUBSET D
        PROVE  h[s] = IF s = {} THEN 0
                      ELSE f[CHOOSE x \in s : TRUE] + h[s \ {CHOOSE x \in s : TRUE}]
    <3>1. s # {} => AnyOf(D)[s] = CHOOSE x \in s : TRUE
      BY AnyOfIsOne
    <3>2. h[s] = IF s = {} THEN 0 ELSE f[AnyOf(D)[s]] + h[s \ {AnyOf(D)[s]}]
      BY <1>1 DEF Adds
    <3> QED BY <3>1, <3>2, Zenon
  <2>2. h = [s \in SUBSET D |-> h[s]]
    BY <1>1 DEF Adds
  <2> QED BY <2>1, <2>2, Zenon DEF IsFold
<1>3. ASSUME NEW k, IsFold(D, f, k) PROVE IsSum(D, f, k[D])
  <2>1. ASSUME NEW s \in SUBSET D, s # {}
        PROVE  k[s] = f[AnyOf(D)[s]] + k[s \ {AnyOf(D)[s]}]
    <3>1. AnyOf(D)[s] = CHOOSE x \in s : TRUE
      BY <2>1, AnyOfIsOne
    <3>2. k[s] = f[CHOOSE x \in s : TRUE] + k[s \ {CHOOSE x \in s : TRUE}]
      BY <1>3, <2>1 DEF IsFold
    <3> QED BY <3>1, <3>2, Zenon
  <2>2. k[{}] = 0
    BY <1>3 DEF IsFold
  <2>3. k = [s \in SUBSET D |-> k[s]]
    BY <1>3 DEF IsFold
  <2> DEFINE T == {n \in Nat : \A s \in SUBSET D : Cardinality(s) = n => k[s] \in Int}
  <2>4. 0 \in T
    <3>1. \A s \in SUBSET D : Cardinality(s) = 0 => s = {}
      BY <1>0, FS_EmptySet
    <3> QED BY <2>2, <3>1
  <2>5. ASSUME NEW n \in T PROVE n + 1 \in T
    <3>1. n \in Nat
      BY <2>5
    <3>2. ASSUME NEW s \in SUBSET D, Cardinality(s) = n + 1 PROVE k[s] \in Int
      <4>1. s # {}
        <5>1. s = {} => Cardinality(s) = 0
          BY FS_EmptySet
        <5> QED BY <3>1, <3>2, <5>1
      <4> PICK x : x = AnyOf(D)[s] OBVIOUS
      <4>2. x \in s /\ x \in D /\ s \ {x} \in SUBSET D /\ k[s] = f[x] + k[s \ {x}]
        BY <2>1, <4>1, AnyOfIsOne
      <4>3. Cardinality(s \ {x}) = n
        <5>1. IsFiniteSet(s) /\ Cardinality(s \ {x}) = Cardinality(s) - 1
          BY <1>0, <4>2, FS_RemoveElement
        <5> QED BY <3>1, <3>2, <5>1
      <4>4. k[s \ {x}] \in Int
        BY <2>5, <4>2, <4>3
      <4> QED BY <4>2, <4>4
    <3> QED BY <3>1, <3>2
  <2>6. \A n \in Nat : n \in T
    <3>1. T \in SUBSET Nat
      OBVIOUS
    <3> HIDE DEF T
    <3> QED BY <2>4, <2>5, <3>1, Counting
  <2>7. ASSUME NEW s \in SUBSET D PROVE k[s] \in Int
    <3>1. Cardinality(s) \in T
      <4> HIDE DEF T
      <4> QED BY <1>0, <2>6
    <3> QED BY <3>1
  <2>8. Adds(D, f, k)
    BY <2>1, <2>2, <2>3, <2>7 DEF Adds
  <2> QED BY <2>8 DEF IsSum
<1> QED BY <1>2, <1>3

\* It does not matter which member is taken first.
LEMMA SumTakes ==
  ASSUME NEW D, IsFiniteSet(D), NEW f, \A x \in D : f[x] \in Int, NEW h, Adds(D, f, h)
  PROVE  \A s \in SUBSET D, x \in D : x \in s => h[s] = f[x] + h[s \ {x}]
<1> DEFINE T == {k \in Nat : \A s \in SUBSET D, x \in D :
                   x \in s /\ Cardinality(s) = k => h[s] = f[x] + h[s \ {x}]}
<1>0. \A s \in SUBSET D : IsFiniteSet(s) /\ Cardinality(s) \in Nat
  BY FS_Subset, FS_CardinalityType
<1>1. 0 \in T
  <2>1. \A s \in SUBSET D : Cardinality(s) = 0 => s = {}
    BY <1>0, FS_EmptySet
  <2> QED BY <2>1
<1>2. ASSUME NEW k \in T PROVE k + 1 \in T
  <2>1. k \in Nat
    BY <1>2
  <2>2. ASSUME NEW s \in SUBSET D, NEW x \in D, x \in s, Cardinality(s) = k + 1
        PROVE  h[s] = f[x] + h[s \ {x}]
    <3> PICK y : y = AnyOf(D)[s] OBVIOUS
    <3>1. y \in s /\ y \in D /\ h[s] = f[y] + h[s \ {y}]
      BY <2>2, AnyOfIsOne DEF Adds
    <3>2. CASE x = y
      BY <3>1, <3>2
    <3>3. CASE x # y
      <4> DEFINE rest == (s \ {x}) \ {y}
      <4>1. /\ Cardinality(s \ {x}) = k /\ Cardinality(s \ {y}) = k
            /\ s \ {x} \in SUBSET D /\ s \ {y} \in SUBSET D /\ rest = (s \ {y}) \ {x}
        BY <1>0, <2>1, <2>2, <3>1, FS_RemoveElement
      <4>2. h[s \ {y}] = f[x] + h[rest]
        <5>1. x \in s \ {y}
          BY <2>2, <3>3
        <5> QED BY <1>2, <4>1, <5>1
      <4>3. h[s \ {x}] = f[y] + h[rest]
        <5>1. y \in s \ {x}
          BY <3>1, <3>3
        <5> QED BY <1>2, <3>1, <4>1, <5>1
      <4>4. h[rest] \in Int /\ f[x] \in Int /\ f[y] \in Int
        <5>1. rest \in SUBSET D
          BY <4>1
        <5> HIDE DEF rest
        <5> QED BY <3>1, <5>1 DEF Adds
      <4> HIDE DEF rest
      <4> QED BY <3>1, <4>2, <4>3, <4>4
    <3> QED BY <3>2, <3>3
  <2> QED BY <2>1, <2>2
<1>3. \A n \in Nat : n \in T
  <2>1. T \in SUBSET Nat
    OBVIOUS
  <2> HIDE DEF T
  <2> QED BY <1>1, <1>2, <2>1, Counting
<1>4. ASSUME NEW s \in SUBSET D, NEW x \in D, x \in s PROVE h[s] = f[x] + h[s \ {x}]
  <2>1. Cardinality(s) \in T
    <3> HIDE DEF T
    <3> QED BY <1>0, <1>3
  <2> QED BY <1>4, <2>1
<1> QED BY <1>4

\* Nor what lies outside the set, nor how it was folded.
LEMMA SumAgrees ==
  ASSUME NEW D, IsFiniteSet(D), NEW E, IsFiniteSet(E), NEW f, NEW g,
         \A x \in D : f[x] \in Int, \A x \in E : g[x] \in Int,
         NEW h, Adds(D, f, h), NEW k, Adds(E, g, k)
  PROVE  \A s \in SUBSET (D \cap E) : (\A x \in s : f[x] = g[x]) => h[s] = k[s]
<1> DEFINE T == {n \in Nat : \A s \in SUBSET (D \cap E) :
                   Cardinality(s) = n /\ (\A x \in s : f[x] = g[x]) => h[s] = k[s]}
<1>a. /\ \A s \in SUBSET D, x \in D : x \in s => h[s] = f[x] + h[s \ {x}]
      /\ \A s \in SUBSET E, x \in E : x \in s => k[s] = g[x] + k[s \ {x}]
  BY SumTakes
<1>0. \A s \in SUBSET (D \cap E) : IsFiniteSet(s) /\ Cardinality(s) \in Nat
  BY FS_Subset, FS_CardinalityType
<1>1. 0 \in T
  <2>1. \A s \in SUBSET (D \cap E) : Cardinality(s) = 0 => s = {}
    BY <1>0, FS_EmptySet
  <2>2. h[{}] = 0 /\ k[{}] = 0
    BY DEF Adds
  <2> QED BY <2>1, <2>2
<1>2. ASSUME NEW n \in T PROVE n + 1 \in T
  <2>1. n \in Nat
    BY <1>2
  <2>2. ASSUME NEW s \in SUBSET (D \cap E), Cardinality(s) = n + 1, \A x \in s : f[x] = g[x]
        PROVE  h[s] = k[s]
    <3>1. s # {}
      <4>1. s = {} => Cardinality(s) = 0
        BY FS_EmptySet
      <4> QED BY <2>1, <2>2, <4>1
    <3>2. PICK x \in s : TRUE
      BY <3>1
    <3>3. /\ s \ {x} \in SUBSET (D \cap E)
          /\ s \in SUBSET D /\ s \in SUBSET E /\ x \in D /\ x \in E
      OBVIOUS
    <3>7. Cardinality(s \ {x}) = n
      <4>1. IsFiniteSet(s) /\ Cardinality(s \ {x}) = Cardinality(s) - 1
        BY <1>0, FS_RemoveElement
      <4> QED BY <2>1, <2>2, <4>1
    <3>4. h[s \ {x}] = k[s \ {x}]
      BY <1>2, <2>2, <3>3, <3>7
    <3>5. h[s] = f[x] + h[s \ {x}]
      BY <1>a, <3>3
    <3>6. k[s] = g[x] + k[s \ {x}]
      BY <1>a, <3>3
    <3> QED BY <2>2, <3>4, <3>5, <3>6
  <2> QED BY <2>1, <2>2
<1>3. \A n \in Nat : n \in T
  <2>1. T \in SUBSET Nat
    OBVIOUS
  <2> HIDE DEF T
  <2> QED BY <1>1, <1>2, <2>1, Counting
<1>4. ASSUME NEW s \in SUBSET (D \cap E), \A x \in s : f[x] = g[x] PROVE h[s] = k[s]
  <2>1. Cardinality(s) \in T
    <3> HIDE DEF T
    <3> QED BY <1>0, <1>3
  <2> QED BY <1>4, <2>1
<1> QED BY <1>4

\* A sum is a number, and there is one.
LEMMA SumType ==
  ASSUME NEW D, NEW f, NEW v, IsSum(D, f, v)
  PROVE  v \in Int
BY DEF IsSum, Adds

LEMMA SumUnique ==
  ASSUME NEW D, IsFiniteSet(D), NEW f, NEW g, \A x \in D : f[x] \in Int,
         \A x \in D : f[x] = g[x], NEW v, IsSum(D, f, v), NEW w, IsSum(D, g, w)
  PROVE  v = w
<1>1. PICK h : Adds(D, f, h) /\ v = h[D]
  BY DEF IsSum
<1>2. PICK k : Adds(D, g, k) /\ w = k[D]
  BY DEF IsSum
<1>3. D \in SUBSET (D \cap D) /\ \A x \in D : g[x] \in Int
  OBVIOUS
<1> QED BY <1>1, <1>2, <1>3, SumAgrees

LEMMA SumOfNone ==
  ASSUME NEW f, NEW v, IsSum({}, f, v)
  PROVE  v = 0
BY DEF IsSum, Adds

\* Of zeros.
LEMMA SumOfZeros ==
  ASSUME NEW D, IsFiniteSet(D), NEW f, \A x \in D : f[x] = 0, NEW v, IsSum(D, f, v)
  PROVE  v = 0
<1> DEFINE h == [s \in SUBSET D |-> 0]
<1>1. Adds(D, f, h)
  <2>1. \A s \in SUBSET D : s # {} => AnyOf(D)[s] \in s
    BY AnyOfIsOne
  <2>2. h \in [SUBSET D -> Int]
    OBVIOUS
  <2>3. \A s \in SUBSET D : h[s] = 0
    OBVIOUS
  <2> HIDE DEF h
  <2> QED BY <2>1, <2>2, <2>3 DEF Adds
<1>2. h[D] = 0
  OBVIOUS
<1> HIDE DEF h
<1>3. IsSum(D, f, 0)
  BY <1>1, <1>2 DEF IsSum
<1>4. \A x \in D : f[x] \in Int /\ f[x] = f[x]
  OBVIOUS
<1> QED BY <1>3, <1>4, SumUnique

\* Without one of the members.
LEMMA SumWithout ==
  ASSUME NEW D, IsFiniteSet(D), NEW f, \A x \in D : f[x] \in Int, NEW v, IsSum(D, f, v),
         NEW x \in D
  PROVE  IsSum(D \ {x}, f, v - f[x])
<1>1. PICK h : Adds(D, f, h) /\ v = h[D]
  BY DEF IsSum
<1>2. IsFiniteSet(D \ {x}) /\ D \ {x} \in SUBSET D /\ D \in SUBSET D
  BY FS_Subset
<1>3. PICK k : Adds(D \ {x}, f, k)
  BY <1>2, SumExists
<1>4. k[D \ {x}] = h[D \ {x}]
  <2>1. D \ {x} \in SUBSET (D \cap (D \ {x}))
    OBVIOUS
  <2> QED BY <1>1, <1>2, <1>3, <2>1, SumAgrees
<1>5. h[D] = f[x] + h[D \ {x}]
  <2>1. \A s \in SUBSET D, y \in D : y \in s => h[s] = f[y] + h[s \ {y}]
    BY <1>1, SumTakes
  <2> QED BY <1>2, <2>1
<1>6. h[D \ {x}] \in Int /\ f[x] \in Int
  BY <1>1, <1>2 DEF Adds
<1>7. k[D \ {x}] = v - f[x]
  BY <1>1, <1>4, <1>5, <1>6
<1> QED BY <1>3, <1>7 DEF IsSum

\* With another value of one member.
LEMMA SumChanges ==
  ASSUME NEW D, IsFiniteSet(D), NEW f, NEW g, \A x \in D : f[x] \in Int,
         \A x \in D : g[x] \in Int, NEW v, IsSum(D, f, v), NEW w, IsSum(D, g, w),
         NEW x \in D, \A y \in D \ {x} : f[y] = g[y]
  PROVE  w = v - f[x] + g[x]
<1>1. IsSum(D \ {x}, f, v - f[x]) /\ IsSum(D \ {x}, g, w - g[x])
  BY SumWithout
<1>2. IsFiniteSet(D \ {x}) /\ \A y \in D \ {x} : f[y] \in Int
  BY FS_Subset
<1> PICK a, b : a = v - f[x] /\ b = w - g[x]
  OBVIOUS
<1>3. a = b
  BY <1>1, <1>2, SumUnique
<1>4. v \in Int /\ w \in Int /\ f[x] \in Int /\ g[x] \in Int
  BY SumType
<1> QED BY <1>3, <1>4

\* A sum of what is not negative is not, and is no less than any of it.
LEMMA SumOfNaturals ==
  ASSUME NEW D, IsFiniteSet(D), NEW f, \A x \in D : f[x] \in Nat, NEW v, IsSum(D, f, v)
  PROVE  v \in Nat /\ \A x \in D : f[x] <= v
<1>1. PICK h : Adds(D, f, h) /\ v = h[D]
  BY DEF IsSum
<1>0. \A s \in SUBSET D : IsFiniteSet(s) /\ Cardinality(s) \in Nat
  BY FS_Subset, FS_CardinalityType
<1> DEFINE T == {n \in Nat : \A s \in SUBSET D : Cardinality(s) = n => h[s] \in Nat}
<1>a. \A s \in SUBSET D, x \in D : x \in s => h[s] = f[x] + h[s \ {x}]
  <2>1. \A x \in D : f[x] \in Int
    OBVIOUS
  <2> QED BY <1>1, <2>1, SumTakes
<1>2. 0 \in T
  <2>1. \A s \in SUBSET D : Cardinality(s) = 0 => s = {}
    BY <1>0, FS_EmptySet
  <2>2. h[{}] = 0
    BY <1>1 DEF Adds
  <2> QED BY <2>1, <2>2
<1>3. ASSUME NEW n \in T PROVE n + 1 \in T
  <2>1. n \in Nat
    BY <1>3
  <2>2. ASSUME NEW s \in SUBSET D, Cardinality(s) = n + 1 PROVE h[s] \in Nat
    <3>1. s # {}
      <4>1. s = {} => Cardinality(s) = 0
        BY FS_EmptySet
      <4> QED BY <2>1, <2>2, <4>1
    <3>2. PICK x \in s : TRUE
      BY <3>1
    <3>3. Cardinality(s \ {x}) = n /\ s \ {x} \in SUBSET D /\ x \in D
      <4>1. IsFiniteSet(s) /\ Cardinality(s \ {x}) = Cardinality(s) - 1
        BY <1>0, FS_RemoveElement
      <4> QED BY <2>1, <2>2, <4>1
    <3>4. h[s \ {x}] \in Nat
      BY <1>3, <3>3
    <3>5. h[s] = f[x] + h[s \ {x}]
      BY <1>a, <3>3
    <3> QED BY <3>3, <3>4, <3>5
  <2> QED BY <2>1, <2>2
<1>4. \A n \in Nat : n \in T
  <2>1. T \in SUBSET Nat
    OBVIOUS
  <2> HIDE DEF T
  <2> QED BY <1>2, <1>3, <2>1, Counting
<1>5. ASSUME NEW s \in SUBSET D PROVE h[s] \in Nat
  <2>1. Cardinality(s) \in T
    <3> HIDE DEF T
    <3> QED BY <1>0, <1>4
  <2> QED BY <2>1
<1>6. ASSUME NEW x \in D PROVE f[x] <= v
  <2>1. D \in SUBSET D /\ D \ {x} \in SUBSET D
    OBVIOUS
  <2>2. h[D] = f[x] + h[D \ {x}] /\ h[D \ {x}] \in Nat
    BY <1>a, <1>5, <2>1
  <2> QED BY <1>1, <2>2
<1>7. v \in Nat
  <2>1. D \in SUBSET D
    OBVIOUS
  <2> QED BY <1>1, <1>5, <2>1
<1> QED BY <1>6, <1>7
=============================================================================
