------------------------------ MODULE Listings ------------------------------
(***************************************************************************)
(* Facts about a finite set that is listed in an order and read by limit   *)
(* and offset (the records of ACS, the alerts of the console), or of which *)
(* one is chosen (the run a status shows).  An order is the set of the     *)
(* pairs whose first comes before the second.                              *)
(***************************************************************************)
EXTENDS Integers, FiniteSetTheorems, FunctionTheorems, TLAPS

(* Counting what is in one of two lists. *)
LEMMA Disjoint ==
  ASSUME NEW S, NEW T, IsFiniteSet(S), IsFiniteSet(T), S \intersect T = {}
  PROVE  /\ IsFiniteSet(S \union T)
         /\ Cardinality(S \union T) = Cardinality(S) + Cardinality(T)
<1>1. Cardinality(S \intersect T) = 0
  BY FS_EmptySet
<1>2. Cardinality(S) \in Nat /\ Cardinality(T) \in Nat
  BY FS_CardinalityType
<1>3. /\ IsFiniteSet(S \union T)
      /\ Cardinality(S \union T)
           = Cardinality(S) + Cardinality(T) - Cardinality(S \intersect T)
  BY FS_Union
<1>. QED BY <1>1, <1>2, <1>3

(* What a function makes of a finite set is finite. *)
LEMMA ImageFinite ==
  ASSUME NEW S, IsFiniteSet(S), NEW f
  PROVE  /\ IsFiniteSet({f[x] : x \in S})
         /\ Cardinality({f[x] : x \in S}) \in Nat
<1> DEFINE g == [x \in S |-> f[x]]
           T == {f[x] : x \in S}
<1>1. g \in [S -> T] /\ \A y \in T : \E x \in S : g[x] = y
  OBVIOUS
<1> HIDE DEF g, T
<1>2. g \in Surjection(S, T)
  BY <1>1, Fun_IsSurj
<1>. QED BY <1>2, FS_Surjection, FS_CardinalityType DEF T

LEMMA BijectionIs ==
  ASSUME NEW S, NEW T, NEW h \in Bijection(S, T)
  PROVE  /\ \A x \in S : h[x] \in T
         /\ \A x, y \in S : h[x] = h[y] => x = y
         /\ \A y \in T : \E x \in S : h[x] = y
BY DEF Bijection, Injection, Surjection, IsInjective

LEMMA ThreeFinite == \A a, b, c : IsFiniteSet({a, b, c})
<1> SUFFICES ASSUME NEW a, NEW b, NEW c PROVE IsFiniteSet({a, b, c})
  OBVIOUS
<1>1. IsFiniteSet({a}) /\ IsFiniteSet({b}) /\ IsFiniteSet({c})
  BY FS_Singleton
<1>2. IsFiniteSet({a} \union {b})
  BY <1>1, FS_Union
<1>3. IsFiniteSet(({a} \union {b}) \union {c})
  BY <1>1, <1>2, FS_Union
<1>4. {a, b, c} = ({a} \union {b}) \union {c}
  OBVIOUS
<1>. QED BY <1>3, <1>4

IsOrder(R, S) ==
  /\ \A x \in S : <<x, x>> \notin R
  /\ \A x, y, z \in S : <<x, y>> \in R /\ <<y, z>> \in R => <<x, z>> \in R
  /\ \A x, y \in S : x = y \/ <<x, y>> \in R \/ <<y, x>> \in R

Ahead(R, S, x) == {y \in S : <<y, x>> \in R}
Rank(R, S, x) == Cardinality(Ahead(R, S, x))

(* n elements from offset a on. *)
Slice(R, S, a, n) == {x \in S : Rank(R, S, x) \in a..(a + n - 1)}

LEMMA RankType ==
  ASSUME NEW S, IsFiniteSet(S), NEW R, NEW x
  PROVE  Rank(R, S, x) \in Nat
<1>1. Ahead(R, S, x) \in SUBSET S
  BY DEF Ahead
<1>. QED BY <1>1, FS_Subset, FS_CardinalityType DEF Rank

(* A list that gains elements moves none towards its head. *)
LEMMA RankGrows ==
  ASSUME NEW T, IsFiniteSet(T), NEW S \in SUBSET T, NEW R, NEW x
  PROVE  Rank(R, S, x) <= Rank(R, T, x)
<1>1. Ahead(R, S, x) \in SUBSET Ahead(R, T, x) /\ Ahead(R, T, x) \in SUBSET T
  BY DEF Ahead
<1>. QED BY <1>1, FS_Subset DEF Rank

LEMMA RankBelow ==
  ASSUME NEW S, IsFiniteSet(S), NEW R, IsOrder(R, S), NEW x \in S
  PROVE  Rank(R, S, x) \in 0..(Cardinality(S) - 1)
<1>1. Ahead(R, S, x) \in SUBSET S /\ x \notin Ahead(R, S, x)
  BY DEF Ahead, IsOrder
<1>2. Rank(R, S, x) <= Cardinality(S) /\ Rank(R, S, x) # Cardinality(S)
  BY <1>1, FS_Subset DEF Rank
<1>3. Rank(R, S, x) \in Nat /\ Cardinality(S) \in Nat
  BY RankType, FS_CardinalityType
<1>. QED BY <1>2, <1>3

LEMMA RankOrdered ==
  ASSUME NEW S, IsFiniteSet(S), NEW R, IsOrder(R, S),
         NEW x \in S, NEW y \in S, <<x, y>> \in R
  PROVE  Rank(R, S, x) < Rank(R, S, y)
<1>1. /\ Ahead(R, S, x) \in SUBSET Ahead(R, S, y)
      /\ Ahead(R, S, y) \in SUBSET S
      /\ x \in Ahead(R, S, y) /\ x \notin Ahead(R, S, x)
  BY DEF Ahead, IsOrder
<1>2. IsFiniteSet(Ahead(R, S, y))
  BY <1>1, FS_Subset
<1>3. Rank(R, S, x) <= Rank(R, S, y) /\ Rank(R, S, x) # Rank(R, S, y)
  BY <1>1, <1>2, FS_Subset DEF Rank
<1>4. Rank(R, S, x) \in Nat /\ Rank(R, S, y) \in Nat
  BY RankType
<1>. QED BY <1>3, <1>4

(* No two elements have one rank, and no rank below the length is free.    *)
LEMMA RanksAreDistinct ==
  ASSUME NEW S, IsFiniteSet(S), NEW R, IsOrder(R, S), NEW x \in S, NEW y \in S,
         Rank(R, S, x) = Rank(R, S, y)
  PROVE  x = y
<1>1. Rank(R, S, x) \in Nat
  BY RankType
<1>2. <<x, y>> \notin R /\ <<y, x>> \notin R
  BY <1>1, RankOrdered
<1>. QED BY <1>2 DEF IsOrder

LEMMA RanksAreTaken ==
  ASSUME NEW S, IsFiniteSet(S), NEW R, IsOrder(R, S),
         NEW n \in 0..(Cardinality(S) - 1)
  PROVE  \E x \in S : Rank(R, S, x) = n
<1> DEFINE f == [x \in S |-> Rank(R, S, x)]
           T == 0..(Cardinality(S) - 1)
<1>1. Cardinality(S) \in Nat
  BY FS_CardinalityType
<1>2. IsFiniteSet(T) /\ Cardinality(T) = Cardinality(S)
  BY <1>1, FS_Interval
<1>3. f \in [S -> T]
  BY RankBelow
<1>4. f \in Injection(S, T)
  <2>1. \A x, y \in S : f[x] = f[y] => x = y
    BY RanksAreDistinct
  <2>. QED BY <1>3, <2>1 DEF Injection, IsInjective
<1>5. f \in Surjection(S, T)
  BY <1>2, <1>4, FS_Injection
<1>. QED BY <1>5 DEF Surjection

(* A slice is as long as it may be until the list ends, and it ends there. *)
LEMMA SliceLength ==
  ASSUME NEW S, IsFiniteSet(S), NEW R, IsOrder(R, S), NEW a \in Nat, NEW n \in Nat
  PROVE  /\ IsFiniteSet(Slice(R, S, a, n))
         /\ Cardinality(Slice(R, S, a, n)) =
              IF Cardinality(S) >= a + n THEN n
              ELSE IF Cardinality(S) >= a THEN Cardinality(S) - a ELSE 0
<1> DEFINE P == Slice(R, S, a, n)
           m == IF Cardinality(S) >= a + n THEN a + n - 1 ELSE Cardinality(S) - 1
           f == [x \in P |-> Rank(R, S, x)]
<1>1. Cardinality(S) \in Nat
  BY FS_CardinalityType
<1>2. P \in SUBSET S
  BY DEF Slice
<1>3. IsFiniteSet(P)
  BY <1>2, FS_Subset
<1>4. \A x \in P : Rank(R, S, x) \in a..m
  <2> SUFFICES ASSUME NEW x \in P PROVE Rank(R, S, x) \in a..m
    OBVIOUS
  <2>1. Rank(R, S, x) \in 0..(Cardinality(S) - 1)
    BY <1>2, RankBelow
  <2>2. Rank(R, S, x) \in a..(a + n - 1)
    BY DEF Slice
  <2>. QED BY <1>1, <2>1, <2>2
<1>5. \A i \in a..m : \E x \in P : Rank(R, S, x) = i
  <2> SUFFICES ASSUME NEW i \in a..m PROVE \E x \in P : Rank(R, S, x) = i
    OBVIOUS
  <2>1. i \in 0..(Cardinality(S) - 1) /\ i \in a..(a + n - 1)
    BY <1>1
  <2>2. PICK x \in S : Rank(R, S, x) = i
    BY <2>1, RanksAreTaken
  <2>. QED BY <2>1, <2>2 DEF Slice
<1>6. f \in [P -> a..m]
  BY <1>4
<1>7. f \in Injection(P, a..m)
  <2>1. \A x, y \in P : f[x] = f[y] => x = y
    BY <1>2, RanksAreDistinct
  <2>. QED BY <1>6, <2>1 DEF Injection, IsInjective
<1>8. f \in Surjection(P, a..m)
  BY <1>5, <1>6 DEF Surjection
<1>9. IsFiniteSet(a..m) /\ Cardinality(a..m) = IF a > m THEN 0 ELSE m - a + 1
  <2>1. m \in Int
    BY <1>1
  <2> HIDE DEF m
  <2>. QED BY <2>1, FS_Interval
<1>10. Cardinality(P) = Cardinality(a..m)
  BY <1>7, <1>8, <1>9, FS_Injection
<1>. QED BY <1>1, <1>3, <1>9, <1>10

(* Also where some tie, a list that is not empty has a first element: one  *)
(* that none is ahead of.                                                  *)
LEMMA FirstExists ==
  ASSUME NEW S, IsFiniteSet(S), S # {}, NEW R,
         \A x \in S : <<x, x>> \notin R,
         \A x, y, z \in S : <<x, y>> \in R /\ <<y, z>> \in R => <<x, z>> \in R
  PROVE  \E x \in S : \A y \in S : <<y, x>> \notin R
<1> DEFINE F == {Ahead(R, S, x) : x \in S}
<1>1. F \subseteq FiniteSubsetsOf(S) /\ F # {}
  <2>1. FiniteSubsetsOf(S) = SUBSET S
    BY FS_FiniteSubsetsOfFinite
  <2>2. \A x \in S : Ahead(R, S, x) \in SUBSET S
    BY DEF Ahead
  <2>3. \A A \in F : A \in SUBSET S
    BY <2>2
  <2>4. F # {}
    OBVIOUS
  <2>. QED BY <2>1, <2>3, <2>4
<1>2. PICK A \in F : \A B \in F : <<B, A>> \notin StrictSubsetOrdering(S)
  BY <1>1, FS_StrictSubsetOrderingWellFounded, WFMin
<1>3. PICK x \in S : A = Ahead(R, S, x)
  OBVIOUS
<1>4. ASSUME NEW y \in S, <<y, x>> \in R PROVE FALSE
  <2>1. /\ Ahead(R, S, y) \in F /\ Ahead(R, S, y) \subseteq A
        /\ y \in A /\ y \notin Ahead(R, S, y)
    BY <1>3, <1>4 DEF Ahead
  <2>2. A \in SUBSET S /\ Ahead(R, S, y) \in SUBSET S
    BY <1>3 DEF Ahead
  <2>. QED BY <1>2, <2>1, <2>2 DEF StrictSubsetOrdering
<1>. QED BY <1>4

(* So a finite set of numbers has a largest one. *)
LEMMA LargestExists ==
  ASSUME NEW S \in SUBSET Int, IsFiniteSet(S), S # {}
  PROVE  \E n \in S : \A m \in S : m <= n
<1> DEFINE R == {x \in S \X S : x[1] > x[2]}
<1>1. \A m, n \in S : <<m, n>> \in R <=> m > n
  OBVIOUS
<1> HIDE DEF R
<1>2. PICK n \in S : \A m \in S : <<m, n>> \notin R
  <2>1. \A m \in S : <<m, m>> \notin R
    BY <1>1
  <2>2. \A x, y, z \in S : <<x, y>> \in R /\ <<y, z>> \in R => <<x, z>> \in R
    BY <1>1
  <2>. QED BY <2>1, <2>2, FirstExists
<1>3. ASSUME NEW m \in S PROVE m <= n
  <2>1. ~(m > n) /\ m \in Int /\ n \in Int
    BY <1>1, <1>2
  <2>. QED BY <2>1
<1>. QED BY <1>3
=============================================================================
