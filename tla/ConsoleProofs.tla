---------------------------- MODULE ConsoleProofs ----------------------------
(***************************************************************************)
(* Proofs about Console for every set of findings and filters.             *)
(***************************************************************************)
EXTENDS Console, CaseReviewProofs, Listings, SequenceTheorems

(* A filter that gives both dates or neither means the same to the list    *)
(* and to the review of everything listed.                                 *)
LEMMA WindowOfBoth ==
  ASSUME NEW f \in Filter, f.start = None <=> f.end = None
  PROVE  Window(f) = f
BY DEF Window, Filter

(* In every state, for all filters the console can ask for: a review of a  *)
(* filter reaches the cases its list holds, all of them and no other.      *)
THEOREM ReviewsReachLists == Spec => []ReviewReachesListed
<1>1. ASSUME NEW f \in Filters, f.start = None <=> f.end = None
      PROVE  ReviewKeys(f) = CasesOf(Export(f))
  BY <1>1, WindowOfBoth, FiltersAssumption DEF ReviewKeys, Export
<1>2. ASSUME NEW x \in Status \union {"all"}
      PROVE  FilteredCases(x) = ReviewKeys([Backlog EXCEPT !.status = x])
  <2> DEFINE f == [Backlog EXCEPT !.status = x]
  <2>1. /\ f.status = x /\ f.start = None /\ f.end = None
        /\ f.among = FindingKey
    BY DEF Backlog
  <2>2. Selected(f) = {k \in FindingKey : current[k] /\ x \in {"all", StatusOf(k[1])}}
    BY <2>1 DEF Selected, StatusOfKey
  <2>. QED BY <2>2 DEF FilteredCases, ReviewKeys
<1>3. ReviewReachesListed
  BY <1>1, <1>2 DEF ReviewReachesListed
<1>. QED BY <1>3, PTL

-----------------------------------------------------------------------------
(* Pages *)

Columns(s) == IF s \in {"damage_desc", "damage_asc"} THEN 4 ELSE 3

LEMMA Appended ==
  ASSUME NEW x \in Seq(Int), NEW c \in Int
  PROVE  /\ Append(x, c) \in [1..(Len(x) + 1) -> Int]
         /\ Append(x, c)[Len(x) + 1] = c
BY AppendProperties, LenProperties

LEMMA Tuples ==
  ASSUME NEW a \in Int, NEW b \in Int, NEW c \in Int
  PROVE  /\ <<a, b>> \in Seq(Int) /\ Len(<<a, b>>) = 2
         /\ <<a, b, c>> \in Seq(Int) /\ Len(<<a, b, c>>) = 3
OBVIOUS

LEMMA OrderByType ==
  ASSUME TypeOK, NEW s \in Sort, NEW k \in FindingKey
  PROVE  /\ OrderBy(s, k) \in [1..Columns(s) -> Int]
         /\ OrderBy(s, k)[Columns(s)] = RankOf[k]
<1> DEFINE newest == -finding[k]
           gravest == -ScoreOf[k]
<1>1. /\ finding[k] \in Int /\ ScoreOf[k] \in Int
      /\ Damage(k) \in Int /\ RankOf[k] \in Int
  BY BoundAssumption, ConsoleAssumption DEF TypeOK, Gen, Damage
<1>2. newest \in Int /\ gravest \in Int /\ -Damage(k) \in Int
  BY <1>1
<1>3. PICK x \in Seq(Int) :
        Len(x) + 1 = Columns(s) /\ OrderBy(s, k) = Append(x, RankOf[k])
  <2>1. CASE s = "risk_desc"
    <3>1. OrderBy(s, k) = Append(<<gravest, newest>>, RankOf[k])
      BY <2>1 DEF OrderBy
    <3>2. <<gravest, newest>> \in Seq(Int) /\ Len(<<gravest, newest>>) + 1 = Columns(s)
      BY <1>1, <1>2, <2>1, Tuples DEF Columns
    <3>. QED BY <3>1, <3>2
  <2>2. CASE s = "risk_asc"
    <3>1. OrderBy(s, k) = Append(<<ScoreOf[k], newest>>, RankOf[k])
      BY <2>2 DEF OrderBy
    <3>2. <<ScoreOf[k], newest>> \in Seq(Int) /\ Len(<<ScoreOf[k], newest>>) + 1 = Columns(s)
      BY <1>1, <1>2, <2>2, Tuples DEF Columns
    <3>. QED BY <3>1, <3>2
  <2>3. CASE s = "damage_desc"
    <3>1. OrderBy(s, k) = Append(<<-Damage(k), gravest, newest>>, RankOf[k])
      BY <2>3 DEF OrderBy
    <3>2. <<-Damage(k), gravest, newest>> \in Seq(Int) /\ Len(<<-Damage(k), gravest, newest>>) + 1 = Columns(s)
      BY <1>1, <1>2, <2>3, Tuples DEF Columns
    <3>. QED BY <3>1, <3>2
  <2>4. CASE s = "damage_asc"
    <3>1. OrderBy(s, k) = Append(<<Damage(k), gravest, newest>>, RankOf[k])
      BY <2>4 DEF OrderBy
    <3>2. <<Damage(k), gravest, newest>> \in Seq(Int) /\ Len(<<Damage(k), gravest, newest>>) + 1 = Columns(s)
      BY <1>1, <1>2, <2>4, Tuples DEF Columns
    <3>. QED BY <3>1, <3>2
  <2>5. CASE s = "detected_desc"
    <3>1. OrderBy(s, k) = Append(<<newest, gravest>>, RankOf[k])
      BY <2>5 DEF OrderBy
    <3>2. <<newest, gravest>> \in Seq(Int) /\ Len(<<newest, gravest>>) + 1 = Columns(s)
      BY <1>1, <1>2, <2>5, Tuples DEF Columns
    <3>. QED BY <3>1, <3>2
  <2>6. CASE s = "detected_asc"
    <3>1. OrderBy(s, k) = Append(<<finding[k], gravest>>, RankOf[k])
      BY <2>6 DEF OrderBy
    <3>2. <<finding[k], gravest>> \in Seq(Int) /\ Len(<<finding[k], gravest>>) + 1 = Columns(s)
      BY <1>1, <1>2, <2>6, Tuples DEF Columns
    <3>. QED BY <3>1, <3>2
  <2>. QED BY <2>1, <2>2, <2>3, <2>4, <2>5, <2>6 DEF Sort
<1>. QED BY <1>1, <1>3, Appended

OrderOf(s) == {x \in FindingKey \X FindingKey : Precedes(s, x[1], x[2])}

LEMMA PrecedesMeans ==
  ASSUME TypeOK, NEW s \in Sort, NEW k \in FindingKey, NEW l \in FindingKey
  PROVE  Precedes(s, k, l) <=>
           \E i \in 1..Columns(s) : /\ OrderBy(s, k)[i] < OrderBy(s, l)[i]
                                   /\ \A j \in 1..(i - 1) :
                                        OrderBy(s, k)[j] = OrderBy(s, l)[j]
<1>1. DOMAIN OrderBy(s, k) = 1..Columns(s)
  BY OrderByType
<1>. QED BY <1>1 DEF Precedes

(* The finding key breaks every tie, so each order of a list is total.     *)
LEMMA OrderIsTotal ==
  ASSUME TypeOK, NEW s \in Sort, NEW R \in SUBSET FindingKey
  PROVE  IsOrder(OrderOf(s), R)
<1> DEFINE n == Columns(s)
           x(k) == OrderBy(s, k)
<1>1. n \in {3, 4}
  BY DEF Columns
<1>2. \A k \in R : x(k) \in [1..n -> Int] /\ x(k)[n] = RankOf[k]
  BY OrderByType
<1>3. \A k, l \in R :
        <<k, l>> \in OrderOf(s) <=>
          \E i \in 1..n : x(k)[i] < x(l)[i] /\ \A j \in 1..(i - 1) : x(k)[j] = x(l)[j]
  BY PrecedesMeans DEF OrderOf
<1> HIDE DEF n, x
<1>4. ASSUME NEW k \in R PROVE <<k, k>> \notin OrderOf(s)
  BY <1>1, <1>2, <1>3
<1>5. ASSUME NEW k \in R, NEW l \in R, NEW m \in R,
             <<k, l>> \in OrderOf(s), <<l, m>> \in OrderOf(s)
      PROVE  <<k, m>> \in OrderOf(s)
  <2>1. PICK i \in 1..n :
          x(k)[i] < x(l)[i] /\ \A h \in 1..(i - 1) : x(k)[h] = x(l)[h]
    BY <1>3, <1>5
  <2>2. PICK j \in 1..n :
          x(l)[j] < x(m)[j] /\ \A h \in 1..(j - 1) : x(l)[h] = x(m)[h]
    BY <1>3, <1>5
  <2>3. \A h \in 1..n : x(k)[h] \in Int /\ x(l)[h] \in Int /\ x(m)[h] \in Int
    BY <1>2
  <2>4. n \in Int
    BY <1>1
  <2>5. CASE i <= j
    <3>1. x(k)[i] < x(m)[i]
      BY <2>1, <2>2, <2>3, <2>4, <2>5
    <3>2. \A h \in 1..(i - 1) : x(k)[h] = x(m)[h]
      BY <2>1, <2>2, <2>4, <2>5
    <3>. QED BY <1>3, <3>1, <3>2
  <2>6. CASE j < i
    <3>1. x(k)[j] < x(m)[j]
      BY <2>1, <2>2, <2>3, <2>4, <2>6
    <3>2. \A h \in 1..(j - 1) : x(k)[h] = x(m)[h]
      BY <2>1, <2>2, <2>4, <2>6
    <3>. QED BY <1>3, <3>1, <3>2
  <2>. QED BY <2>4, <2>5, <2>6
<1>6. ASSUME NEW k \in R, NEW l \in R, k # l
      PROVE  <<k, l>> \in OrderOf(s) \/ <<l, k>> \in OrderOf(s)
  <2>1. x(k)[n] # x(l)[n]
    BY <1>2, <1>6, ConsoleAssumption
  <2>2. \E i \in 1..n : x(k)[i] # x(l)[i] /\ \A j \in 1..(i - 1) : x(k)[j] = x(l)[j]
    <3>1. CASE x(k)[1] # x(l)[1]
      BY <1>1, <3>1
    <3>2. CASE x(k)[1] = x(l)[1] /\ x(k)[2] # x(l)[2]
      BY <1>1, <3>2
    <3>3. CASE x(k)[1] = x(l)[1] /\ x(k)[2] = x(l)[2] /\ x(k)[3] # x(l)[3]
      BY <1>1, <3>3
    <3>4. CASE x(k)[1] = x(l)[1] /\ x(k)[2] = x(l)[2] /\ x(k)[3] = x(l)[3]
      BY <1>1, <2>1, <3>4
    <3>. QED BY <3>1, <3>2, <3>3, <3>4
  <2>3. PICK i \in 1..n : x(k)[i] # x(l)[i] /\ \A j \in 1..(i - 1) : x(k)[j] = x(l)[j]
    BY <2>2
  <2>4. x(k)[i] < x(l)[i] \/ x(l)[i] < x(k)[i]
    <3>1. x(k)[i] \in Int /\ x(l)[i] \in Int
      BY <1>2
    <3>. QED BY <2>3, <3>1
  <2>. QED BY <1>3, <2>3, <2>4
<1>. QED BY <1>4, <1>5, <1>6 DEF IsOrder

(* What a filter selects, read from its page p on, is a slice.             *)
LEMMA PageIsSlice ==
  ASSUME TypeOK, NEW f \in Filters
  PROVE  LET R == Selected(Window(f))
             O == OrderOf(f.sort)
         IN /\ R \in SUBSET FindingKey /\ IsFiniteSet(R)
            /\ IsOrder(O, R)
            /\ PageSize(f) \in 1..200
            /\ \A k \in R : Place(f.sort, R, k) = Rank(O, R, k)
            /\ \A p \in Nat \ {0} :
                 /\ Offset(f, p) = (p - 1) * PageSize(f) /\ Offset(f, p) \in Nat
                 /\ Page(f, p) = Slice(O, R, Offset(f, p), PageSize(f))
<1> DEFINE R == Selected(Window(f))
           O == OrderOf(f.sort)
<1>1. f.among \in SUBSET FindingKey /\ f.sort \in Sort /\ f.size \in Int
  BY FiltersAssumption, ConsoleAssumption DEF Filter
<1>2. R \in SUBSET FindingKey
  <2>1. Window(f).among = f.among
    BY FiltersAssumption DEF Window, Filter
  <2>. QED BY <1>1, <2>1 DEF Selected
<1>3. IsFiniteSet(R)
  BY <1>2, ConsoleAssumption, FS_Subset
<1>4. IsOrder(O, R)
  BY <1>1, <1>2, OrderIsTotal
<1>5. PageSize(f) \in 1..200
  BY <1>1 DEF PageSize
<1>6. \A k \in R : Place(f.sort, R, k) = Rank(O, R, k)
  <2> SUFFICES ASSUME NEW k \in R PROVE Place(f.sort, R, k) = Rank(O, R, k)
    OBVIOUS
  <2>1. {l \in R : Precedes(f.sort, l, k)} = Ahead(O, R, k)
    BY <1>2 DEF Ahead, OrderOf
  <2>. QED BY <2>1 DEF Place, Rank
<1>7. \A p \in Nat \ {0} :
        /\ Offset(f, p) = (p - 1) * PageSize(f) /\ Offset(f, p) \in Nat
        /\ Page(f, p) = Slice(O, R, Offset(f, p), PageSize(f))
  <2> TAKE p \in Nat \ {0}
  <2>1. Offset(f, p) = (p - 1) * PageSize(f) /\ Offset(f, p) \in Nat
    BY <1>5 DEF Offset
  <2>2. Page(f, p) = Slice(O, R, Offset(f, p), PageSize(f))
    BY <1>6 DEF Page, Slice
  <2>. QED BY <2>1, <2>2
<1>. QED BY <1>2, <1>3, <1>4, <1>5, <1>6, <1>7

LEMMA PagesOfFilter ==
  ASSUME TypeOK, NEW f \in Filters
  PROVE  /\ UNION {Page(f, p) : p \in 1..(Total(f) + 1)} = Export(f)
         /\ \A p \in 1..(Total(f) + 1) :
              LET this == AlertList(f, p)
                  next == Page(f, p + 1)
              IN /\ Cardinality(this.items) <= PageSize(f)
                 /\ this.has_next <=> next # {}
                 /\ this.items \intersect next = {}
<1> DEFINE R == Selected(Window(f))
           O == OrderOf(f.sort)
           n == PageSize(f)
           N == Cardinality(R)
<1>1. /\ IsFiniteSet(R) /\ IsOrder(O, R)
      /\ n \in 1..200
      /\ \A p \in Nat \ {0} :
           /\ Offset(f, p) = (p - 1) * n /\ Offset(f, p) \in Nat
           /\ Page(f, p) = Slice(O, R, Offset(f, p), n)
  BY PageIsSlice
<1>2. Export(f) = R /\ Total(f) = N /\ N \in Nat
  BY <1>1, FS_CardinalityType DEF Export, Total
<1>3. \A k \in R : Rank(O, R, k) \in 0..(N - 1)
  BY <1>1, RankBelow
<1> HIDE DEF R, O, n, N
<1>4. UNION {Page(f, p) : p \in 1..(N + 1)} = R
  <2>1. ASSUME NEW p \in 1..(N + 1) PROVE Page(f, p) \subseteq R
    BY <1>1, <1>2 DEF Slice
  <2>2. ASSUME NEW k \in R PROVE \E p \in 1..(N + 1) : k \in Page(f, p)
    <3> DEFINE i == Rank(O, R, k)
               p == (i \div n) + 1
    <3>1. i \in 0..(N - 1)
      BY <1>3
    <3> HIDE DEF i
    <3>2. /\ (p - 1) * n <= i /\ i < (p - 1) * n + n
          /\ p \in 1..(N + 1)
      BY <1>1, <1>2, <3>1
    <3>3. i \in ((p - 1) * n)..((p - 1) * n + n - 1)
      BY <1>1, <3>1, <3>2
    <3>4. k \in Page(f, p)
      BY <1>1, <1>2, <3>2, <3>3 DEF Slice, i
    <3>. QED BY <3>2, <3>4
  <2>. QED BY <2>1, <2>2
<1>5. ASSUME NEW p \in 1..(N + 1)
      PROVE  /\ Cardinality(Page(f, p)) <= n
             /\ Offset(f, p) + Cardinality(Page(f, p)) < N <=> Page(f, p + 1) # {}
             /\ Page(f, p) \intersect Page(f, p + 1) = {}
  <2> DEFINE a == Offset(f, p)
             P == Slice(O, R, a, n)
             Q == Slice(O, R, a + n, n)
  <2>1. p \in Nat \ {0} /\ p + 1 \in Nat \ {0}
    BY <1>2
  <2>2. Offset(f, p + 1) = a + n
    BY <1>1, <2>1
  <2>3. Page(f, p) = P /\ Page(f, p + 1) = Q /\ a \in Nat
    BY <1>1, <2>1, <2>2
  <2>4. n \in Nat /\ a + n \in Nat /\ n >= 1
    BY <1>1, <2>3
  <2> HIDE DEF a
  <2>5. /\ Cardinality(P) = IF N >= a + n THEN n ELSE IF N >= a THEN N - a ELSE 0
        /\ IsFiniteSet(Q)
        /\ Cardinality(Q) = IF N >= a + n + n THEN n
                            ELSE IF N >= a + n THEN N - (a + n) ELSE 0
    BY <1>1, <2>3, <2>4, SliceLength DEF N
  <2>6. Q # {} <=> Cardinality(Q) # 0
    BY <2>5, FS_EmptySet
  <2>7. P \intersect Q = {}
    BY <1>2, <1>3, <2>3, <2>4 DEF Slice
  <2> HIDE DEF P, Q
  <2>8. Cardinality(P) <= n
    BY <1>2, <2>3, <2>4, <2>5
  <2>9. a + Cardinality(P) < N <=> Q # {}
    BY <1>2, <2>3, <2>4, <2>5, <2>6
  <2>. QED BY <2>3, <2>7, <2>8, <2>9 DEF a
<1>6. \A p : /\ AlertList(f, p).items = Page(f, p)
             /\ AlertList(f, p).has_next = (Offset(f, p) + Cardinality(Page(f, p)) < N)
  BY <1>2 DEF AlertList
<1>. QED BY <1>2, <1>4, <1>5, <1>6 DEF n

(* For every set of findings and filters, every order and page size:       *)
(* turning the pages of a list shows what its export holds, once.          *)
THEOREM PagesShowAll == Spec => []PagesPartition
<1>1. TypeOK => PagesPartition
  BY PagesOfFilter DEF PagesPartition
<1>. QED BY <1>1, TypeCorrect, PTL

-----------------------------------------------------------------------------
(* The dashboard *)

LEMMA DatesAreNumbers ==
  ASSUME NEW k \in FindingKey
  PROVE  k[1] \in Case /\ DateOfKey(k) \in Date /\ DateOfKey(k) \in Nat
<1>1. k[1] \in Case
  BY DEF FindingKey
<1>. QED BY <1>1, CaseAssumption DEF DateOfKey

LEMMA StatusIsOne ==
  ASSUME TypeOK, NEW k \in FindingKey
  PROVE  StatusOfKey(k) \in Status
<1>1. state[k[1]] \in ReviewState \union {None}
  BY DEF TypeOK, FindingKey
<1>. QED BY <1>1 DEF StatusOfKey, StatusOf, ReviewState, Status

LEMMA DashboardCounts ==
  ASSUME TypeOK
  PROVE  LET all == AlertList(Backlog, 1)
             unhandled == [Backlog EXCEPT !.status = "unhandled"]
         IN /\ Dashboard.unhandled = Total(unhandled)
            /\ Dashboard.unhandled = all.counts["unhandled"]
            /\ Dashboard.stale =
                 Cardinality({k \in Export(unhandled) : DateOfKey(k) <= Today - 3})
            /\ Dashboard.unhandled + Dashboard.investigating + Dashboard.reviewed
                 = all.total
<1> DEFINE R == Selected(Backlog)
           unhandled == [Backlog EXCEPT !.status = "unhandled"]
           W(s) == WithStatus(R, s)
<1>1. Window(Backlog) = Backlog /\ Window(unhandled) = unhandled
  BY DEF Window, Backlog
<1>2. R = {k \in FindingKey : current[k]}
  BY DEF Selected, Backlog
<1>3. Selected(unhandled) = W("unhandled")
  <2>1. unhandled.status = "unhandled" /\ unhandled.among = FindingKey
        /\ unhandled.start = None /\ unhandled.end = None
    BY DEF Backlog
  <2>. QED BY <1>2, <2>1 DEF Selected, WithStatus
<1>4. StatusCount(Backlog, "unhandled") = Cardinality(W("unhandled"))
  <2>1. [Window(Backlog) EXCEPT !.status = "all"] = Backlog
    BY <1>1 DEF Backlog
  <2>. QED BY <2>1 DEF StatusCount, WithStatus
<1>5. {k \in Export(unhandled) : DateOfKey(k) <= Today - 3} = StaleUnhandled(R)
  <2>1. \A k \in R : DateOfKey(k) \in Int
    BY <1>2, DatesAreNumbers
  <2>2. \A k \in R : DateOfKey(k) <= Today - 3 <=> Age(k) >= 3
    BY <2>1, ConsoleAssumption DEF Age
  <2>. QED BY <1>1, <1>3, <2>2 DEF Export, StaleUnhandled, WithStatus
<1>6. Cardinality(W("unhandled")) + Cardinality(W("investigating"))
        + (Cardinality(W("confirmed_fraud")) + Cardinality(W("white"))) = Cardinality(R)
  <2>1. IsFiniteSet(R)
    BY <1>2, ConsoleAssumption, FS_Subset
  <2>2. \A s : W(s) \in SUBSET R
    BY DEF WithStatus
  <2>3. \A s : IsFiniteSet(W(s)) /\ Cardinality(W(s)) \in Nat
    BY <2>1, <2>2, FS_Subset, FS_CardinalityType
  <2> DEFINE A == W("unhandled") \union W("investigating")
             B == W("confirmed_fraud") \union W("white")
  <2>4. R = A \union B
    BY <1>2, StatusIsOne DEF WithStatus, Status
  <2>5. /\ W("unhandled") \intersect W("investigating") = {}
        /\ W("confirmed_fraud") \intersect W("white") = {}
        /\ A \intersect B = {}
    BY DEF WithStatus
  <2> HIDE DEF W, R
  <2>6. /\ IsFiniteSet(A)
        /\ Cardinality(A) = Cardinality(W("unhandled")) + Cardinality(W("investigating"))
    BY <2>3, <2>5, Disjoint
  <2>7. /\ IsFiniteSet(B)
        /\ Cardinality(B) = Cardinality(W("confirmed_fraud")) + Cardinality(W("white"))
    BY <2>3, <2>5, Disjoint
  <2>8. Cardinality(A) \in Nat /\ Cardinality(B) \in Nat
    BY <2>6, <2>7, FS_CardinalityType
  <2> HIDE DEF A, B
  <2>9. Cardinality(R) = Cardinality(A) + Cardinality(B)
    BY <2>4, <2>5, <2>6, <2>7, Disjoint
  <2>. QED BY <2>3, <2>6, <2>7, <2>9
<1>7. /\ Dashboard.unhandled = Cardinality(W("unhandled"))
      /\ Dashboard.investigating = Cardinality(W("investigating"))
      /\ Dashboard.reviewed = Cardinality(W("confirmed_fraud")) + Cardinality(W("white"))
      /\ Dashboard.stale = Cardinality(StaleUnhandled(R))
  BY DEF Dashboard, ReviewedTotal
<1>8. /\ AlertList(Backlog, 1).counts["unhandled"] = StatusCount(Backlog, "unhandled")
      /\ AlertList(Backlog, 1).total = Cardinality(R)
      /\ Total(unhandled) = Cardinality(W("unhandled"))
  BY <1>1, <1>3 DEF AlertList, Total, Status
<1> HIDE DEF R, W, unhandled
<1>. QED BY <1>4, <1>5, <1>6, <1>7, <1>8 DEF unhandled

LEMMA DashboardTrend ==
  ASSUME TypeOK, OneGenerationShown, NEW d \in Date \ unsettled
  PROVE  /\ ApiRows(d) = CurrentOf(d)
         /\ Dashboard.trend[d] = Total([Backlog EXCEPT !.start = d])
<1>1. ApiRows(d) = CurrentOf(d)
  BY DEF OneGenerationShown, ApiRows, CurrentOf
<1>2. d \in Nat /\ d # None
  BY CaseAssumption, ConsoleAssumption
<1>3. Selected(Window([Backlog EXCEPT !.start = d])) = CurrentOf(d)
  <2> DEFINE f == Window([Backlog EXCEPT !.start = d])
  <2>1. /\ f.start = d /\ f.end = d /\ f.status = "all" /\ f.among = FindingKey
    BY <1>2 DEF Window, Backlog
  <2>2. \A k \in FindingKey : DateOfKey(k) >= d /\ DateOfKey(k) <= d <=> DateOfKey(k) = d
    BY <1>2, DatesAreNumbers
  <2> HIDE DEF f
  <2>3. Selected(f) = {k \in FindingKey : current[k] /\ DateOfKey(k) = d}
    BY <1>2, <2>1, <2>2 DEF Selected
  <2>4. Selected(f) = CurrentOf(d)
    BY <2>3 DEF CurrentOf, OfDate, DateOfKey
  <2>. QED BY <2>4 DEF f
<1>4. Dashboard.trend[d] = Cardinality(ApiRows(d))
  BY DEF Dashboard, DailyCount
<1>. QED BY <1>1, <1>3, <1>4 DEF Total

(* For every set of findings, whatever has been reviewed, recomputed and   *)
(* purged: the numbers of the dashboard are those of the lists it leads    *)
(* to, and its trend, read through the other API, is that of the console   *)
(* on every date not recomputed by two at once.                            *)
THEOREM DashboardAgrees == Spec => []DashboardMatchesList
<1>1. TypeOK /\ OneGenerationShown => DashboardMatchesList
  <2> SUFFICES ASSUME TypeOK, OneGenerationShown PROVE DashboardMatchesList
    OBVIOUS
  <2>. QED BY DashboardCounts, DashboardTrend DEF DashboardMatchesList
<1>. QED BY <1>1, TypeCorrect, OneGeneration, PTL

-----------------------------------------------------------------------------
(* The page of a case *)

(* A generation holds one finding of a case, and no finding yet while it   *)
(* is being computed.                                                      *)
KeysInv ==
  /\ \A k \in FindingKey : finding[k] <= computed /\ (current[k] => finding[k] > 0)
  /\ \A k, l \in FindingKey :
       k[1] = l[1] /\ finding[k] = finding[l] /\ finding[k] > 0 => k = l
  /\ \A w \in Recomputer : rp[w].pc # "idle" =>
       /\ rp[w].gen > 0 /\ rp[w].gen <= computed
       /\ \A k \in FindingKey : finding[k] # rp[w].gen
       /\ \A v \in Recomputer \ {w} : rp[v].pc # "idle" => rp[v].gen # rp[w].gen

LEMMA GenerationsAreNumbers ==
  ASSUME TypeOK
  PROVE  /\ computed \in Nat
         /\ \A k \in FindingKey : finding[k] \in Nat
         /\ \A w \in Recomputer : rp[w].gen \in Nat
BY BoundAssumption DEF TypeOK, Gen, Replacement

LEMMA KeysInit == Init => KeysInv
BY DEF Init, KeysInv, NoReplacement

LEMMA KeysStay ==
  ASSUME TypeOK, KeysInv, computed' = computed,
         \A k \in FindingKey : /\ finding'[k] \in {0, finding[k]}
                               /\ current'[k] => current[k] /\ finding'[k] = finding[k],
         \A w \in Recomputer : rp'[w].pc # "idle" =>
                                rp[w].pc # "idle" /\ rp'[w].gen = rp[w].gen
  PROVE  KeysInv'
<1>1. /\ \A k \in FindingKey : finding'[k] <= computed /\ (current'[k] => finding'[k] > 0)
      /\ \A k, l \in FindingKey :
           k[1] = l[1] /\ finding'[k] = finding'[l] /\ finding'[k] > 0 => k = l
  BY GenerationsAreNumbers DEF KeysInv
<1>2. ASSUME NEW w \in Recomputer, rp'[w].pc # "idle"
      PROVE  /\ rp'[w].gen > 0 /\ rp'[w].gen <= computed
             /\ \A k \in FindingKey : finding'[k] # rp'[w].gen
             /\ \A v \in Recomputer \ {w} : rp'[v].pc # "idle" => rp'[v].gen # rp'[w].gen
  BY <1>2, GenerationsAreNumbers DEF KeysInv
<1>. QED BY <1>1, <1>2 DEF KeysInv

LEMMA KeysBegin ==
  ASSUME TypeOK, KeysInv, NEW w \in Recomputer, NEW d, NEW R, BeginReplace(w, d, R)
  PROVE  KeysInv'
<1>1. /\ finding' = finding /\ current' = current /\ computed' = computed + 1
      /\ rp'[w].gen = computed + 1
      /\ \A v \in Recomputer \ {w} : rp'[v].pc = rp[v].pc /\ rp'[v].gen = rp[v].gen
  BY DEF BeginReplace, findings, TypeOK, Replacement
<1>2. /\ \A k \in FindingKey : finding[k] \in Nat /\ finding[k] <= computed
      /\ \A v \in Recomputer : rp[v].pc # "idle" => rp[v].gen <= computed
      /\ computed \in Nat
  BY GenerationsAreNumbers DEF KeysInv
<1>3. ASSUME NEW v \in Recomputer, rp'[v].pc # "idle"
      PROVE  /\ rp'[v].gen > 0 /\ rp'[v].gen <= computed'
             /\ \A k \in FindingKey : finding'[k] # rp'[v].gen
             /\ \A u \in Recomputer \ {v} : rp'[u].pc # "idle" => rp'[u].gen # rp'[v].gen
  <2>1. CASE v = w
    BY <1>1, <1>2, <2>1, GenerationsAreNumbers
  <2>2. CASE v # w
    BY <1>1, <1>2, <1>3, <2>2, GenerationsAreNumbers DEF KeysInv
  <2>. QED BY <2>1, <2>2
<1>4. /\ \A k \in FindingKey : finding'[k] <= computed' /\ (current'[k] => finding'[k] > 0)
      /\ \A k, l \in FindingKey :
           k[1] = l[1] /\ finding'[k] = finding'[l] /\ finding'[k] > 0 => k = l
  BY <1>1, <1>2 DEF KeysInv
<1>. QED BY <1>3, <1>4 DEF KeysInv

LEMMA KeysCommit ==
  ASSUME TypeOK, ReplaceInv, KeysInv, NEW w \in Recomputer, CommitReplace(w)
  PROVE  KeysInv'
<1> DEFINE x == rp[w]
<1>1. /\ x.pc # "idle" /\ computed' = computed
      /\ \A k \in FindingKey :
           /\ finding'[k] = IF k \in x.rows THEN x.gen ELSE finding[k]
           /\ current'[k] => k \in x.rows \/ current[k]
      /\ rp'[w].pc = "idle" /\ \A v \in Recomputer \ {w} : rp'[v] = rp[v]
  BY DEF CommitReplace, NoReplacement, TypeOK
<1>2. /\ x.gen > 0 /\ x.gen <= computed
      /\ \A k \in FindingKey : finding[k] # x.gen
      /\ \A k, l \in x.rows : k[1] = l[1] => k = l
  BY <1>1 DEF KeysInv, ReplaceInv
<1>3. \A k \in FindingKey : finding'[k] <= computed' /\ (current'[k] => finding'[k] > 0)
  BY <1>1, <1>2 DEF KeysInv
<1>4. ASSUME NEW k \in FindingKey, NEW l \in FindingKey, k[1] = l[1],
             finding'[k] = finding'[l], finding'[k] > 0
      PROVE  k = l
  BY <1>1, <1>2, <1>4 DEF KeysInv
<1>5. ASSUME NEW v \in Recomputer, rp'[v].pc # "idle"
      PROVE  /\ rp'[v].gen > 0 /\ rp'[v].gen <= computed'
             /\ \A k \in FindingKey : finding'[k] # rp'[v].gen
             /\ \A u \in Recomputer \ {v} : rp'[u].pc # "idle" => rp'[u].gen # rp'[v].gen
  <2>1. v # w /\ rp'[v] = rp[v]
    BY <1>1, <1>5
  <2>2. /\ rp[v].gen > 0 /\ rp[v].gen <= computed
        /\ \A k \in FindingKey : finding[k] # rp[v].gen
        /\ \A u \in Recomputer \ {v} : rp[u].pc # "idle" => rp[u].gen # rp[v].gen
    BY <1>5, <2>1 DEF KeysInv
  <2>3. x.gen # rp[v].gen
    BY <1>1, <2>1, <2>2
  <2>. QED BY <1>1, <2>1, <2>2, <2>3
<1>. QED BY <1>3, <1>4, <1>5 DEF KeysInv

LEMMA KeysStep == TypeOK /\ ReplaceInv /\ KeysInv /\ [Next]_vars => KeysInv'
<1> SUFFICES ASSUME TypeOK, ReplaceInv, KeysInv, [Next]_vars PROVE KeysInv'
  OBVIOUS
<1>1. CASE UNCHANGED <<findings, rp, computed>>
  BY <1>1, KeysStay DEF findings
<1>2. ASSUME NEW w \in Recomputer, Retire(w) PROVE KeysInv'
  <2>1. /\ UNCHANGED <<findings, computed>> /\ rp[w].pc = "retire"
        /\ \A v \in Recomputer : v # w => rp'[v] = rp[v]
        /\ rp'[w].gen = rp[w].gen
    BY <1>2 DEF Retire, TypeOK, Replacement
  <2>. QED BY <2>1, KeysStay DEF findings
<1>3. ASSUME NEW w \in Recomputer, FailReplace(w) PROVE KeysInv'
  <2>1. /\ UNCHANGED <<findings, computed>>
        /\ \A v \in Recomputer : v # w => rp'[v] = rp[v]
        /\ rp'[w].pc = "idle"
    BY <1>3 DEF FailReplace, TypeOK, NoReplacement
  <2>. QED BY <2>1, KeysStay DEF findings
<1>4. ASSUME NEW cutoff \in Date, PurgeFindings(cutoff) PROVE KeysInv'
  <2>1. /\ UNCHANGED <<rp, computed>>
        /\ \A k \in FindingKey :
             /\ finding'[k] \in {0, finding[k]}
             /\ current'[k] => current[k] /\ finding'[k] = finding[k]
    BY <1>4 DEF PurgeFindings
  <2>. QED BY <2>1, KeysStay
<1>5. ASSUME NEW a \in Admin, AdminStep(a) PROVE UNCHANGED <<findings, rp, computed>>
  BY <1>5 DEF AdminStep, Match, SelectRows, Lock, CommitReview, Rollback, AssignCases
<1>6. ASSUME NEW c \in Case, NEW t \in TaskType, NEW w \in {"open", "completed"},
             UpdateTask(c, t, w)
      PROVE  UNCHANGED <<findings, rp, computed>>
  BY <1>6 DEF UpdateTask
<1>7. CASE UNCHANGED vars
  BY <1>1, <1>7 DEF vars
<1>. QED BY <1>1, <1>2, <1>3, <1>4, <1>5, <1>6, <1>7, KeysBegin, KeysCommit
         DEF Next, ReplaceStep

LEMMA KeysInvariant == Spec => []KeysInv
BY TypeCorrect, GenerationInvariant, KeysInit, KeysStep, PTL DEF Spec

(* A case that has a status has the review it comes from in its history.   *)
StatusHasEvent ==
  \A c \in Case : state[c] # None => \E e \in events[c] : e.stamp = state[c].stamp

LEMMA StatusHasEventStep == TypeOK /\ StatusHasEvent /\ [Next]_vars => StatusHasEvent'
<1> SUFFICES ASSUME TypeOK, StatusHasEvent, [Next]_vars, NEW c \in Case,
                    state'[c] # None
             PROVE  \E e \in events'[c] : e.stamp = state'[c].stamp
  BY DEF StatusHasEvent
<1>1. CASE UNCHANGED <<state, events>>
  BY <1>1 DEF StatusHasEvent
<1>2. ASSUME NEW a \in Admin, CommitReview(a)
      PROVE  \E e \in events'[c] : e.stamp = state'[c].stamp
  <2> DEFINE x == ap[a]
  <2>1. /\ state'[c] = IF c \in CasesOf(x.rows)
                       THEN [status |-> x.op, stamp |-> x.stamp] ELSE state[c]
        /\ events'[c] = events[c] \union
             {[status |-> x.op, stamp |-> x.stamp, finding |-> k] :
                k \in {k \in x.rows : k[1] = c}}
    BY <1>2 DEF CommitReview
  <2>2. CASE c \in CasesOf(x.rows)
    <3>1. PICK k \in x.rows : k[1] = c
      BY <2>2 DEF CasesOf
    <3> DEFINE e == [status |-> x.op, stamp |-> x.stamp, finding |-> k]
    <3>2. k \in {l \in x.rows : l[1] = c}
      BY <3>1
    <3>3. e \in events'[c]
      BY <2>1, <3>2
    <3>4. e.stamp = x.stamp /\ state'[c].stamp = x.stamp
      BY <2>1, <2>2
    <3> HIDE DEF e
    <3>. QED BY <3>3, <3>4
  <2>3. CASE c \notin CasesOf(x.rows)
    BY <2>1, <2>3 DEF StatusHasEvent
  <2>. QED BY <2>2, <2>3
<1>3. ASSUME NEW w \in Recomputer, ReplaceStep(w) PROVE UNCHANGED <<state, events>>
  BY <1>3 DEF ReplaceStep, BeginReplace, Retire, CommitReplace, FailReplace, reviews
<1>4. ASSUME NEW d \in Date, PurgeFindings(d) PROVE UNCHANGED <<state, events>>
  BY <1>4 DEF PurgeFindings, reviews
<1>5. ASSUME NEW e \in Case, NEW t \in TaskType, NEW w \in {"open", "completed"},
             UpdateTask(e, t, w)
      PROVE  UNCHANGED <<state, events>>
  BY <1>5 DEF UpdateTask
<1>6. ASSUME NEW a \in Admin, AdminStep(a), ~CommitReview(a)
      PROVE  UNCHANGED <<state, events>>
  BY <1>6 DEF AdminStep, Match, SelectRows, Lock, Rollback, AssignCases, reviews
<1>7. CASE UNCHANGED vars
  BY <1>1, <1>7 DEF vars, reviews
<1>. QED BY <1>1, <1>2, <1>3, <1>4, <1>5, <1>6, <1>7 DEF Next

LEMMA StatusHasEventInvariant == Spec => []StatusHasEvent
<1>1. Init => StatusHasEvent
  BY DEF Init, StatusHasEvent
<1>. QED BY <1>1, TypeCorrect, StatusHasEventStep, PTL DEF Spec

(* The newest finding of a case, by key where two are of one generation.   *)
Newest ==
  {x \in FindingKey \X FindingKey :
     \/ finding[x[2]] < finding[x[1]]
     \/ finding[x[1]] = finding[x[2]] /\ RankOf[x[1]] < RankOf[x[2]]}

LEMMA DetailIsOne ==
  ASSUME TypeOK, NEW c \in CasesOf(Selected(Backlog))
  PROVE  \E k \in FindingKey : current[k] /\ k[1] = c /\ Detail(c) = {k}
<1> DEFINE R == Matching({c})
<1>1. PICK k0 \in FindingKey : current[k0] /\ k0[1] = c
  BY DEF CasesOf, Selected, Backlog
<1>2. c \in Case
  BY <1>1 DEF FindingKey
<1>3. R = {k \in FindingKey : current[k] /\ k[1] = c}
  BY <1>2, ConsoleAssumption DEF Matching
<1>4. R \in SUBSET FindingKey /\ R # {}
  BY <1>1, <1>3
<1>5. IsFiniteSet(R)
  BY <1>4, ConsoleAssumption, FS_Subset
<1>6. \A k, l \in R : /\ finding[k] \in Nat /\ RankOf[k] \in Nat
                      /\ RankOf[k] = RankOf[l] => k = l
  BY <1>4, GenerationsAreNumbers, ConsoleAssumption
<1>7. \A k, l \in R : <<k, l>> \in Newest <=>
        \/ finding[l] < finding[k]
        \/ finding[k] = finding[l] /\ RankOf[k] < RankOf[l]
  BY <1>4 DEF Newest
<1>9. Detail(c) = {k \in R : \A l \in R \ {k} : <<k, l>> \in Newest}
  <2>1. Detail(c) = {k \in R : \A l \in R \ {k} :
                       \/ finding[l] < finding[k]
                       \/ finding[l] = finding[k] /\ RankOf[k] < RankOf[l]}
    BY Zenon DEF Detail
  <2> HIDE DEF R
  <2>2. {k \in R : \A l \in R \ {k} :
           \/ finding[l] < finding[k]
           \/ finding[l] = finding[k] /\ RankOf[k] < RankOf[l]}
        = {k \in R : \A l \in R \ {k} : <<k, l>> \in Newest}
    BY <1>7
  <2>. QED BY <2>1, <2>2
<1> HIDE DEF R
<1>8. IsOrder(Newest, R)
  BY <1>6, <1>7 DEF IsOrder
<1>10. PICK k \in R : Rank(Newest, R, k) = 0
  <2>1. Cardinality(R) \in Nat /\ Cardinality(R) # 0
    BY <1>4, <1>5, FS_CardinalityType, FS_EmptySet
  <2>2. 0 \in 0..(Cardinality(R) - 1)
    BY <2>1
  <2>. QED BY <1>5, <1>8, <2>2, RanksAreTaken
<1>11. Ahead(Newest, R, k) = {}
  <2>1. Ahead(Newest, R, k) \in SUBSET R
    BY DEF Ahead
  <2>. QED BY <1>5, <1>10, <2>1, FS_Subset, FS_EmptySet DEF Rank
<1>12. k \in Detail(c)
  BY <1>8, <1>9, <1>11 DEF Ahead, IsOrder
<1>13. \A l \in Detail(c) : l = k
  BY <1>9, <1>11 DEF Ahead
<1>. QED BY <1>3, <1>12, <1>13 DEF R

(* The findings of the entity of k on other days, 30 days back, and the    *)
(* order of their list, which is cut off.                                  *)
Candidates(k) ==
  {l \in FindingKey : /\ current[l]
                      /\ EntityOf[l[1]] = EntityOf[k[1]]
                      /\ DateOfKey(l) # DateOfKey(k)
                      /\ DateOfKey(l) >= DateOfKey(k) - 30}

Latest ==
  {x \in FindingKey \X FindingKey :
     \/ DateOfKey(x[1]) > DateOfKey(x[2])
     \/ DateOfKey(x[1]) = DateOfKey(x[2]) /\ finding[x[1]] > finding[x[2]]}

LEMMA RelatedIsSlice ==
  ASSUME TypeOK, KeysInv, NEW k \in FindingKey
  PROVE  /\ IsFiniteSet(Candidates(k)) /\ IsOrder(Latest, Candidates(k))
         /\ Related(k) = Slice(Latest, Candidates(k), 0, 5)
<1> DEFINE R == Candidates(k)
<1>1. R \in SUBSET FindingKey
  BY DEF Candidates
<1>2. IsFiniteSet(R)
  BY <1>1, ConsoleAssumption, FS_Subset
<1>3. \A l \in R : /\ DateOfKey(l) \in Nat /\ finding[l] \in Nat
                   /\ finding[l] > 0
  BY <1>1, DatesAreNumbers, GenerationsAreNumbers DEF KeysInv, Candidates
<1>4. \A l, m \in R : <<l, m>> \in Latest <=>
        \/ DateOfKey(l) > DateOfKey(m)
        \/ DateOfKey(l) = DateOfKey(m) /\ finding[l] > finding[m]
  BY <1>1 DEF Latest
<1>5. ASSUME NEW l \in R, NEW m \in R, DateOfKey(l) = DateOfKey(m),
             finding[l] = finding[m]
      PROVE  l = m
  <2>1. /\ l[1] \in Case /\ m[1] \in Case
        /\ EntityOf[l[1]] = EntityOf[m[1]] /\ DateOf[l[1]] = DateOf[m[1]]
    BY <1>1, <1>5, DatesAreNumbers DEF Candidates, DateOfKey
  <2>2. l[1] = m[1]
    BY <2>1, ConsoleAssumption
  <2>. QED BY <1>1, <1>3, <1>5, <2>2 DEF KeysInv
<1>6. \A l \in R : Ahead(Latest, R, l) =
        {m \in R : \/ DateOfKey(m) > DateOfKey(l)
                   \/ DateOfKey(m) = DateOfKey(l) /\ finding[m] > finding[l]}
  BY <1>4 DEF Ahead
<1>7. Related(k) = {l \in R : Rank(Latest, R, l) < 5}
  BY <1>6 DEF Related, Candidates, Rank
<1> HIDE DEF R
<1>8. IsOrder(Latest, R)
  BY <1>3, <1>4, <1>5 DEF IsOrder
<1>9. \A l \in R : Rank(Latest, R, l) \in Nat
  BY <1>2, RankType
<1>10. Related(k) = Slice(Latest, R, 0, 5)
  BY <1>7, <1>9 DEF Slice
<1>. QED BY <1>2, <1>8, <1>10 DEF R

LEMMA RelatedLeadsBack ==
  ASSUME TypeOK, KeysInv, NEW k \in FindingKey, current[k], NEW l \in Related(k)
  PROVE  \/ k \in CasePage(l[1]).related
         \/ Age(k) - Age(l) \notin -30..30
         \/ Cardinality(CasePage(l[1]).related) = 5
<1> SUFFICES ASSUME Age(k) - Age(l) \in -30..30
             PROVE  \/ k \in CasePage(l[1]).related
                    \/ Cardinality(CasePage(l[1]).related) = 5
  OBVIOUS
<1>1. l \in Candidates(k)
  BY RelatedIsSlice DEF Slice
<1>2. l \in FindingKey /\ current[l]
  BY <1>1 DEF Candidates
<1>3. l[1] \in CasesOf(Selected(Backlog))
  BY <1>2 DEF CasesOf, Selected, Backlog
<1>4. PICK m \in FindingKey : current[m] /\ m[1] = l[1] /\ Detail(l[1]) = {m}
  BY <1>3, DetailIsOne
<1>5. CasePage(l[1]).related = Related(m)
  BY <1>4 DEF CasePage
<1>6. k \in Candidates(m)
  <2>1. DateOfKey(m) = DateOfKey(l) /\ EntityOf[m[1]] = EntityOf[k[1]]
    BY <1>1, <1>4 DEF DateOfKey, Candidates
  <2>2. DateOfKey(k) # DateOfKey(l)
    BY <1>1 DEF Candidates
  <2>3. DateOfKey(k) >= DateOfKey(l) - 30
    BY <1>2, DatesAreNumbers, ConsoleAssumption DEF Age
  <2>. QED BY <2>1, <2>2, <2>3 DEF Candidates
<1> DEFINE R == Candidates(m)
<1>7. IsFiniteSet(R) /\ IsOrder(Latest, R) /\ Related(m) = Slice(Latest, R, 0, 5)
  BY RelatedIsSlice
<1>8. Rank(Latest, R, k) \in 0..(Cardinality(R) - 1) /\ Cardinality(R) \in Nat
  BY <1>6, <1>7, RankBelow, FS_CardinalityType
<1>9. CASE Rank(Latest, R, k) < 5
  <2>1. k \in Slice(Latest, R, 0, 5)
    BY <1>6, <1>8, <1>9 DEF Slice
  <2>. QED BY <1>5, <1>7, <2>1
<1>10. CASE Rank(Latest, R, k) >= 5
  <2>1. Cardinality(R) >= 0 + 5
    BY <1>8, <1>10
  <2>2. Cardinality(Slice(Latest, R, 0, 5)) = 5
    BY <1>7, <2>1, SliceLength
  <2>. QED BY <1>5, <1>7, <2>2
<1>. QED BY <1>8, <1>9, <1>10

(* The page of every case, for any number of cases, rules, administrators  *)
(* and recomputations: it shows one finding, the newest; its status is     *)
(* that of the latest review it shows, unless two of its reviews           *)
(* overlapped; a confirmed case that shows no open task has them all done; *)
(* and the cases related to it lead back to it.                            *)
THEOREM CasePagesAgree == Spec => []CasePageAgrees
<1>1. TypeOK /\ KeysInv /\ StatusHasEvent /\ HistoryExplainsStatus /\ ConfirmedHasTasks
        => CasePageAgrees
  <2> SUFFICES ASSUME TypeOK, KeysInv, StatusHasEvent, HistoryExplainsStatus,
                      ConfirmedHasTasks, NEW c \in CasesOf(Selected(Backlog))
               PROVE  LET page == CasePage(c) IN
                 /\ Cardinality(page.findings) = 1
                 /\ c \notin raced => \A e \in page.latest : e.status = page.status
                 /\ page.status = "confirmed_fraud" /\ page.open = {} =>
                      \A t \in TaskType : tasks[c][t] = "completed"
                 /\ \A k \in page.findings, l \in page.related :
                      \/ k \in CasePage(l[1]).related
                      \/ Age(k) - Age(l) \notin -30..30
                      \/ Cardinality(CasePage(l[1]).related) = 5
    BY DEF CasePageAgrees
  <2>1. PICK k \in FindingKey : current[k] /\ k[1] = c /\ Detail(c) = {k}
    BY DetailIsOne
  <2>2. c \in Case
    BY <2>1 DEF FindingKey
  <2>3. Cardinality(CasePage(c).findings) = 1
    BY <2>1, FS_Singleton DEF CasePage
  <2>4. ASSUME c \notin raced, NEW e \in CasePage(c).latest
        PROVE  e.status = CasePage(c).status
    <3>1. e \in events[c] /\ \A g \in events[c] : g.stamp <= e.stamp
      BY <2>4 DEF CasePage, LatestEvents
    <3>2. c \in Case \ raced
      BY <2>2, <2>4
    <3>3. /\ state[c] # None
          /\ e.stamp <= state[c].stamp
          /\ e.stamp = state[c].stamp => e.status = state[c].status
      BY <3>1, <3>2 DEF HistoryExplainsStatus
    <3>4. PICK g \in events[c] : g.stamp = state[c].stamp
      BY <2>2, <3>3 DEF StatusHasEvent
    <3>5. g.stamp <= e.stamp
      BY <3>1, <3>4
    <3>6. e.stamp \in Nat /\ state[c].stamp \in Nat
      BY <2>2, <3>1, <3>3, HistoryTypes, BoundAssumption DEF TypeOK, ReviewState, Stamp
    <3>7. e.stamp = state[c].stamp
      BY <3>3, <3>4, <3>5, <3>6
    <3>. QED BY <3>3, <3>7 DEF CasePage, StatusOf
  <2>5. ASSUME CasePage(c).status = "confirmed_fraud", CasePage(c).open = {},
               NEW t \in TaskType
        PROVE  tasks[c][t] = "completed"
    <3>1. tasks[c][t] # "open" /\ StatusOf(c) = "confirmed_fraud"
      BY <2>5 DEF CasePage, OpenTasks
    <3>. QED BY <2>2, <3>1 DEF ConfirmedHasTasks
  <2>6. CasePage(c).findings = {k} /\ CasePage(c).related = Related(k)
    BY <2>1 DEF CasePage
  <2>. QED BY <2>1, <2>3, <2>4, <2>5, <2>6, RelatedLeadsBack
<1>. QED BY <1>1, TypeCorrect, KeysInvariant, StatusHasEventInvariant, HistoryIsTrue,
            FraudIsFollowedUp, PTL
=============================================================================
