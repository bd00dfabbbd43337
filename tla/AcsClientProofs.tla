--------------------------- MODULE AcsClientProofs ---------------------------
(***************************************************************************)
(* Proofs about AcsClient for every set of records and dates, every order  *)
(* ACS may list them in, every page size and all hazards.                  *)
(***************************************************************************)
EXTENDS AcsClient, IngestionProofs

-----------------------------------------------------------------------------
(* Pages are slices *)

Listed == {x \in Rec \X Rec : Order[x[1]] < Order[x[2]]}

LEMMA ListedIsOrder == ASSUME NEW S \in SUBSET Rec PROVE IsOrder(Listed, S)
<1>1. \A c \in S : Order[c] \in Nat
  BY PagingAssumption
<1>2. \A c, e \in S : Order[c] = Order[e] => c = e
  BY PagingAssumption
<1>3. \A e, c \in S : <<e, c>> \in Listed <=> Order[e] < Order[c]
  BY DEF Listed
<1>. QED BY <1>1, <1>2, <1>3 DEF IsOrder

LEMMA PlaceIsRank ==
  ASSUME acs \in SUBSET Rec, NEW d
  PROVE  /\ Listing(d) \in SUBSET Rec /\ IsFiniteSet(Listing(d))
         /\ \A c \in Rec : /\ Place(d, c) = Rank(Listed, Listing(d), c)
                           /\ Place(d, c) \in Nat
         /\ \A p : PageOf(d, p) = Slice(Listed, Listing(d), Offset(p), PageSize)
<1>1. Listing(d) \in SUBSET Rec
  BY DEF Listing, On
<1>2. IsFiniteSet(Listing(d))
  BY <1>1, RecAssumption, FS_Subset
<1>3. \A c \in Rec : Place(d, c) = Rank(Listed, Listing(d), c)
  <2> SUFFICES ASSUME NEW c \in Rec
               PROVE  Place(d, c) = Rank(Listed, Listing(d), c)
    OBVIOUS
  <2>1. Before(d, c) = Ahead(Listed, Listing(d), c)
    BY <1>1 DEF Before, Ahead, Listed
  <2>. QED BY <2>1 DEF Place, Rank
<1>4. \A c : Rank(Listed, Listing(d), c) \in Nat
  BY <1>2, RankType
<1>5. \A p : PageOf(d, p) = Slice(Listed, Listing(d), Offset(p), PageSize)
  BY <1>1, <1>3 DEF PageOf, Slice
<1>. QED BY <1>1, <1>2, <1>3, <1>4, <1>5

(* A page that is not full is the last of the listing.                     *)
LEMMA ShortPageIsLast ==
  ASSUME acs \in SUBSET Rec, NEW d, NEW p \in Nat \ {0}, LastPage(PageOf(d, p)),
         NEW c \in Listing(d)
  PROVE  Place(d, c) < Offset(p) + PageSize
<1> DEFINE L == Listing(d)
<1>1. /\ L \in SUBSET Rec /\ IsFiniteSet(L) /\ IsOrder(Listed, L)
      /\ Place(d, c) = Rank(Listed, L, c)
      /\ PageOf(d, p) = Slice(Listed, L, Offset(p), PageSize)
  BY PlaceIsRank, ListedIsOrder
<1>2. Offset(p) \in Nat /\ PageSize \in Nat
  BY PagingAssumption DEF Offset
<1> HIDE DEF L
<1>3. Cardinality(L) \in Nat
  BY <1>1, FS_CardinalityType
<1>4. Cardinality(L) < Offset(p) + PageSize
  <2>1. Cardinality(Slice(Listed, L, Offset(p), PageSize)) < PageSize
    BY <1>1 DEF LastPage
  <2>2. SUFFICES ASSUME Cardinality(L) >= Offset(p) + PageSize PROVE FALSE
    BY <1>2, <1>3
  <2>3. Cardinality(Slice(Listed, L, Offset(p), PageSize)) = PageSize
    BY <1>1, <1>2, <2>2, SliceLength
  <2>. QED BY <1>2, <2>1, <2>3
<1>5. Place(d, c) \in 0..(Cardinality(L) - 1)
  BY <1>1, RankBelow DEF L
<1>. QED BY <1>2, <1>3, <1>4, <1>5

(* A record that joins the listing moves no other towards its head.        *)
LEMMA PlaceGrows ==
  ASSUME acs \in SUBSET Rec, acs' \in SUBSET Rec, acs \subseteq acs',
         NEW d, NEW c \in Rec
  PROVE  Place(d, c) <= Place(d, c)'
<1>1. Before(d, c) \in SUBSET Before(d, c)'
  BY DEF Before, Listing, On
<1>2. Before(d, c)' \in SUBSET Rec
  BY DEF Before, Listing, On
<1>3. IsFiniteSet(Before(d, c)')
  BY <1>2, RecAssumption, FS_Subset
<1>. QED BY <1>1, <1>3, FS_Subset DEF Place

(* Page p + 1 takes the places from p pages on. *)
LEMMA OffsetOfNext ==
  ASSUME NEW p \in Nat
  PROVE  /\ Offset(p + 1) = p * PageSize
         /\ Offset(p + 1) + PageSize = (p + 1) * PageSize
         /\ p * PageSize \in Nat
<1>1. PageSize \in Nat
  BY PagingAssumption
<1>2. (p + 1) - 1 = p
  OBVIOUS
<1>. QED BY <1>1, <1>2 DEF Offset
-----------------------------------------------------------------------------
(* Types *)

PagingTypeOK ==
  /\ page \in [Date -> Nat]
  /\ listed \in [Date -> SUBSET Rec]
  /\ blank \subseteq Date

PagedTypeInv == TypeInv /\ PagingTypeOK

LEMMA AnswerIsOfDate ==
  ASSUME PagedTypeInv, NEW d \in Date, NEW p, NEW records \in Answers(d, p)
  PROVE  records \subseteq On(acs, d) /\ records \subseteq Rec
BY DEF PagedTypeInv, TypeInv, TypeOK, Answers, PageOf, Listing, On

LEMMA PagedTypeInvInit == PagedInit => PagedTypeInv
BY TypeInvInit DEF PagedInit, PagedTypeInv, PagingTypeOK

LEMMA PagedTypeInvStep == PagedTypeInv /\ [PagedNext]_pvars => PagedTypeInv'
<1> SUFFICES ASSUME PagedTypeInv, [PagedNext]_pvars PROVE PagedTypeInv'
  OBVIOUS
<1> USE DEF PagedTypeInv
<1>1. CASE Elsewhere
  <2>1. Next
    BY <1>1 DEF Elsewhere, Next, DateStep
  <2>. QED BY <1>1, <2>1, TypeInvStep DEF Elsewhere, PagingTypeOK, paging
<1>2. ASSUME NEW d \in Date, Ask(d) PROVE PagedTypeInv'
  <2>1. PICK records \in Answers(d, page[d] + 1) :
          /\ batch' = [batch EXCEPT ![d] = @ \union records]
          /\ twice' = [twice EXCEPT ![d] = @ \union (batch[d] \intersect records)]
          /\ IF LastPage(records)
             THEN page' = page /\ step' = [step EXCEPT ![d] = "fetched"]
             ELSE page' = [page EXCEPT ![d] = @ + 1] /\ step' = step
          /\ blank' = IF records = PageOf(d, page[d] + 1) THEN blank
                                                         ELSE blank \union {d}
    BY <1>2 DEF Ask
  <2>2. records \subseteq On(acs, d) /\ records \subseteq Rec
    BY AnswerIsOfDate
  <2>3. PagingTypeOK'
    <3>1. page' \in [Date -> Nat]
      BY <2>1 DEF PagingTypeOK
    <3>2. listed' \in [Date -> SUBSET Rec]
      BY <1>2 DEF Ask, PagingTypeOK, On, TypeInv, TypeOK
    <3>3. blank' \subseteq Date
      BY <2>1 DEF PagingTypeOK
    <3>. QED BY <3>1, <3>2, <3>3 DEF PagingTypeOK
  <2>4. TypeOK'
    BY <1>2, <2>1, <2>2 DEF Ask, TypeInv, TypeOK, tables
  <2>5. JobInv'
    BY <1>2, <2>1, <2>2 DEF Ask, TypeInv, TypeOK, JobInv, On
  <2>. QED BY <2>3, <2>4, <2>5 DEF TypeInv
<1>3. ASSUME NEW d \in Date, Leave(d) PROVE PagedTypeInv'
  <2>1. PagingTypeOK'
    BY <1>3 DEF Leave, PagingTypeOK
  <2>2. CASE Succeed(d) \/ Fail(d) \/ Crash(d)
    <3>1. Next
      BY <2>2 DEF Next, DateStep
    <3>. QED BY <2>1, <3>1, TypeInvStep
  <2>3. CASE CrashReading(d)
    BY <2>1, <2>3 DEF CrashReading, Stop, TypeInv, TypeOK, JobInv, tables
  <2>. QED BY <1>3, <2>2, <2>3 DEF Leave
<1>4. CASE UNCHANGED pvars
  <2>1. UNCHANGED vars
    BY <1>4 DEF pvars
  <2>. QED BY <1>4, <2>1, TypeInvStep DEF pvars, paging, PagingTypeOK
<1>. QED BY <1>1, <1>2, <1>3, <1>4 DEF PagedNext

(* However the records are read, one attempt too many is never made and no *)
(* table or job leaves its type.                                           *)
THEOREM PagedTypeCorrect == PagedSpec => []TypeOK
<1>1. PagedTypeInv => TypeOK
  BY DEF PagedTypeInv, TypeInv
<1>. QED BY <1>1, PagedTypeInvInit, PagedTypeInvStep, PTL DEF PagedSpec
-----------------------------------------------------------------------------
(* Reading *)

(* Whatever was listed at the first request is read or still ahead.  If    *)
(* nothing has joined since, whatever was read is behind.                  *)
ReadOfDate(d) ==
  /\ batch[d] \subseteq On(acs, d)
  /\ listed[d] \subseteq On(acs, d)
  /\ step[d] = "idle" =>
       /\ d \notin blank
       /\ page[d] = 0 => batch[d] = {} /\ listed[d] = {}
       /\ \A c \in listed[d] \ batch[d] : Place(d, c) >= page[d] * PageSize
       /\ On(acs, d) = listed[d] =>
            /\ twice[d] = {}
            /\ \A c \in batch[d] : Place(d, c) < page[d] * PageSize
  /\ step[d] = "fetched" =>
       /\ d \notin blank => listed[d] \subseteq batch[d]
       /\ On(acs, d) = listed[d] => twice[d] = {}

ReadInv == \A d \in Date : ReadOfDate(d)

(* What the others do moves the listing at most down. *)
LEMMA ReadElsewhere ==
  ASSUME PagedTypeInv, PagedTypeInv', NEW d \in Date, ReadOfDate(d),
         acs \subseteq acs',
         batch'[d] = batch[d], twice'[d] = twice[d],
         page'[d] = page[d], listed'[d] = listed[d], d \in blank' <=> d \in blank,
         step'[d] = step[d] \/ step'[d] \notin {"idle", "fetched"}
  PROVE  ReadOfDate(d)'
<1>1. /\ acs \in SUBSET Rec /\ acs' \in SUBSET Rec
      /\ batch[d] \in SUBSET Rec /\ listed[d] \in SUBSET Rec
      /\ page[d] \in Nat /\ PageSize \in Nat
  BY PagingAssumption DEF PagedTypeInv, TypeInv, TypeOK, PagingTypeOK
<1>2. On(acs, d) \subseteq On(acs', d)
  BY DEF On
<1>3. batch'[d] \subseteq On(acs', d) /\ listed'[d] \subseteq On(acs', d)
  BY <1>2 DEF ReadOfDate
<1>4. ASSUME On(acs', d) = listed'[d] PROVE On(acs, d) = listed[d]
  BY <1>2, <1>4 DEF ReadOfDate
<1>5. ASSUME step'[d] = "idle"
      PROVE  /\ \A c \in listed'[d] \ batch'[d] : Place(d, c)' >= page'[d] * PageSize
             /\ On(acs', d) = listed'[d] =>
                  /\ twice'[d] = {}
                  /\ \A c \in batch'[d] : Place(d, c)' < page'[d] * PageSize
  <2>1. \A c \in Rec : /\ Place(d, c) \in Nat /\ Place(d, c)' \in Nat
                       /\ Place(d, c) <= Place(d, c)'
    <3> TAKE c \in Rec
    <3>1. Place(d, c) \in Nat
      BY <1>1, PlaceIsRank
    <3>2. Before(d, c)' \in SUBSET Rec
      BY <1>1 DEF Before, Listing, On
    <3>3. Place(d, c)' \in Nat
      BY <3>2, RecAssumption, FS_Subset, FS_CardinalityType DEF Place
    <3>. QED BY <1>1, <3>1, <3>3, PlaceGrows
  <2>2. page[d] * PageSize \in Nat
    BY <1>1
  <2>3. \A c \in listed[d] \ batch[d] : Place(d, c)' >= page[d] * PageSize
    BY <1>1, <1>5, <2>1, <2>2 DEF ReadOfDate
  <2>4. ASSUME On(acs', d) = listed'[d]
        PROVE  twice[d] = {} /\ \A c \in batch[d] : Place(d, c)' < page[d] * PageSize
    <3>1. On(acs, d) = listed[d] /\ On(acs', d) = On(acs, d)
      BY <1>4, <2>4
    <3>2. \A c : Place(d, c)' = Place(d, c)
      BY <3>1 DEF Place, Before, Listing
    <3>. QED BY <1>5, <3>1, <3>2 DEF ReadOfDate
  <2>. QED BY <2>3, <2>4
<1>6. ASSUME step'[d] = "fetched"
      PROVE  /\ d \notin blank' => listed'[d] \subseteq batch'[d]
             /\ On(acs', d) = listed'[d] => twice'[d] = {}
  BY <1>4, <1>6 DEF ReadOfDate
<1>7. step'[d] = "idle" =>
        d \notin blank' /\ (page'[d] = 0 => batch'[d] = {} /\ listed'[d] = {})
  BY DEF ReadOfDate
<1>. QED BY <1>3, <1>5, <1>6, <1>7 DEF ReadOfDate

(* A request of the date. *)
LEMMA ReadAsk ==
  ASSUME PagedTypeInv, PagedTypeInv', NEW d \in Date, ReadOfDate(d), Ask(d)
  PROVE  ReadOfDate(d)'
<1> DEFINE p == page[d]
           L == IF p = 0 THEN On(acs, d) ELSE listed[d]
<1>1. PICK records \in Answers(d, p + 1) :
        /\ batch' = [batch EXCEPT ![d] = @ \union records]
        /\ twice' = [twice EXCEPT ![d] = @ \union (batch[d] \intersect records)]
        /\ IF LastPage(records)
           THEN page' = page /\ step' = [step EXCEPT ![d] = "fetched"]
           ELSE page' = [page EXCEPT ![d] = @ + 1] /\ step' = step
        /\ blank' = IF records = PageOf(d, p + 1) THEN blank ELSE blank \union {d}
  BY DEF Ask
<1>2. /\ acs \in SUBSET Rec /\ acs' = acs
      /\ batch[d] \in SUBSET Rec /\ listed[d] \in SUBSET Rec
      /\ p \in Nat /\ PageSize \in Nat \ {0}
      /\ batch'[d] = batch[d] \union records
      /\ twice'[d] = twice[d] \union (batch[d] \intersect records)
      /\ step[d] = "idle"
  BY <1>1, PagingAssumption DEF Ask, PagedTypeInv, TypeInv, TypeOK, PagingTypeOK
<1>3. listed'[d] = L /\ L \subseteq On(acs, d)
  BY DEF Ask, PagedTypeInv, PagingTypeOK, ReadOfDate
<1>4. records \subseteq On(acs, d) /\ records \in SUBSET Rec
  BY AnswerIsOfDate
<1>5. batch'[d] \subseteq On(acs', d) /\ listed'[d] \subseteq On(acs', d)
  BY <1>2, <1>3, <1>4 DEF ReadOfDate
<1>6. \A c : Place(d, c)' = Place(d, c)
  BY <1>2 DEF Place, Before, Listing
<1>7. /\ \A c \in Rec : Place(d, c) \in Nat
      /\ p * PageSize \in Nat /\ (p + 1) * PageSize \in Nat
  <2>1. p + 1 \in Nat
    BY <1>2
  <2>. QED BY <1>2, <2>1, OffsetOfNext, PlaceIsRank
<1>8. \A c \in PageOf(d, p + 1) :
        Place(d, c) >= p * PageSize /\ Place(d, c) < (p + 1) * PageSize
  BY <1>2, <1>7, OffsetOfNext DEF PageOf
<1>9. \A c \in On(acs, d) \ PageOf(d, p + 1) :
        Place(d, c) < p * PageSize \/ Place(d, c) >= (p + 1) * PageSize
  <2>1. \A c \in On(acs, d) : Place(d, c) \in Nat
    BY <1>2, <1>7 DEF On
  <2>. QED BY <1>2, <1>7, <2>1, OffsetOfNext DEF PageOf, Listing
<1>10. \A c \in L \ batch[d] : Place(d, c) >= p * PageSize
  <2>1. \A c \in On(acs, d) : Place(d, c) >= 0
    BY <1>2, <1>7 DEF On
  <2>2. CASE p = 0
    BY <1>2, <2>1, <2>2
  <2>3. CASE p # 0
    BY <1>2, <2>3 DEF ReadOfDate
  <2>. QED BY <2>2, <2>3
<1>11. ASSUME On(acs, d) = L
       PROVE  /\ twice[d] = {}
              /\ \A c \in batch[d] : Place(d, c) < p * PageSize
  <2>1. CASE p = 0
    <3>1. batch[d] = {} /\ twice[d] \subseteq batch[d]
      BY <1>2, <2>1 DEF ReadOfDate, PagedTypeInv, TypeInv, JobInv
    <3>. QED BY <3>1
  <2>2. CASE p # 0
    BY <1>2, <1>11, <2>2 DEF ReadOfDate
  <2>. QED BY <2>1, <2>2
<1>12. records = PageOf(d, p + 1) \/ records = {}
  BY DEF Answers
<1>13. On(acs', d) = listed'[d] => twice'[d] = {}
  <2> SUFFICES ASSUME On(acs, d) = L PROVE batch[d] \intersect records = {}
    BY <1>2, <1>3, <1>11
  <2>1. \A c \in batch[d] : Place(d, c) \in Nat /\ Place(d, c) < p * PageSize
    BY <1>2, <1>7, <1>11
  <2>. QED BY <1>7, <1>8, <1>12, <2>1
<1>14. CASE LastPage(records)
  <2>1. step'[d] = "fetched"
    BY <1>1, <1>14 DEF PagedTypeInv, TypeInv, TypeOK
  <2>2. ASSUME d \notin blank' PROVE listed'[d] \subseteq batch'[d]
    <3>1. records = PageOf(d, p + 1)
      BY <1>1, <2>2
    <3>2. \A c \in On(acs, d) : Place(d, c) < (p + 1) * PageSize
      BY <1>2, <1>14, <3>1, ShortPageIsLast, OffsetOfNext DEF Listing
    <3>3. ASSUME NEW c \in L \ batch[d], c \notin PageOf(d, p + 1) PROVE FALSE
      <4>1. c \in On(acs, d) /\ Place(d, c) \in Nat
        BY <1>2, <1>3, <1>7, <3>3 DEF On
      <4>. QED BY <1>7, <1>9, <1>10, <3>2, <3>3, <4>1
    <3>. QED BY <1>2, <1>3, <3>1, <3>3
  <2>. QED BY <1>5, <1>13, <2>1, <2>2 DEF ReadOfDate
<1>15. CASE ~LastPage(records)
  <2>1. page'[d] = p + 1 /\ step'[d] = "idle"
    BY <1>1, <1>2, <1>15 DEF PagedTypeInv, PagingTypeOK
  <2>2. records = PageOf(d, p + 1)
    BY <1>2, <1>12, <1>15, FS_EmptySet DEF LastPage
  <2>3. d \notin blank'
    BY <1>1, <1>2, <2>2 DEF ReadOfDate
  <2>4. \A c \in listed'[d] \ batch'[d] : Place(d, c)' >= page'[d] * PageSize
    <3> SUFFICES ASSUME NEW c \in L, c \notin batch[d], c \notin records
                 PROVE  Place(d, c) >= (p + 1) * PageSize
      BY <1>2, <1>3, <1>6, <2>1
    <3>1. c \in On(acs, d) /\ Place(d, c) \in Nat /\ Place(d, c) >= p * PageSize
      BY <1>2, <1>3, <1>7, <1>10 DEF On
    <3>. QED BY <1>7, <1>9, <2>2, <3>1
  <2>5. ASSUME On(acs', d) = listed'[d]
        PROVE  \A c \in batch'[d] : Place(d, c)' < page'[d] * PageSize
    <3>1. p * PageSize <= (p + 1) * PageSize
      <4>1. (p + 1) * PageSize = p * PageSize + PageSize
        BY <1>2, OffsetOfNext
      <4>. QED BY <1>2, <1>7, <4>1
    <3>2. \A c \in batch[d] : Place(d, c) \in Nat /\ Place(d, c) < p * PageSize
      BY <1>2, <1>3, <1>7, <1>11, <2>5
    <3>3. \A c \in batch[d] : Place(d, c) < (p + 1) * PageSize
      BY <1>7, <3>1, <3>2
    <3>. QED BY <1>2, <1>6, <1>8, <2>1, <2>2, <3>3
  <2>. QED BY <1>2, <1>5, <1>13, <2>1, <2>3, <2>4, <2>5 DEF ReadOfDate
<1>. QED BY <1>14, <1>15

LEMMA ReadInvStep == PagedTypeInv /\ ReadInv /\ [PagedNext]_pvars => ReadInv'
<1> SUFFICES ASSUME PagedTypeInv, ReadInv, [PagedNext]_pvars, NEW d \in Date
             PROVE  ReadOfDate(d)'
  BY DEF ReadInv
<1>1. PagedTypeInv' /\ ReadOfDate(d)
  BY PagedTypeInvStep DEF ReadInv
<1> USE DEF PagedTypeInv, PagingTypeOK, TypeInv, TypeOK
<1>2. CASE Elsewhere
  <2>1. /\ acs \subseteq acs' /\ batch' = batch /\ twice' = twice
        /\ UNCHANGED paging
        /\ \/ step'[d] = step[d]
           \/ step'[d] \in {"cleared", "stored"}
    BY <1>2 DEF Elsewhere, Register, Request, Clear, Store, Replace, PurgeRaw,
                FetchWindow, Merge, Abandon, jobs
  <2>. QED BY <1>1, <2>1, ReadElsewhere DEF paging
<1>3. CASE Ask(d)
  BY <1>1, <1>3, ReadAsk
<1>4. ASSUME NEW e \in Date, e # d, Ask(e) \/ Leave(e) PROVE ReadOfDate(d)'
  <2>1. /\ acs' = acs
        /\ batch'[d] = batch[d] /\ twice'[d] = twice[d]
        /\ page'[d] = page[d] /\ listed'[d] = listed[d]
        /\ d \in blank' <=> d \in blank
        /\ step'[d] = step[d]
    <3>1. CASE Ask(e)
      BY <1>4, <3>1 DEF Ask
    <3>2. CASE Leave(e)
      BY <1>4, <3>2 DEF Leave, Succeed, Fail, Crash, CrashReading, Stop
    <3>. QED BY <1>4, <3>1, <3>2
  <2>. QED BY <1>1, <2>1, ReadElsewhere
<1>5. CASE Leave(d)
  <2>1. /\ batch'[d] = {} /\ twice'[d] = {} /\ listed'[d] = {}
        /\ step'[d] = "idle" /\ d \notin blank'
    BY <1>5 DEF Leave, Succeed, Fail, Crash, CrashReading, Stop
  <2>. QED BY <2>1 DEF ReadOfDate
<1>6. CASE UNCHANGED pvars
  BY <1>1, <1>6, ReadElsewhere DEF pvars, vars, paging, jobs
<1>. QED BY <1>2, <1>3, <1>4, <1>5, <1>6 DEF PagedNext

LEMMA ReadInvInit == PagedInit => ReadInv
BY DEF PagedInit, Init, ReadInv, ReadOfDate

(* For every order of the listing, wherever new records join it, and every *)
(* page size: an ingestion reads all that was listed when it began, unless *)
(* an answer was blank, and reads nothing twice unless the listing grew.   *)
THEOREM PagingReadsAll == PagedSpec => []PagingIsSnapshot
<1>1. ReadInv => PagingIsSnapshot
  BY DEF ReadInv, ReadOfDate, PagingIsSnapshot
<1>. QED BY <1>1, PagedTypeInvInit, PagedTypeInvStep, ReadInvInit, ReadInvStep, PTL
         DEF PagedSpec
-----------------------------------------------------------------------------
(* What is stored *)

(* For all records: an answer without records deletes no conversion, and   *)
(* none is deleted that was answered.                                      *)
THEOREM ConversionsStay == PagedSpec => ConversionsKept
<1> DEFINE Kept(c) == DayOf(c) \notin Split =>
                        \/ PurgeRaw(DayOf(c))
                        \/ batch[DayOf(c)] # {} /\ c \notin batch[DayOf(c)]
<1>1. ASSUME [PagedNext]_pvars, NEW c \in raw \ raw' PROVE Kept(c)
  <2>1. raw' # raw
    BY <1>1
  <2>2. ASSUME NEW d \in Date, Clear(d) \/ Replace(d) \/ PurgeRaw(d) PROVE Kept(c)
    <3>1. DayOf(c) = d
      BY <1>1, <2>2 DEF Clear, Replace, PurgeRaw, Without, On, tables
    <3>2. CASE Clear(d)
      BY <3>1, <3>2 DEF Clear
    <3>3. CASE Replace(d)
      BY <1>1, <3>1, <3>3 DEF Replace, tables
    <3>. QED BY <2>2, <3>1, <3>2, <3>3
  <2>3. ~ \E d \in Date : Store(d)
    BY <1>1 DEF Store
  <2>4. ~ \E r \in Refresh : Merge(r)
    BY <1>1 DEF Merge
  <2>5. \E d \in Date : Clear(d) \/ Replace(d) \/ PurgeRaw(d)
    BY <1>1, <2>1, <2>3, <2>4
       DEF PagedNext, Elsewhere, Ask, Leave, Succeed, Fail, Crash, CrashReading,
           Register, Request, FetchWindow, Abandon, tables, pvars, vars
  <2>. QED BY <2>2, <2>5
<1>2. [PagedNext]_pvars => [\A c \in raw \ raw' : Kept(c)]_pvars
  BY <1>1
<1>. QED BY <1>2, PTL DEF PagedSpec, ConversionsKept

-----------------------------------------------------------------------------
(* Page by page, or all at once *)

LEMMA WholeInit == PagedInit => Atomic!Init
BY DEF PagedInit, Init, Atomic!Init, Whole

(* Only the last request shows: as a fetch of all that was read.  What     *)
(* that misses of the listing is a short answer to Ingestion, what it      *)
(* repeats is drift.                                                       *)
LEMMA WholeAsk ==
  ASSUME {"drift", "short"} \subseteq Hazards, PagedTypeInv, PagedTypeInv', ReadInv',
         NEW d \in Date, Ask(d)
  PROVE  Atomic!Fetch(d) \/ UNCHANGED Atomic!vars
<1> USE DEF PagedTypeInv, TypeInv, TypeOK, JobInv
<1>1. CASE step' = step
  <2>1. /\ \A e \in Date : e # d => batch'[e] = batch[e] /\ twice'[e] = twice[e]
        /\ step[d] = "idle"
    BY DEF Ask
  <2>2. Whole(batch)' = Whole(batch) /\ Whole(twice)' = Whole(twice)
    BY <1>1, <2>1 DEF Whole
  <2>. QED BY <1>1, <2>2 DEF Ask, Atomic!vars, Atomic!tables, Atomic!jobs, tables
<1>2. CASE step' = [step EXCEPT ![d] = "fetched"]
  <2>1. /\ \A e \in Date : e # d => batch'[e] = batch[e] /\ twice'[e] = twice[e]
        /\ d \in wanted /\ step[d] = "idle" /\ step'[d] = "fetched" /\ acs' = acs
    BY <1>2 DEF Ask
  <2>2. Whole(batch)' = [Whole(batch) EXCEPT ![d] = batch'[d]]
    BY <1>2, <2>1 DEF Whole
  <2>3. Whole(twice)' = [Whole(twice) EXCEPT ![d] = twice'[d]]
    BY <1>2, <2>1 DEF Whole
  <2>4. batch'[d] \in SUBSET On(acs, d) /\ twice'[d] \in SUBSET batch'[d]
    BY <2>1 DEF ReadInv, ReadOfDate
  <2>5. On(acs, d) = Atomic!On(acs, d)
    BY DEF On, Atomic!On, DayOf, Atomic!DayOf
  <2>6. UNCHANGED <<acs, tables, wanted, attempts, fetched, tainted>>
    BY DEF Ask
  <2>. QED BY <1>2, <2>1, <2>2, <2>3, <2>4, <2>5, <2>6
           DEF Atomic!Fetch, Atomic!tables, tables
<1>. QED BY <1>1, <1>2 DEF Ask

LEMMA WholeUnchanged ==
  UNCHANGED jobs => Whole(batch)' = Whole(batch) /\ Whole(twice)' = Whole(twice)
BY DEF jobs, Whole

LEMMA SameShare ==
  ASSUME NEW S, NEW b
  PROVE  Share(S, b) = Atomic!Share(S, b)
BY DEF Share, Atomic!Share, Cardinality, Atomic!Cardinality

(* Past the last request the batch is there for all to see. *)
LEMMA WholeDate ==
  ASSUME PagedTypeInv, NEW d \in Date,
         Clear(d) \/ Store(d) \/ Replace(d)
  PROVE  Atomic!Clear(d) \/ Atomic!Store(d) \/ Atomic!Replace(d)
<1> USE DEF PagedTypeInv, TypeInv, TypeOK
<1>1. /\ step[d] \in {"fetched", "cleared"} /\ step'[d] \in {"cleared", "stored"}
      /\ \A e \in Date : e # d => step'[e] = step[e]
      /\ batch' = batch /\ twice' = twice
  BY DEF Clear, Store, Replace
<1>2. /\ Whole(batch)[d] = batch[d] /\ Whole(twice)[d] = twice[d]
      /\ Whole(batch)' = Whole(batch) /\ Whole(twice)' = Whole(twice)
  BY <1>1 DEF Whole
<1>3. /\ Without(d) = Atomic!Without(d)
      /\ Zeroed(d) = Atomic!Zeroed(d)
      /\ \A S, b : Share(S, b) = Atomic!Share(S, b)
  BY SameShare DEF Without, On, DayOf, Zeroed, Atomic!Without, Atomic!On,
                   Atomic!DayOf, Atomic!Zeroed
<1>4. CASE Clear(d)
  BY <1>2, <1>3, <1>4 DEF Clear, Atomic!Clear
<1>5. CASE Store(d)
  BY <1>2, <1>3, <1>5 DEF Store, Atomic!Store
<1>6. CASE Replace(d)
  <2>1. CASE batch[d] = {}
    BY <1>2, <1>6, <2>1 DEF Replace, Atomic!Replace, tables, Atomic!tables
  <2>2. CASE batch[d] # {}
    BY <1>2, <1>3, <1>6, <2>2 DEF Replace, Atomic!Replace
  <2>. QED BY <2>1, <2>2
<1>. QED BY <1>4, <1>5, <1>6

LEMMA WholeElsewhere ==
  ASSUME PagedTypeInv, Elsewhere
  PROVE  Atomic!Next
<1> USE DEF tables, jobs, Atomic!tables, Atomic!jobs
<1>1. ASSUME NEW c \in Rec, Register(c) PROVE Atomic!Register(c)
  BY <1>1, WholeUnchanged DEF Register, Atomic!Register
<1>2. ASSUME NEW d \in Date, Request(d) PROVE Atomic!Request(d)
  <2>1. Whole(batch)' = Whole(batch) /\ Whole(twice)' = Whole(twice)
    BY <1>2 DEF Request, Whole
  <2>. QED BY <1>2, <2>1 DEF Request, Atomic!Request
<1>3. ASSUME NEW d \in Date, PurgeRaw(d) PROVE Atomic!PurgeRaw(d)
  BY <1>3, WholeUnchanged
     DEF PurgeRaw, Atomic!PurgeRaw, On, Without, DayOf, Atomic!On,
         Atomic!Without, Atomic!DayOf
<1>4. ASSUME NEW r \in Refresh, FetchWindow(r) PROVE Atomic!FetchWindow(r)
  BY <1>4, WholeUnchanged DEF FetchWindow, Atomic!FetchWindow
<1>5. ASSUME NEW r \in Refresh, Merge(r) PROVE Atomic!Merge(r)
  <2>1. Overtaken(r) = Atomic!Overtaken(r)
    BY DEF Overtaken, Atomic!Overtaken, Whole
  <2>2. \A S, b : Share(S, b) = Atomic!Share(S, b)
    BY SameShare
  <2>. QED BY <1>5, <2>1, <2>2, WholeUnchanged DEF Merge, Atomic!Merge
<1>6. ASSUME NEW r \in Refresh, Abandon(r) PROVE Atomic!Abandon(r)
  BY <1>6, WholeUnchanged DEF Abandon, Atomic!Abandon
<1>. QED BY <1>1, <1>2, <1>3, <1>4, <1>5, <1>6, WholeDate
         DEF Elsewhere, Atomic!Next, Atomic!DateStep

LEMMA WholeLeave ==
  ASSUME PagedTypeInv, NEW d \in Date, Leave(d)
  PROVE  Atomic!Next \/ UNCHANGED Atomic!vars
<1> USE DEF PagedTypeInv, TypeInv, TypeOK, tables, Atomic!tables
<1>1. Stop(d)
  BY DEF Leave, Succeed, Fail, Crash, CrashReading
<1>2. /\ step'[d] = "idle" /\ batch'[d] = {} /\ twice'[d] = {}
      /\ \A e \in Date : e # d => /\ step'[e] = step[e]
                                  /\ batch'[e] = batch[e] /\ twice'[e] = twice[e]
  BY <1>1 DEF Stop
<1>3. /\ Whole(batch)' = [Whole(batch) EXCEPT ![d] = {}]
      /\ Whole(twice)' = [Whole(twice) EXCEPT ![d] = {}]
  BY <1>2 DEF Whole
<1>4. Atomic!Stop(d)
  BY <1>1, <1>3 DEF Stop, Atomic!Stop
<1>5. CASE Succeed(d)
  BY <1>4, <1>5 DEF Succeed, Atomic!Succeed, Atomic!Next, Atomic!DateStep
<1>6. CASE Fail(d)
  BY <1>4, <1>6 DEF Fail, Atomic!Fail, Atomic!Next
<1>7. CASE Crash(d)
  BY <1>4, <1>7 DEF Crash, Atomic!Crash, Atomic!Next
<1>8. CASE CrashReading(d)
  <2>1. step' = step
    BY <1>1, <1>8 DEF CrashReading, Stop
  <2>2. Whole(batch)' = Whole(batch) /\ Whole(twice)' = Whole(twice)
    BY <1>2, <2>1 DEF Whole
  <2>. QED BY <1>8, <2>1, <2>2 DEF CrashReading, Atomic!vars, Atomic!jobs
<1>. QED BY <1>5, <1>6, <1>7, <1>8 DEF Leave

LEMMA WholeStep ==
  ASSUME {"drift", "short"} \subseteq Hazards
  PROVE  PagedTypeInv /\ ReadInv /\ [PagedNext]_pvars => [Atomic!Next]_(Atomic!vars)
<1> SUFFICES ASSUME PagedTypeInv, ReadInv, [PagedNext]_pvars
             PROVE  Atomic!Next \/ UNCHANGED Atomic!vars
  OBVIOUS
<1>1. PagedTypeInv' /\ ReadInv'
  BY PagedTypeInvStep, ReadInvStep
<1>2. ASSUME NEW d \in Date, Ask(d) PROVE Atomic!Next \/ UNCHANGED Atomic!vars
  <2>1. Atomic!Fetch(d) \/ UNCHANGED Atomic!vars
    BY <1>1, <1>2, WholeAsk
  <2>. QED BY <2>1 DEF Atomic!Next, Atomic!DateStep
<1>3. CASE UNCHANGED pvars
  <2>1. UNCHANGED jobs
    BY <1>3 DEF pvars, vars
  <2>. QED BY <1>3, <2>1, WholeUnchanged
           DEF pvars, vars, tables, jobs, Atomic!vars, Atomic!tables, Atomic!jobs
<1>. QED BY <1>2, <1>3, WholeElsewhere, WholeLeave DEF PagedNext

(* For all records, orders, page sizes and dates: to the rest of the       *)
(* system reading page by page is one fetch that may miss records of the   *)
(* date or return some twice, so that all that holds of Ingestion with     *)
(* those hazards holds of the loop.                                        *)
THEOREM LoopIsFetch ==
  ASSUME {"drift", "short"} \subseteq Hazards
  PROVE  PagedSpec => AtomicSpec
<1>. QED BY WholeInit, WholeStep, PagedTypeInvInit, PagedTypeInvStep, ReadInvInit,
            ReadInvStep, PTL DEF PagedSpec, AtomicSpec, Atomic!Spec

LEMMA TablesUnread ==
  ASSUME PagedTypeInv, NEW d \in Date, Ask(d) \/ CrashReading(d)
  PROVE  /\ UNCHANGED <<tables, tainted>>
         /\ \A e \in Date : step'[e] = "cleared" =>
              step[e] = "cleared" /\ batch'[e] = batch[e]
<1>1. CASE Ask(d)
  BY <1>1 DEF Ask, PagedTypeInv, TypeInv, TypeOK
<1>2. CASE CrashReading(d)
  BY <1>2 DEF CrashReading, Stop, PagedTypeInv, TypeInv, TypeOK
<1>. QED BY <1>1, <1>2

LEMMA PagedSteps ==
  [PagedNext]_pvars => [Next]_vars \/ \E d \in Date : Ask(d) \/ CrashReading(d)
BY DEF PagedNext, Elsewhere, Leave, Next, DateStep, pvars

(* Tables, whoever reads the listing. *)
TablesInv ==
  /\ NeverUndercounts /\ AggregatesMatchRaw /\ ClearedApart
  /\ CountersHaveRecords

LEMMA TablesInvariant == PagedSpec => [](PagedTypeInv /\ TablesInv)
<1>1. PagedInit => TablesInv
  <2> SUFFICES ASSUME PagedInit PROVE TablesInv
    OBVIOUS
  <2>1. \A b \in Bucket : Share(raw, b) = 0 /\ agg[b] = 0
    BY ShareOfNone DEF PagedInit, Init
  <2>2. ClearedApart
    BY DEF PagedInit, Init, ClearedApart
  <2>3. NeverUndercounts /\ AggregatesMatchRaw
    BY <2>1 DEF NeverUndercounts, AggregatesMatchRaw
  <2>4. CountersHaveRecords
    BY <2>1 DEF CountersHaveRecords
  <2>. QED BY <2>2, <2>3, <2>4 DEF TablesInv
<1>2. PagedTypeInv /\ TablesInv /\ [PagedNext]_pvars => TablesInv'
  <2> SUFFICES ASSUME PagedTypeInv, TablesInv, [PagedNext]_pvars PROVE TablesInv'
    OBVIOUS
  <2>1. CASE [Next]_vars
    BY <2>1, CountedStep, MatchStep, ApartStep, CountersStep
       DEF PagedTypeInv, TablesInv
  <2>2. ASSUME NEW d \in Date, Ask(d) \/ CrashReading(d) PROVE TablesInv'
    <3>1. /\ UNCHANGED <<tables, tainted>>
          /\ \A e \in Date : step'[e] = "cleared" =>
               step[e] = "cleared" /\ batch'[e] = batch[e]
      BY <2>2, TablesUnread
    <3>2. NeverUndercounts' /\ AggregatesMatchRaw'
      BY <3>1 DEF TablesInv, NeverUndercounts, AggregatesMatchRaw, tables, Share
    <3>3. ClearedApart' /\ CountersHaveRecords'
      BY <3>1 DEF TablesInv, ClearedApart, CountersHaveRecords, tables
    <3>. QED BY <3>2, <3>3 DEF TablesInv
  <2>. QED BY <2>1, <2>2, PagedSteps
<1>. QED BY <1>1, <1>2, PagedTypeInvInit, PagedTypeInvStep, PTL DEF PagedSpec

(* Read page by page, too, no counter is ever too low, and on a date that  *)
(* is not tainted each stands for exactly the raw rows of its key.         *)
THEOREM PagedEvidence == PagedSpec => [](NeverUndercounts /\ AggregatesMatchRaw)
<1>1. TablesInv => NeverUndercounts /\ AggregatesMatchRaw
  BY DEF TablesInv
<1>. QED BY <1>1, TablesInvariant, PTL

(* So what the detector makes of the tables holds of pages as well: nobody *)
(* is missed, damage is what was paid, and evidence never clears.          *)
THEOREM PagedDetection ==
  PagedSpec => /\ [](DetectionIsComplete /\ DamageIsWhatWasPaid)
               /\ MoreEvidenceNeverLessRisk
<1>1. PagedTypeInv /\ TablesInv => DetectionIsComplete /\ DamageIsWhatWasPaid
  BY AccusedIsFound, DamageMatches DEF PagedTypeInv, TablesInv
<1>2. /\ PagedTypeInv /\ TablesInv /\ PagedTypeInv' /\ TablesInv'
      => [Grows => NeverLess]_vars
  BY LessIsNoRisk DEF PagedTypeInv, TablesInv
<1>. QED BY <1>1, <1>2, TablesInvariant, PTL DEF MoreEvidenceNeverLessRisk
=============================================================================
