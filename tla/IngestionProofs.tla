--------------------------- MODULE IngestionProofs ---------------------------
(***************************************************************************)
(* Proofs about Ingestion for every set of records, keys, dates, refreshes *)
(* and hazards, and about Detection, which reads the tables it fills, for  *)
(* all rules, prices and thresholds.                                       *)
(***************************************************************************)
EXTENDS Detection, Listings

-----------------------------------------------------------------------------
(* What a counter stands for. *)

Of(S, b) == {c \in S \intersect Counted : BucketOf[c] = b}

LEMMA OfFinite ==
  ASSUME NEW S \in SUBSET Rec, NEW b
  PROVE  IsFiniteSet(Of(S, b))
<1>1. Of(S, b) \in SUBSET Rec
  BY DEF Of
<1>. QED BY <1>1, RecAssumption, FS_Subset

LEMMA ShareType ==
  ASSUME NEW S \in SUBSET Rec, NEW b
  PROVE  Share(S, b) \in Nat
<1>1. Share(S, b) = Cardinality(Of(S, b))
  BY DEF Share, Of
<1>. QED BY <1>1, OfFinite, FS_CardinalityType

(* A smaller set of records counts for no more. *)
LEMMA ShareMonotone ==
  ASSUME NEW T \in SUBSET Rec, NEW S \in SUBSET T, NEW b
  PROVE  Share(S, b) <= Share(T, b)
<1>1. Share(S, b) = Cardinality(Of(S, b)) /\ Share(T, b) = Cardinality(Of(T, b))
  BY DEF Share, Of
<1>2. Of(S, b) \in SUBSET Of(T, b)
  BY DEF Of
<1>. QED BY <1>1, <1>2, OfFinite, FS_Subset

(* What is added counts once, as far as it is new. *)
LEMMA ShareSplit ==
  ASSUME NEW S \in SUBSET Rec, NEW T \in SUBSET Rec, NEW b
  PROVE  Share(S \union T, b) = Share(S, b) + Share(T \ S, b)
<1>1. /\ Share(S \union T, b) = Cardinality(Of(S, b) \union Of(T \ S, b))
      /\ Share(S, b) = Cardinality(Of(S, b))
      /\ Share(T \ S, b) = Cardinality(Of(T \ S, b))
  <2>1. Of(S \union T, b) = Of(S, b) \union Of(T \ S, b)
    BY DEF Of
  <2>. QED BY <2>1 DEF Share, Of
<1>2. Of(S, b) \intersect Of(T \ S, b) = {}
  BY DEF Of
<1>3. T \ S \in SUBSET Rec
  OBVIOUS
<1>4. IsFiniteSet(Of(S, b)) /\ IsFiniteSet(Of(T \ S, b))
  BY <1>3, OfFinite
<1>5. /\ Cardinality(Of(S, b)) \in Nat
      /\ Cardinality(Of(T \ S, b)) \in Nat
  BY <1>4, FS_CardinalityType
<1>6. Cardinality(Of(S, b) \union Of(T \ S, b))
        = Cardinality(Of(S, b)) + Cardinality(Of(T \ S, b))
              - Cardinality(Of(S, b) \intersect Of(T \ S, b))
  BY <1>4, FS_Union
<1>7. Cardinality(Of(S, b) \intersect Of(T \ S, b)) = 0
  BY <1>2, FS_EmptySet
<1>. QED BY <1>1, <1>5, <1>6, <1>7

(* Records of another date count nothing. *)
LEMMA ShareOfNone ==
  ASSUME NEW S \in SUBSET Rec, NEW b \in Bucket,
         \A c \in S : DayOf(c) # DateOf[b]
  PROVE  Share(S, b) = 0
<1>1. {c \in S \intersect Counted : BucketOf[c] = b} = {}
  BY DEF DayOf
<1>. QED BY <1>1, FS_EmptySet DEF Share

(* Taking the records of a date away leaves its counters none to stand for *)
(* and those of the other dates all of theirs.                             *)
LEMMA ShareWithout ==
  ASSUME NEW S \in SUBSET Rec, NEW d, NEW b \in Bucket
  PROVE  Share(S \ On(S, d), b) = IF DateOf[b] = d THEN 0 ELSE Share(S, b)
<1>1. CASE DateOf[b] = d
  <2>1. \A c \in S \ On(S, d) : DayOf(c) # DateOf[b]
    BY <1>1 DEF On
  <2>. QED BY <1>1, <2>1, ShareOfNone
<1>2. CASE DateOf[b] # d
  <2>1. {c \in (S \ On(S, d)) \intersect Counted : BucketOf[c] = b}
          = {c \in S \intersect Counted : BucketOf[c] = b}
    BY <1>2 DEF On, DayOf
  <2>. QED BY <1>2, <2>1 DEF Share
<1>. QED BY <1>1, <1>2

-----------------------------------------------------------------------------
(* Types *)

(* A job that is wanted has an attempt left; what an ingestion has fetched *)
(* is of its date.                                                         *)
JobInv ==
  /\ \A d \in wanted : attempts[d] < MaxAttempts
  /\ \A d \in Date : \A c \in batch[d] : DayOf(c) = d
  /\ \A d \in Date : twice[d] \subseteq batch[d]

TypeInv == TypeOK /\ JobInv

LEMMA TypeInvInit == Init => TypeInv
BY JobAssumption DEF Init, TypeInv, TypeOK, JobInv

LEMMA TypeInvDate ==
  ASSUME TypeInv, NEW d \in Date, DateStep(d) PROVE TypeInv'
<1> USE JobAssumption DEF TypeInv, TypeOK, JobInv, tables, Stop
<1>1. CASE Fetch(d)
  BY <1>1 DEF Fetch, On
<1>2. CASE Clear(d)
  BY <1>2 DEF Clear, Without, Zeroed
<1>3. CASE Store(d)
  <2>1. \A b \in Bucket : Share(batch[d], b) \in Nat /\ Share(twice[d], b) \in Nat
    BY ShareType
  <2>2. agg' \in [Bucket -> Nat]
    BY <1>3, <2>1 DEF Store
  <2>3. raw' \subseteq Rec
    BY <1>3 DEF Store
  <2>. QED BY <1>3, <2>2, <2>3 DEF Store
<1>4. CASE Replace(d)
  <2>1. \A b \in Bucket : Share(batch[d], b) \in Nat /\ Share(twice[d], b) \in Nat
    BY ShareType
  <2>2. \A b \in Bucket : Zeroed(d)[b] \in Nat
    BY DEF Zeroed
  <2>3. agg' \in [Bucket -> Nat]
    BY <1>4, <2>1, <2>2 DEF Replace
  <2>4. raw' \subseteq Rec
    BY <1>4 DEF Replace, Without
  <2>. QED BY <1>4, <2>3, <2>4 DEF Replace
<1>5. CASE Succeed(d)
  BY <1>5 DEF Succeed
<1>. QED BY <1>1, <1>2, <1>3, <1>4, <1>5 DEF DateStep

LEMMA TypeInvStep == TypeInv /\ [Next]_vars => TypeInv'
<1> SUFFICES ASSUME TypeInv, [Next]_vars PROVE TypeInv'
  OBVIOUS
<1>1. ASSUME NEW c \in Rec, Register(c) PROVE TypeInv'
  BY <1>1 DEF Register, TypeInv, TypeOK, JobInv, tables, jobs
<1>2. ASSUME NEW d \in Date, Request(d) PROVE TypeInv'
  BY <1>2, JobAssumption DEF Request, TypeInv, TypeOK, JobInv, tables
<1>3. ASSUME NEW d \in Date, Fail(d) PROVE TypeInv'
  <2>1. attempts[d] + 1 \in 0..MaxAttempts
    BY <1>3, JobAssumption DEF Fail, TypeInv, TypeOK, JobInv
  <2>. QED BY <1>3, <2>1, JobAssumption
           DEF Fail, Stop, TypeInv, TypeOK, JobInv, tables
<1>4. ASSUME NEW d \in Date, Crash(d) PROVE TypeInv'
  BY <1>4 DEF Crash, Stop, TypeInv, TypeOK, JobInv, tables
<1>5. ASSUME NEW d \in Date, PurgeRaw(d) PROVE TypeInv'
  BY <1>5 DEF PurgeRaw, Without, TypeInv, TypeOK, JobInv, jobs
<1>6. ASSUME NEW r \in Refresh, FetchWindow(r) PROVE TypeInv'
  BY <1>6 DEF FetchWindow, TypeInv, TypeOK, JobInv, tables, jobs
<1>7. ASSUME NEW r \in Refresh, Merge(r) PROVE TypeInv'
  <2>1. \A b \in Bucket : Share(fetched[r] \ raw, b) \in Nat
    <3>1. fetched[r] \ raw \in SUBSET Rec
      BY DEF TypeInv, TypeOK
    <3>. QED BY <3>1, ShareType
  <2>2. \A b \in Bucket : agg[b] + Share(fetched[r] \ raw, b) \in Nat
    <3>1. \A b \in Bucket : agg[b] \in Nat
      BY DEF TypeInv, TypeOK
    <3>. QED BY <2>1, <3>1
  <2>3. agg' = [b \in Bucket |-> agg[b] + Share(fetched[r] \ raw, b)]
    BY <1>7 DEF Merge
  <2>4. agg' \in [Bucket -> Nat]
    BY <2>2, <2>3
  <2>. QED BY <1>7, <2>4 DEF Merge, Overtaken, TypeInv, TypeOK, JobInv, jobs
<1>8. ASSUME NEW r \in Refresh, Abandon(r) PROVE TypeInv'
  BY <1>8 DEF Abandon, TypeInv, TypeOK, JobInv, tables, jobs
<1>9. CASE UNCHANGED vars
  BY <1>9 DEF vars, tables, jobs, TypeInv, TypeOK, JobInv
<1>. QED BY <1>1, <1>2, <1>3, <1>4, <1>5, <1>6, <1>7, <1>8, <1>9, TypeInvDate
         DEF Next

(* Every table and every job variable keeps its type: no job makes more    *)
(* attempts than its maximum.                                              *)
THEOREM TypeCorrect == Spec => []TypeOK
<1>1. TypeInv => TypeOK
  BY DEF TypeInv
<1>. QED BY <1>1, TypeInvInit, TypeInvStep, PTL DEF Spec
-----------------------------------------------------------------------------
(* Counters and raw rows *)

LEMMA SharesAreNumbers ==
  ASSUME TypeInv
  PROVE  /\ \A b \in Bucket : agg[b] \in Nat /\ Share(raw, b) \in Nat
         /\ \A d \in Date, b \in Bucket : /\ Share(batch[d], b) \in Nat
                                         /\ Share(twice[d], b) \in Nat
BY ShareType DEF TypeInv, TypeOK

(* Storing a batch leaves other dates alone and adds to its own at most    *)
(* the batch, exactly the batch if none of it is stored already.           *)
LEMMA ShareOfBatch ==
  ASSUME TypeInv, NEW d \in Date, NEW S \in SUBSET Rec, NEW b \in Bucket
  PROVE  /\ Share(S \union batch[d], b) <= Share(S, b) + Share(batch[d], b)
         /\ S \intersect batch[d] = {} =>
              Share(S \union batch[d], b) = Share(S, b) + Share(batch[d], b)
         /\ DateOf[b] # d => /\ Share(S \union batch[d], b) = Share(S, b)
                             /\ Share(batch[d], b) = 0
                             /\ Share(twice[d], b) = 0
<1>1. batch[d] \in SUBSET Rec /\ twice[d] \in SUBSET batch[d]
  BY DEF TypeInv, TypeOK, JobInv
<1>2. Share(S \union batch[d], b) = Share(S, b) + Share(batch[d] \ S, b)
  BY <1>1, ShareSplit
<1>3. batch[d] \ S \in SUBSET batch[d] /\ batch[d] \ S \in SUBSET Rec
  BY <1>1
<1>4. Share(batch[d] \ S, b) <= Share(batch[d], b)
  BY <1>1, <1>3, ShareMonotone
<1>5. /\ Share(S, b) \in Nat
      /\ Share(batch[d], b) \in Nat
      /\ Share(batch[d] \ S, b) \in Nat
  BY <1>1, <1>3, ShareType
<1>6. Share(S \union batch[d], b) <= Share(S, b) + Share(batch[d], b)
  BY <1>2, <1>4, <1>5
<1>7. ASSUME S \intersect batch[d] = {}
      PROVE  Share(S \union batch[d], b) = Share(S, b) + Share(batch[d], b)
  <2>1. batch[d] \ S = batch[d]
    BY <1>7
  <2>. QED BY <1>2, <2>1
<1>8. ASSUME DateOf[b] # d
      PROVE  /\ Share(S \union batch[d], b) = Share(S, b)
             /\ Share(batch[d], b) = 0
             /\ Share(twice[d], b) = 0
  <2>1. \A c \in batch[d] : DayOf(c) # DateOf[b]
    BY <1>8 DEF TypeInv, JobInv
  <2>2. Share(batch[d], b) = 0 /\ Share(twice[d], b) = 0
    <3>1. twice[d] \in SUBSET Rec /\ \A c \in twice[d] : DayOf(c) # DateOf[b]
      BY <1>1, <2>1
    <3>. QED BY <1>1, <2>1, <3>1, ShareOfNone
  <2>3. Share(batch[d] \ S, b) = 0
    BY <1>4, <1>5, <2>2
  <2>. QED BY <1>2, <1>5, <2>2, <2>3
<1>. QED BY <1>6, <1>7, <1>8

(* A merge changes the raw rows and the counters by the same records.      *)
LEMMA MergeCounts ==
  ASSUME TypeInv, NEW r \in Refresh, Merge(r), NEW b \in Bucket
  PROVE  agg'[b] - agg[b] = Share(raw', b) - Share(raw, b)
<1>1. raw \in SUBSET Rec /\ fetched[r] \in SUBSET Rec
  BY DEF TypeInv, TypeOK
<1>2. Share(raw \union fetched[r], b) = Share(raw, b) + Share(fetched[r] \ raw, b)
  BY <1>1, ShareSplit
<1>3. fetched[r] \ raw \in SUBSET Rec
  BY <1>1
<1>4. /\ Share(raw, b) \in Nat
      /\ Share(fetched[r] \ raw, b) \in Nat
      /\ agg[b] \in Nat
  BY <1>1, <1>3, ShareType DEF TypeInv, TypeOK
<1>5. Share(raw', b) = Share(raw \union fetched[r], b)
  BY DEF Merge
<1>6. agg'[b] = agg[b] + Share(fetched[r] \ raw, b)
  BY DEF Merge
<1>. QED BY <1>2, <1>4, <1>5, <1>6

(* No stored record is missing from its counter.                           *)
LEMMA CountedStep ==
  TypeInv /\ NeverUndercounts /\ [Next]_vars => NeverUndercounts'
<1> SUFFICES ASSUME TypeInv, NeverUndercounts, [Next]_vars, NEW b \in Bucket
             PROVE  agg'[b] >= Share(raw', b)
  BY DEF NeverUndercounts
<1>1. agg[b] >= Share(raw, b) /\ agg[b] \in Nat /\ Share(raw, b) \in Nat
  BY SharesAreNumbers DEF NeverUndercounts
<1>2. raw \in SUBSET Rec
  BY DEF TypeInv, TypeOK
<1>3. ASSUME UNCHANGED tables PROVE agg'[b] >= Share(raw', b)
  BY <1>1, <1>3 DEF tables
<1>4. ASSUME NEW d \in Date, Clear(d) PROVE agg'[b] >= Share(raw', b)
  <2>1. raw' = raw \ On(raw, d) /\ agg'[b] = IF DateOf[b] = d THEN 0 ELSE agg[b]
    BY <1>4 DEF Clear, Without, Zeroed
  <2>. QED BY <1>1, <1>2, <2>1, ShareWithout
<1>5. ASSUME NEW d \in Date, Store(d) PROVE agg'[b] >= Share(raw', b)
  <2>1. /\ raw' = raw \union batch[d]
        /\ agg'[b] = agg[b] + Share(batch[d], b) + Share(twice[d], b)
    BY <1>5 DEF Store
  <2>2. Share(raw \union batch[d], b) <= Share(raw, b) + Share(batch[d], b)
    BY <1>2, ShareOfBatch
  <2>3. Share(raw \union batch[d], b) \in Nat
    <3>1. raw \union batch[d] \in SUBSET Rec
      BY DEF TypeInv, TypeOK
    <3>. QED BY <3>1, ShareType
  <2>. QED BY <1>1, <2>1, <2>2, <2>3, SharesAreNumbers
<1>6. ASSUME NEW d \in Date, Replace(d) PROVE agg'[b] >= Share(raw', b)
  <2>1. CASE batch[d] = {}
    BY <1>3, <1>6, <2>1 DEF Replace
  <2>2. CASE batch[d] # {}
    <3> DEFINE S == raw \ On(raw, d)
    <3>1. /\ raw' = S \union batch[d]
          /\ agg'[b] = Zeroed(d)[b] + Share(batch[d], b) + Share(twice[d], b)
      BY <1>6, <2>2 DEF Replace, Without
    <3>2. S \in SUBSET Rec /\ S \union batch[d] \in SUBSET Rec
      BY DEF TypeInv, TypeOK
    <3>3. Zeroed(d)[b] = IF DateOf[b] = d THEN 0 ELSE agg[b]
      BY DEF Zeroed
    <3>4. Share(S, b) = IF DateOf[b] = d THEN 0 ELSE Share(raw, b)
      BY <1>2, ShareWithout
    <3>5. Share(S \union batch[d], b) <= Share(S, b) + Share(batch[d], b)
      BY <3>2, ShareOfBatch
    <3>6. Share(S \union batch[d], b) \in Nat
      BY <3>2, ShareType
    <3> HIDE DEF S
    <3>. QED BY <1>1, <3>1, <3>3, <3>4, <3>5, <3>6, SharesAreNumbers
  <2>. QED BY <2>1, <2>2
<1>7. ASSUME NEW r \in Refresh, Merge(r) PROVE agg'[b] >= Share(raw', b)
  <2>1. agg'[b] - agg[b] = Share(raw', b) - Share(raw, b)
    BY <1>7, MergeCounts
  <2>2. agg'[b] \in Nat /\ Share(raw', b) \in Nat
    <3>1. TypeInv'
      BY TypeInvStep
    <3>2. raw' \in SUBSET Rec /\ agg' \in [Bucket -> Nat]
      BY <3>1 DEF TypeInv, TypeOK
    <3>. QED BY <3>2, ShareType
  <2>. QED BY <1>1, <2>1, <2>2
<1>8. ASSUME NEW d \in Date, PurgeRaw(d) PROVE agg'[b] >= Share(raw', b)
  <2>1. raw' = raw \ On(raw, d) /\ agg' = agg
    BY <1>8 DEF PurgeRaw, Without
  <2>. QED BY <1>1, <1>2, <2>1, ShareWithout
<1>9. CASE UNCHANGED vars
  BY <1>3, <1>9 DEF vars
<1>. QED BY <1>3, <1>4, <1>5, <1>6, <1>7, <1>8, <1>9
         DEF Next, DateStep, Register, Request, Fetch, Succeed, Fail, Crash,
             FetchWindow, Abandon

(* For every set of records, however ACS answers, whatever fails, dies, is *)
(* repeated or purged, and also where a refresh comes between the two      *)
(* transactions of an ingestion: a counter is never too low.               *)
THEOREM NothingIsMissing == Spec => []NeverUndercounts
<1>1. Init => NeverUndercounts
  <2> SUFFICES ASSUME Init, NEW b \in Bucket PROVE agg[b] >= Share(raw, b)
    BY DEF NeverUndercounts
  <2>1. Share({}, b) = 0
    BY ShareOfNone
  <2>. QED BY <2>1 DEF Init
<1>. QED BY <1>1, TypeInvInit, TypeInvStep, CountedStep, PTL DEF Spec

-----------------------------------------------------------------------------
(* Equality of the two *)

(* Between the two transactions of a click ingestion nothing of what it    *)
(* is about to store is there, unless the date is tainted.                 *)
ClearedApart ==
  \A d \in Date \ tainted :
    step[d] = "cleared" => raw \intersect batch[d] = {}

LEMMA ApartStep == TypeInv /\ ClearedApart /\ [Next]_vars => ClearedApart'
<1> SUFFICES ASSUME TypeInv, ClearedApart, [Next]_vars, NEW e \in Date,
                    e \notin tainted', step'[e] = "cleared"
             PROVE  raw' \intersect batch'[e] = {}
  BY DEF ClearedApart
<1>1. \A d \in Date : \A c \in batch[d] : c \in Rec /\ DayOf(c) = d
  BY DEF TypeInv, TypeOK, JobInv
<1>2. ASSUME step'[e] = step[e], batch'[e] = batch[e], e \notin tainted,
             raw' \intersect batch[e] \subseteq raw
      PROVE  raw' \intersect batch'[e] = {}
  BY <1>2 DEF ClearedApart
<1>3. ASSUME NEW d \in Date, DateStep(d) PROVE raw' \intersect batch'[e] = {}
  <2> USE DEF TypeInv, TypeOK
  <2>1. CASE Fetch(d)
    BY <1>2, <2>1 DEF Fetch, tables
  <2>2. CASE Clear(d)
    <3>1. raw' = raw \ On(raw, d) /\ batch' = batch /\ tainted' = tainted \ {d}
      BY <2>2 DEF Clear, Without
    <3>2. CASE e = d
      BY <1>1, <3>1, <3>2 DEF On
    <3>3. CASE e # d
      BY <1>2, <2>2, <3>1, <3>3 DEF Clear
    <3>. QED BY <3>2, <3>3
  <2>3. CASE Store(d)
    <3>1. e # d
      BY <2>3 DEF Store
    <3>2. raw' = raw \union batch[d] /\ batch' = batch /\ tainted \subseteq tainted'
      BY <2>3 DEF Store
    <3>3. raw' \intersect batch[e] \subseteq raw
      BY <1>1, <3>1, <3>2
    <3>. QED BY <1>2, <2>3, <3>1, <3>2, <3>3 DEF Store
  <2>4. CASE Replace(d)
    <3>1. e # d
      BY <2>4 DEF Replace
    <3>2. raw' \subseteq raw \union batch[d] /\ batch' = batch
      BY <2>4 DEF Replace, Without, tables
    <3>3. e \notin tainted
      BY <2>4, <3>1 DEF Replace
    <3>4. raw' \intersect batch[e] \subseteq raw
      BY <1>1, <3>1, <3>2
    <3>. QED BY <1>2, <2>4, <3>1, <3>2, <3>3, <3>4 DEF Replace
  <2>5. CASE Succeed(d)
    BY <1>2, <2>5 DEF Succeed, Stop, tables
  <2>. QED BY <1>3, <2>1, <2>2, <2>3, <2>4, <2>5 DEF DateStep
<1>4. ASSUME NEW c \in Rec, Register(c) PROVE raw' \intersect batch'[e] = {}
  BY <1>2, <1>4 DEF Register, tables, jobs
<1>5. ASSUME NEW d \in Date, Request(d) PROVE raw' \intersect batch'[e] = {}
  BY <1>2, <1>5 DEF Request, tables
<1>6. ASSUME NEW d \in Date, Fail(d) \/ Crash(d)
      PROVE  raw' \intersect batch'[e] = {}
  BY <1>2, <1>6 DEF Fail, Crash, Stop, tables, TypeInv, TypeOK
<1>7. ASSUME NEW d \in Date, PurgeRaw(d) PROVE raw' \intersect batch'[e] = {}
  BY <1>2, <1>7 DEF PurgeRaw, Without, jobs
<1>8. ASSUME NEW r \in Refresh, FetchWindow(r) \/ Abandon(r)
      PROVE  raw' \intersect batch'[e] = {}
  BY <1>2, <1>8 DEF FetchWindow, Abandon, tables, jobs
<1>9. ASSUME NEW r \in Refresh, Merge(r) PROVE raw' \intersect batch'[e] = {}
  <2>1. /\ raw' = raw \union fetched[r]
        /\ step' = step /\ batch' = batch
        /\ tainted' = tainted \union Overtaken(r)
    BY <1>9 DEF Merge, jobs
  <2>2. fetched[r] \intersect batch[e] = {}
    BY <2>1 DEF Overtaken
  <2>. QED BY <1>2, <2>1, <2>2
<1>10. CASE UNCHANGED vars
  BY <1>2, <1>10 DEF vars, tables, jobs
<1>. QED BY <1>3, <1>4, <1>5, <1>6, <1>7, <1>8, <1>9, <1>10 DEF Next

LEMMA MatchStep ==
  TypeInv /\ ClearedApart /\ AggregatesMatchRaw /\ [Next]_vars
    => AggregatesMatchRaw'
<1> SUFFICES ASSUME TypeInv, ClearedApart, AggregatesMatchRaw, [Next]_vars,
                    NEW b \in Bucket, DateOf[b] \notin tainted'
             PROVE  agg'[b] = Share(raw', b)
  BY DEF AggregatesMatchRaw
<1> DEFINE e == DateOf[b]
<1>1. e \in Date
  BY KeyAssumption
<1>2. e \notin tainted => agg[b] = Share(raw, b)
  BY DEF AggregatesMatchRaw
<1>3. raw \in SUBSET Rec /\ \A d \in Date : batch[d] \in SUBSET Rec
  BY DEF TypeInv, TypeOK
<1>4. agg[b] \in Nat /\ Share(raw, b) \in Nat
  BY SharesAreNumbers
<1>5. ASSUME UNCHANGED tables, tainted \subseteq tainted'
      PROVE  agg'[b] = Share(raw', b)
  BY <1>2, <1>5 DEF tables
<1>6. Share({}, b) = 0
  BY ShareOfNone
<1>7. ASSUME NEW d \in Date, Clear(d) PROVE agg'[b] = Share(raw', b)
  <2>1. /\ raw' = raw \ On(raw, d)
        /\ agg'[b] = IF DateOf[b] = d THEN 0 ELSE agg[b]
        /\ tainted' = tainted \ {d}
    BY <1>7 DEF Clear, Without, Zeroed
  <2>. QED BY <1>2, <1>3, <2>1, ShareWithout
<1>8. ASSUME NEW d \in Date, Store(d) PROVE agg'[b] = Share(raw', b)
  <2>1. /\ raw' = raw \union batch[d]
        /\ agg'[b] = agg[b] + Share(batch[d], b) + Share(twice[d], b)
        /\ e \notin tainted
        /\ e = d => twice[d] = {}
        /\ step[d] = "cleared"
    BY <1>8 DEF Store
  <2>2. CASE e = d
    <3>1. raw \intersect batch[d] = {}
      BY <1>1, <2>1, <2>2 DEF ClearedApart
    <3>2. Share(raw \union batch[d], b) = Share(raw, b) + Share(batch[d], b)
      BY <1>3, <3>1, ShareOfBatch
    <3>3. Share(twice[d], b) = 0 /\ Share(batch[d], b) \in Nat
      BY <1>6, <2>1, <2>2, SharesAreNumbers
    <3>4. agg[b] = Share(raw, b)
      BY <1>2, <2>1
    <3>5. agg'[b] = agg[b] + Share(batch[d], b) + Share(twice[d], b)
      BY <2>1
    <3>6. Share(raw', b) = Share(raw, b) + Share(batch[d], b)
      BY <2>1, <3>2
    <3>. QED BY <1>4, <3>3, <3>4, <3>5, <3>6
  <2>3. CASE e # d
    <3>1. /\ Share(raw \union batch[d], b) = Share(raw, b)
          /\ Share(batch[d], b) = 0 /\ Share(twice[d], b) = 0
      BY <1>3, <2>3, ShareOfBatch
    <3>. QED BY <1>2, <1>4, <2>1, <3>1
  <2>. QED BY <2>2, <2>3
<1>9. ASSUME NEW d \in Date, Replace(d) PROVE agg'[b] = Share(raw', b)
  <2>1. CASE batch[d] = {}
    BY <1>5, <1>9, <2>1 DEF Replace
  <2>2. CASE batch[d] # {}
    <3> DEFINE S == raw \ On(raw, d)
    <3>1. /\ raw' = S \union batch[d]
          /\ agg'[b] = Zeroed(d)[b] + Share(batch[d], b) + Share(twice[d], b)
          /\ e = d => twice[d] = {}
          /\ e # d => e \notin tainted
      BY <1>9, <2>2 DEF Replace, Without
    <3>2. Zeroed(d)[b] = IF e = d THEN 0 ELSE agg[b]
      BY DEF Zeroed
    <3>3. Share(S, b) = IF e = d THEN 0 ELSE Share(raw, b)
      BY <1>3, ShareWithout
    <3>4. S \in SUBSET Rec /\ S \intersect batch[d] = {}
      BY <1>3 DEF TypeInv, JobInv, On
    <3>5. /\ Share(S \union batch[d], b) = Share(S, b) + Share(batch[d], b)
          /\ e # d => Share(batch[d], b) = 0 /\ Share(twice[d], b) = 0
      BY <3>4, ShareOfBatch
    <3> HIDE DEF S
    <3>6. Share(twice[d], b) = 0 /\ Share(batch[d], b) \in Nat
      BY <1>6, <3>1, <3>5, SharesAreNumbers
    <3>7. Zeroed(d)[b] = Share(S, b) /\ Zeroed(d)[b] \in Nat
      BY <1>2, <1>4, <3>1, <3>2, <3>3
    <3>8. agg'[b] = Zeroed(d)[b] + Share(batch[d], b) + Share(twice[d], b)
      BY <3>1
    <3>9. Share(raw', b) = Share(S, b) + Share(batch[d], b)
      BY <3>1, <3>5
    <3>. QED BY <3>6, <3>7, <3>8, <3>9
  <2>. QED BY <2>1, <2>2
<1>10. ASSUME NEW r \in Refresh, Merge(r) PROVE agg'[b] = Share(raw', b)
  <2>1. agg'[b] - agg[b] = Share(raw', b) - Share(raw, b)
    BY <1>10, MergeCounts
  <2>2. agg'[b] \in Nat /\ Share(raw', b) \in Nat
    <3>1. TypeInv'
      BY TypeInvStep
    <3>2. raw' \in SUBSET Rec /\ agg' \in [Bucket -> Nat]
      BY <3>1 DEF TypeInv, TypeOK
    <3>. QED BY <3>2, ShareType
  <2>3. e \notin tainted
    BY <1>10 DEF Merge
  <2>. QED BY <1>2, <1>4, <2>1, <2>2, <2>3
<1>11. ASSUME NEW d \in Date, PurgeRaw(d) PROVE agg'[b] = Share(raw', b)
  <2>1. /\ raw' = raw \ On(raw, d) /\ agg' = agg
        /\ e # d /\ e \notin tainted
    BY <1>11 DEF PurgeRaw, Without
  <2>. QED BY <1>2, <1>3, <2>1, ShareWithout
<1>12. CASE UNCHANGED vars
  BY <1>5, <1>12 DEF vars
<1>. QED BY <1>5, <1>7, <1>8, <1>9, <1>10, <1>11, <1>12
         DEF Next, DateStep, Register, Request, Fetch, Succeed, Fail, Crash,
             FetchWindow, Abandon

(* For every set of records, however ACS answers and whatever fails, dies  *)
(* or is repeated: on a date that is not tainted, that is, not overtaken   *)
(* by a refresh between the two transactions of an ingestion, given on     *)
(* shifted pages or purged since it was last ingested, each counter stands *)
(* for exactly the raw rows of its key.                                    *)
THEOREM EvidenceMatches == Spec => []AggregatesMatchRaw
<1>1. Init => AggregatesMatchRaw /\ ClearedApart
  <2>1. ASSUME Init PROVE AggregatesMatchRaw
    <3> SUFFICES ASSUME NEW b \in Bucket PROVE agg[b] = Share(raw, b)
      BY DEF AggregatesMatchRaw
    <3>1. Share({}, b) = 0
      BY ShareOfNone
    <3>. QED BY <2>1, <3>1 DEF Init
  <2>2. Init => ClearedApart
    BY DEF Init, ClearedApart
  <2>. QED BY <2>1, <2>2
<1>. QED BY <1>1, TypeInvInit, TypeInvStep, ApartStep, MatchStep, PTL DEF Spec

-----------------------------------------------------------------------------
(* Sums *)

LEMMA UnitIs ==
  ASSUME NEW f, NEW p
  PROVE  p \in Units(f) <=> \E x \in DOMAIN f : \E i \in 1..f[x] : p = <<x, i>>
BY DEF Units

LEMMA UnitsFinite ==
  ASSUME NEW S, IsFiniteSet(S), NEW f \in [S -> Nat]
  PROVE  IsFiniteSet(Units(f)) /\ Total(f) \in Nat
<1> DEFINE g == [x \in S |-> {x} \X (1..f[x])]
<1>1. \A x \in S : IsFiniteSet(g[x])
  <2> SUFFICES ASSUME NEW x \in S PROVE IsFiniteSet({x} \X (1..f[x]))
    OBVIOUS
  <2>1. IsFiniteSet({x}) /\ f[x] \in Int /\ 1 \in Int
    BY FS_Singleton
  <2>2. IsFiniteSet(1..f[x])
    BY <2>1, FS_Interval
  <2>. QED BY <2>1, <2>2, FS_Product
<1>2. Units(f) = UNION {g[x] : x \in S}
  BY DEF Units
<1> HIDE DEF g
<1>3. IsFiniteSet({g[x] : x \in S})
  BY ImageFinite
<1>4. IsFiniteSet(Units(f))
  BY <1>1, <1>2, <1>3, FS_UNION
<1>. QED BY <1>4, FS_CardinalityType DEF Total

(* More of what is added up, and larger, is no less. *)
LEMMA TotalMonotone ==
  ASSUME NEW T, IsFiniteSet(T), NEW S \in SUBSET T,
         NEW f \in [S -> Nat], NEW g \in [T -> Nat], \A x \in S : f[x] <= g[x]
  PROVE  Total(f) <= Total(g)
<1>1. Units(f) \in SUBSET Units(g)
  <2> SUFFICES ASSUME NEW p \in Units(f) PROVE p \in Units(g)
    OBVIOUS
  <2>1. PICK x \in S : \E i \in 1..f[x] : p = <<x, i>>
    BY UnitIs
  <2>2. PICK i \in 1..f[x] : p = <<x, i>>
    BY <2>1
  <2>3. i \in 1..g[x]
    BY <2>2
  <2>. QED BY <2>2, <2>3, UnitIs
<1>. QED BY <1>1, UnitsFinite, FS_Subset DEF Total

(* A sum may be worked out key by key. *)
UnitsOf(f, K, b) == {p \in Units(f) : K[p[1]] = b}

AddsUp(f, g, K, B) == \A b \in B : g[b] = Cardinality(UnitsOf(f, K, b))

LEMMA TotalRegrouped ==
  ASSUME NEW C, IsFiniteSet(C), NEW B, NEW K \in [C -> B],
         NEW f \in [C -> Nat], NEW g \in [B -> Nat],
         AddsUp(f, g, K, B)
  PROVE  Total(f) = Total(g)
<1> DEFINE e == [b \in B |-> CHOOSE h : h \in Bijection(UnitsOf(f, K, b), 1..g[b])]
           h == [p \in Units(f) |-> <<K[p[1]], e[K[p[1]]][p]>>]
<1>1. \A p \in Units(f) : K[p[1]] \in B /\ p \in UnitsOf(f, K, K[p[1]])
  BY UnitIs DEF UnitsOf
<1>2. \A b \in B : e[b] \in Bijection(UnitsOf(f, K, b), 1..g[b])
  <2> SUFFICES ASSUME NEW b \in B PROVE e[b] \in Bijection(UnitsOf(f, K, b), 1..g[b])
    OBVIOUS
  <2>1. IsFiniteSet(UnitsOf(f, K, b))
    BY UnitsFinite, FS_Subset DEF UnitsOf
  <2>2. IsFiniteSet(1..g[b]) /\ Cardinality(1..g[b]) = g[b]
    BY FS_Interval
  <2>3. ExistsBijection(UnitsOf(f, K, b), 1..g[b])
    BY <2>1, <2>2, FS_SameCardinalityBij DEF AddsUp
  <2>. QED BY <2>3 DEF ExistsBijection
<1> HIDE DEF e
<1>3. ASSUME NEW b \in B
      PROVE  /\ \A p \in UnitsOf(f, K, b) : e[b][p] \in 1..g[b]
             /\ \A p, q \in UnitsOf(f, K, b) : e[b][p] = e[b][q] => p = q
             /\ \A i \in 1..g[b] : \E p \in UnitsOf(f, K, b) : e[b][p] = i
  <2>1. e[b] \in Bijection(UnitsOf(f, K, b), 1..g[b])
    BY <1>2
  <2> DEFINE I == 1..g[b]
  <2>2. /\ \A p \in UnitsOf(f, K, b) : e[b][p] \in I
        /\ \A p, q \in UnitsOf(f, K, b) : e[b][p] = e[b][q] => p = q
        /\ \A i \in I : \E p \in UnitsOf(f, K, b) : e[b][p] = i
    <3>1. e[b] \in Bijection(UnitsOf(f, K, b), I)
      BY <2>1
    <3> HIDE DEF I
    <3>. QED BY ONLY <3>1, BijectionIs
  <2>. QED BY <2>2
<1>4. h \in [Units(f) -> Units(g)]
  <2> SUFFICES ASSUME NEW p \in Units(f) PROVE h[p] \in Units(g)
    OBVIOUS
  <2>1. e[K[p[1]]][p] \in 1..g[K[p[1]]]
    BY <1>1, <1>3
  <2>. QED BY <1>1, <2>1, UnitIs
<1>5. ASSUME NEW p \in Units(f), NEW q \in Units(f), h[p] = h[q]
      PROVE  p = q
  <2>1. K[p[1]] = K[q[1]] /\ e[K[p[1]]][p] = e[K[p[1]]][q]
    BY <1>5
  <2>2. p \in UnitsOf(f, K, K[p[1]]) /\ q \in UnitsOf(f, K, K[p[1]])
    BY <1>1, <2>1
  <2>. QED BY <1>1, <1>3, <2>1, <2>2
<1>6. ASSUME NEW u \in Units(g) PROVE \E p \in Units(f) : h[p] = u
  <2>1. PICK b \in B : \E i \in 1..g[b] : u = <<b, i>>
    BY UnitIs
  <2>2. PICK i \in 1..g[b] : u = <<b, i>>
    BY <2>1
  <2>3. PICK p \in UnitsOf(f, K, b) : e[b][p] = i
    BY <1>3
  <2>. QED BY <2>2, <2>3 DEF UnitsOf
<1>7. h \in Bijection(Units(f), Units(g))
  <2> HIDE DEF h
  <2>. QED BY <1>4, <1>5, <1>6, Fun_IsBij
<1>8. ExistsBijection(Units(f), Units(g))
  BY <1>7 DEF ExistsBijection
<1>. QED BY <1>8, UnitsFinite, FS_Bijection DEF Total

(* When the number of a member depends on its key, the members of a key    *)
(* add up to a product.                                                    *)
Priced(f, g, K, u) ==
  /\ \A c \in DOMAIN f : f[c] = u[K[c]]
  /\ \A b \in DOMAIN g : g[b] = Cardinality({c \in DOMAIN f : K[c] = b}) * u[b]

LEMMA TotalByKey ==
  ASSUME NEW C, IsFiniteSet(C), NEW B, NEW K \in [C -> B], NEW u \in [B -> Nat],
         NEW f \in [C -> Nat], NEW g \in [B -> Nat],
         Priced(f, g, K, u)
  PROVE  Total(f) = Total(g)
<1> USE DEF Priced
<1>1. ASSUME NEW b \in B
      PROVE  g[b] = Cardinality(UnitsOf(f, K, b))
  <2> DEFINE D == {c \in C : K[c] = b}
  <2>1. UnitsOf(f, K, b) = D \X (1..u[b])
    <3>1. ASSUME NEW p \in Units(f), K[p[1]] = b PROVE p \in D \X (1..u[b])
      BY <3>1, UnitIs
    <3>2. ASSUME NEW c \in D, NEW i \in 1..u[b]
          PROVE  <<c, i>> \in Units(f) /\ K[<<c, i>>[1]] = b
      BY UnitIs
    <3>. QED BY <3>1, <3>2 DEF UnitsOf
  <2>2. IsFiniteSet(D)
    BY FS_Subset
  <2>3. IsFiniteSet(1..u[b]) /\ Cardinality(1..u[b]) = u[b]
    <3>1. u[b] \in Nat /\ 1 \in Int
      OBVIOUS
    <3>. QED BY <3>1, FS_Interval
  <2>4. g[b] = Cardinality(D) * u[b]
    OBVIOUS
  <2> HIDE DEF D
  <2>5. Cardinality(D \X (1..u[b])) = Cardinality(D) * Cardinality(1..u[b])
    BY <2>2, <2>3, FS_Product
  <2>. QED BY <2>1, <2>3, <2>4, <2>5
<1>2. AddsUp(f, g, K, B)
  BY <1>1 DEF AddsUp
<1>3. /\ IsFiniteSet(C)
      /\ K \in [C -> B] /\ f \in [C -> Nat] /\ g \in [B -> Nat]
  OBVIOUS
<1>. QED BY ONLY <1>2, <1>3, TotalRegrouped

LEMMA TotalOfOnes ==
  ASSUME NEW C, IsFiniteSet(C)
  PROVE  Total([c \in C |-> 1]) = Cardinality(C)
<1> DEFINE f == [c \in C |-> 1]
<1>1. Units(f) = C \X {1}
  <2>1. ASSUME NEW p \in Units(f) PROVE p \in C \X {1}
    BY UnitIs
  <2>2. ASSUME NEW c \in C PROVE <<c, 1>> \in Units(f)
    BY UnitIs
  <2>. QED BY <2>1, <2>2
<1>2. IsFiniteSet({1}) /\ Cardinality({1}) = 1
  BY FS_Singleton
<1>3. Cardinality(C \X {1}) = Cardinality(C) * 1 /\ Cardinality(C) \in Nat
  BY <1>2, FS_Product, FS_CardinalityType
<1>4. Total(f) = Cardinality(C)
  <2> HIDE DEF f
  <2>. QED BY <1>1, <1>3 DEF Total
<1>. QED BY <1>4

-----------------------------------------------------------------------------
(* The rows of a client *)

(* A counter above zero has counted a record. *)
CountersHaveRecords ==
  \A b \in Bucket : agg[b] > 0 => \E c \in Rec : BucketOf[c] = b

LEMMA ShareOfNoRecord ==
  ASSUME NEW S \in SUBSET Rec, NEW b, \A c \in Rec : BucketOf[c] # b
  PROVE  Share(S, b) = 0
<1>1. {c \in S \intersect Counted : BucketOf[c] = b} = {}
  OBVIOUS
<1>. QED BY <1>1, FS_EmptySet DEF Share

LEMMA CountersStep ==
  TypeInv /\ CountersHaveRecords /\ [Next]_vars => CountersHaveRecords'
<1> SUFFICES ASSUME TypeInv, CountersHaveRecords, [Next]_vars, NEW b \in Bucket,
                    \A c \in Rec : BucketOf[c] # b
             PROVE  ~(agg'[b] > 0)
  BY DEF CountersHaveRecords
<1>1. agg[b] = 0 /\ agg \in [Bucket -> Nat]
  BY DEF CountersHaveRecords, TypeInv, TypeOK
<1>2. \A S \in SUBSET Rec : Share(S, b) = 0
  BY ShareOfNoRecord
<1>3. /\ \A d \in Date : Share(batch[d], b) = 0 /\ Share(twice[d], b) = 0
      /\ \A r \in Refresh : Share(fetched[r] \ raw, b) = 0
  <2>1. /\ \A d \in Date : batch[d] \in SUBSET Rec /\ twice[d] \in SUBSET Rec
        /\ \A r \in Refresh : fetched[r] \ raw \in SUBSET Rec
    BY DEF TypeInv, TypeOK
  <2>. QED BY <1>2, <2>1
<1>4. ASSUME NEW d \in Date, DateStep(d) PROVE agg'[b] = 0
  <2>1. CASE Fetch(d) \/ Succeed(d)
    BY <1>1, <2>1 DEF Fetch, Succeed, tables
  <2>2. CASE Clear(d)
    BY <1>1, <2>2 DEF Clear, Zeroed
  <2>3. CASE Store(d)
    BY <1>1, <1>3, <2>3 DEF Store
  <2>4. CASE Replace(d)
    BY <1>1, <1>3, <2>4 DEF Replace, Zeroed, tables
  <2>. QED BY <1>4, <2>1, <2>2, <2>3, <2>4 DEF DateStep
<1>5. ASSUME NEW r \in Refresh, Merge(r) PROVE agg'[b] = 0
  BY <1>1, <1>3, <1>5 DEF Merge
<1>6. CASE UNCHANGED agg
  BY <1>1, <1>6
<1>7. \/ UNCHANGED agg
      \/ \E d \in Date : DateStep(d)
      \/ \E r \in Refresh : Merge(r)
  BY DEF Next, vars, tables, Register, Request, Fail, Crash, PurgeRaw, FetchWindow,
         Abandon
<1>. QED BY <1>4, <1>5, <1>6, <1>7

LEMMA CountersInvariant == Spec => [](TypeInv /\ CountersHaveRecords)
<1>1. Init => CountersHaveRecords
  BY DEF Init, CountersHaveRecords
<1>. QED BY <1>1, TypeInvInit, TypeInvStep, CountersStep, PTL DEF Spec

LEMMA RowsFinite ==
  ASSUME NEW n, \A b \in Bucket : n[b] > 0 => \E c \in Rec : BucketOf[c] = b,
         NEW R \in SUBSET Bucket, \A b \in R : n[b] > 0
  PROVE  IsFiniteSet(R)
<1>1. R \in SUBSET {BucketOf[c] : c \in Rec}
  OBVIOUS
<1>2. IsFiniteSet({BucketOf[c] : c \in Rec})
  BY RecAssumption, ImageFinite
<1>. QED BY <1>1, <1>2, FS_Subset

-----------------------------------------------------------------------------
(* Reasons *)

(* Each rule that accuses on what the aggregates or the gaps show is one   *)
(* the queries select by.                                                  *)
LEMMA AccusedIsSelected ==
  ASSUME NEW r, NEW e, NEW kind \in DirectReasons(r, e)
  PROVE  SelectedBySql(r, e) \/ SelectedByGap(r, e)
<1>1. \/ e.count >= r.conversions
      \/ e.media >= r.media
      \/ e.programs >= r.programs
      \/ e.count >= r.burst
      \/ r.min # NoTime /\ \E g \in e.gaps : g < r.min
      \/ r.max # NoTime /\ \E g \in e.gaps : g > r.max
  BY DEF DirectReasons, When
<1>. QED BY <1>1 DEF SelectedBySql, SelectedByGap

(* Of what the detector looks for besides, the kinds are those of padding. *)
LEMMA PaddingOnly ==
  ASSUME NEW e
  PROVE  PaddingReasons(e) \subseteq PaddingKinds
BY DEF PaddingReasons, PaddingKinds, When

LEMMA AccusedIsFound == DetectionIsComplete
<1>1. ASSUME NEW x, NEW e, NEW r, Passes(r, x), ~Found(r, x, e)
      PROVE  Reasons(r, e) \subseteq PaddingKinds
  <2>1. CASE DirectReasons(r, e) = {}
    BY <2>1, PaddingOnly DEF Reasons
  <2>2. CASE \E kind \in DirectReasons(r, e) : TRUE
    BY <1>1, <2>2, AccusedIsSelected DEF Found, Reasons
  <2>. QED BY <2>1, <2>2
<1>2. \A x, e, r : Found(r, x, e) => Passes(r, x)
  BY DEF Found
<1>. QED BY <1>1, <1>2 DEF DetectionIsComplete

(* For all tables, rules and thresholds: whoever the rules accuse, click   *)
(* padding aside, is selected and found, and nobody the filters exempt is. *)
THEOREM NobodyIsMissed == Spec => []DetectionIsComplete
BY AccusedIsFound, PTL

-----------------------------------------------------------------------------
(* More evidence *)

LEMMA EvidenceGrows ==
  ASSUME TypeInv, TypeInv', CountersHaveRecords', Grows, NEW x, NEW d
  PROVE  LET e == Evidence(x, d)
             f == Evidence(x, d)'
         IN  /\ e.count \in Nat /\ f.count \in Nat /\ e.count <= f.count
             /\ e.media \in Nat /\ f.media \in Nat /\ e.media <= f.media
             /\ e.programs \in Nat /\ f.programs \in Nat
             /\ e.programs <= f.programs
             /\ e.gaps \subseteq f.gaps
<1> DEFINE R == Rows(x, d)
           S == Rows(x, d)'
<1>1. /\ agg \in [Bucket -> Nat] /\ agg' \in [Bucket -> Nat]
      /\ \A b \in Bucket : agg[b] <= agg'[b]
      /\ raw \subseteq raw'
  BY DEF TypeInv, TypeOK, Grows
<1>2. /\ R \in SUBSET S /\ S \in SUBSET Bucket
      /\ \A b \in S : agg'[b] > 0
  BY <1>1 DEF Rows
<1>3. Stored(x, d) \subseteq Stored(x, d)'
  BY <1>1, <1>2 DEF Stored
<1>4. /\ Evidence(x, d).count = Total([b \in R |-> agg[b]])
      /\ Evidence(x, d).media = Cardinality({MediaOf[b] : b \in R})
      /\ Evidence(x, d).programs = Cardinality({ProgramOf[b] : b \in R})
      /\ Evidence(x, d).gaps = Gaps(Stored(x, d))
  BY DEF Evidence
<1>5. /\ (Evidence(x, d)').count = Total([b \in S |-> agg'[b]])
      /\ (Evidence(x, d)').media = Cardinality({MediaOf[b] : b \in S})
      /\ (Evidence(x, d)').programs = Cardinality({ProgramOf[b] : b \in S})
      /\ (Evidence(x, d)').gaps = Gaps(Stored(x, d)')
  BY DEF Evidence, Gaps
<1> HIDE DEF R, S
<1>6. IsFiniteSet(S) /\ IsFiniteSet(R)
  <2>1. IsFiniteSet(S)
    BY <1>2, RowsFinite DEF CountersHaveRecords
  <2>. QED BY <1>2, <2>1, FS_Subset
<1>7. /\ Total([b \in R |-> agg[b]]) \in Nat
      /\ Total([b \in S |-> agg'[b]]) \in Nat
      /\ Total([b \in R |-> agg[b]]) <= Total([b \in S |-> agg'[b]])
  <2> DEFINE f == [b \in R |-> agg[b]]
             g == [b \in S |-> agg'[b]]
  <2>1. f \in [R -> Nat] /\ g \in [S -> Nat] /\ \A b \in R : f[b] <= g[b]
    BY <1>1, <1>2
  <2> HIDE DEF f, g
  <2>2. Total(f) \in Nat /\ Total(g) \in Nat /\ Total(f) <= Total(g)
    BY <1>2, <1>6, <2>1, UnitsFinite, TotalMonotone
  <2>. QED BY <2>2 DEF f, g
<1>8. ASSUME NEW h
      PROVE  /\ Cardinality({h[b] : b \in R}) \in Nat
             /\ Cardinality({h[b] : b \in S}) \in Nat
             /\ Cardinality({h[b] : b \in R}) <= Cardinality({h[b] : b \in S})
  <2>1. {h[b] : b \in R} \in SUBSET {h[b] : b \in S}
    BY <1>2
  <2>2. IsFiniteSet({h[b] : b \in S})
    BY <1>6, ImageFinite
  <2>. QED BY <1>6, <2>1, <2>2, ImageFinite, FS_Subset
<1>9. Gaps(Stored(x, d)) \subseteq Gaps(Stored(x, d)')
  BY <1>3 DEF Gaps
<1>. QED BY <1>4, <1>5, <1>7, <1>8, <1>9

LEMMA MoreReasons ==
  ASSUME NEW r \in RuleSets, NEW e, NEW f,
         e.count \in Nat, f.count \in Nat, e.count <= f.count,
         e.media \in Nat, f.media \in Nat, e.media <= f.media,
         e.programs \in Nat, f.programs \in Nat, e.programs <= f.programs,
         e.gaps \subseteq f.gaps
  PROVE  Reasons(r, e) \ Reasons(r, f) \subseteq PaddingKinds \union {"burst"}
<1>1. /\ r.conversions \in Int /\ r.media \in Int /\ r.programs \in Int
  BY RulesAssumption
<1>2. PaddingReasons(e) \subseteq PaddingKinds
  BY PaddingOnly
<1>3. ASSUME NEW kind \in DirectReasons(r, e), kind # "burst"
      PROVE  kind \in DirectReasons(r, f)
  <2>1. CASE kind = "count" /\ e.count >= r.conversions
    <3>1. f.count >= r.conversions
      BY <1>1, <2>1
    <3>. QED BY <2>1, <3>1 DEF DirectReasons, When
  <2>2. CASE kind = "media" /\ e.media >= r.media
    <3>1. f.media >= r.media
      BY <1>1, <2>2
    <3>. QED BY <2>2, <3>1 DEF DirectReasons, When
  <2>3. CASE kind = "program" /\ e.programs >= r.programs
    <3>1. f.programs >= r.programs
      BY <1>1, <2>3
    <3>. QED BY <2>3, <3>1 DEF DirectReasons, When
  <2>4. CASE kind = "fast" /\ r.min # NoTime /\ \E g \in e.gaps : g < r.min
    BY <2>4 DEF DirectReasons, When
  <2>5. CASE kind = "slow" /\ r.max # NoTime /\ \E g \in e.gaps : g > r.max
    BY <2>5 DEF DirectReasons, When
  <2>. QED BY <1>3, <2>1, <2>2, <2>3, <2>4, <2>5 DEF DirectReasons, When
<1>. QED BY <1>2, <1>3 DEF Reasons

Kinds == {"count", "media", "program", "burst", "fast", "slow"} \union PaddingKinds

LEMMA ReasonsAreKinds == \A r, e : Reasons(r, e) \subseteq Kinds
BY DEF Reasons, DirectReasons, PaddingReasons, When, Kinds, PaddingKinds

LEMMA MorePoints ==
  ASSUME NEW p, NEW q, p => q, NEW k \in Nat
  PROVE  /\ Points(p, k) <= Points(q, k)
         /\ Points(p, k) \in Nat /\ Points(q, k) \in Nat
BY DEF Points

LEMMA MoreScore ==
  ASSUME NEW S \in SUBSET Kinds, NEW R \in SUBSET S,
         NEW m \in Nat, NEW n \in Nat, m <= n
  PROVE  Score(R, m) <= Score(S, n)
<1>1. IsFiniteSet(Kinds)
  <2>1. IsFiniteSet({"count", "media", "program"}) /\ IsFiniteSet({"burst", "fast", "slow"})
        /\ IsFiniteSet(PaddingKinds)
    BY ThreeFinite DEF PaddingKinds
  <2>2. Kinds = ({"count", "media", "program"} \union {"burst", "fast", "slow"})
                  \union PaddingKinds
    BY DEF Kinds
  <2>. QED BY <2>1, <2>2, FS_Union
<1>2. /\ Cardinality(R) \in Nat /\ Cardinality(S) \in Nat
      /\ Cardinality(R) <= Cardinality(S)
  BY <1>1, FS_Subset, FS_CardinalityType
<1>3. CountScore(m) <= CountScore(n) /\ CountScore(m) \in Nat /\ CountScore(n) \in Nat
  BY DEF CountScore
<1>4. /\ Points("burst" \in R, 30) <= Points("burst" \in S, 30)
      /\ Points("burst" \in R, 30) \in Nat /\ Points("burst" \in S, 30) \in Nat
  BY MorePoints
<1>5. /\ Points("fast" \in R, 25) <= Points("fast" \in S, 25)
      /\ Points("fast" \in R, 25) \in Nat /\ Points("fast" \in S, 25) \in Nat
  BY MorePoints
<1>6. /\ Points("media" \in R, 15) <= Points("media" \in S, 15)
      /\ Points("media" \in R, 15) \in Nat /\ Points("media" \in S, 15) \in Nat
  BY MorePoints
<1>7. /\ Points("program" \in R, 15) <= Points("program" \in S, 15)
      /\ Points("program" \in R, 15) \in Nat /\ Points("program" \in S, 15) \in Nat
  BY MorePoints
<1>8. /\ Points(R \intersect PaddingKinds # {}, 25) <= Points(S \intersect PaddingKinds # {}, 25)
      /\ Points(R \intersect PaddingKinds # {}, 25) \in Nat /\ Points(S \intersect PaddingKinds # {}, 25) \in Nat
  BY MorePoints
<1>. QED BY <1>2, <1>3, <1>4, <1>5, <1>6, <1>7, <1>8 DEF Score

LEMMA LessIsNoRisk == TypeInv /\ TypeInv' /\ CountersHaveRecords' => (Grows => NeverLess)
<1> SUFFICES ASSUME TypeInv, TypeInv', CountersHaveRecords', Grows,
                    NEW d \in ConversionDates, NEW x \in Seen(d),
                    NEW e \in {Evidence(x, d)}, NEW f \in {Evidence(x, d)'},
                    NEW r \in RuleSets
             PROVE  LET lost == Reasons(r, e) \ Reasons(r, f)
                    IN  /\ lost \subseteq PaddingKinds \union {"burst"}
                        /\ lost = {} => Score(Reasons(r, e), e.count)
                                          <= Score(Reasons(r, f), f.count)
  BY DEF NeverLess
<1>1. /\ e.count \in Nat /\ f.count \in Nat /\ e.count <= f.count
      /\ e.media \in Nat /\ f.media \in Nat /\ e.media <= f.media
      /\ e.programs \in Nat /\ f.programs \in Nat /\ e.programs <= f.programs
      /\ e.gaps \subseteq f.gaps
  BY EvidenceGrows
<1>2. Reasons(r, e) \ Reasons(r, f) \subseteq PaddingKinds \union {"burst"}
  BY <1>1, MoreReasons
<1>3. ASSUME Reasons(r, e) \ Reasons(r, f) = {}
      PROVE  Score(Reasons(r, e), e.count) <= Score(Reasons(r, f), f.count)
  <2>1. Reasons(r, e) \in SUBSET Reasons(r, f) /\ Reasons(r, f) \in SUBSET Kinds
    BY <1>3, ReasonsAreKinds
  <2>. QED BY <1>1, <2>1, MoreScore
<1>. QED BY <1>2, <1>3

(* A client's record gets longer: no reason against it is lost but those   *)
(* the property excepts, and its score does not fall.                      *)
THEOREM EvidenceNeverClears == Spec => MoreEvidenceNeverLessRisk
<1>1. TypeInv /\ TypeInv' /\ CountersHaveRecords' => [Grows => NeverLess]_vars
  BY LessIsNoRisk
<1>. QED BY <1>1, CountersInvariant, PTL DEF MoreEvidenceNeverLessRisk

-----------------------------------------------------------------------------
(* Damage *)

(* On a date that is not tainted, the rows of a client count its stored    *)
(* conversions.                                                            *)
LEMMA StoredByKey ==
  ASSUME TypeInv, AggregatesMatchRaw, NEW d \in Date \ tainted, NEW x
  PROVE  LET C == Stored(x, d)
             R == Rows(x, d)
         IN  /\ IsFiniteSet(C) /\ C \subseteq Rec
             /\ \A c \in C : BucketOf[c] \in R
             /\ \A b \in R : /\ agg[b] \in Nat
                            /\ agg[b] = Cardinality({c \in C : BucketOf[c] = b})
<1> DEFINE C == Stored(x, d)
           R == Rows(x, d)
<1>1. C \in SUBSET Rec /\ \A c \in C : BucketOf[c] \in R
  BY DEF Stored, TypeInv, TypeOK
<1>2. IsFiniteSet(C)
  BY <1>1, RecAssumption, FS_Subset
<1>3. ASSUME NEW b \in R
      PROVE  agg[b] \in Nat /\ agg[b] = Cardinality({c \in C : BucketOf[c] = b})
  <2>1. b \in Bucket /\ DateOf[b] \notin tainted
    BY DEF Rows
  <2>2. {c \in C : BucketOf[c] = b} = {c \in raw \intersect Counted : BucketOf[c] = b}
    BY DEF Stored
  <2>3. agg[b] \in Nat /\ agg[b] = Share(raw, b)
    BY <2>1 DEF AggregatesMatchRaw, TypeInv, TypeOK
  <2>. QED BY <2>2, <2>3 DEF Share
<1>. QED BY <1>1, <1>2, <1>3

(* What they count times a price for each row is what the conversions cost *)
(* at the price of their row.                                              *)
LEMMA PricedByRow ==
  ASSUME TypeInv, AggregatesMatchRaw, NEW d \in Date \ tainted, NEW x,
         NEW u \in [Rows(x, d) -> Nat], NEW f \in [Stored(x, d) -> Nat],
         \A c \in Stored(x, d) : f[c] = u[BucketOf[c]]
  PROVE  Total(f) = Total([b \in Rows(x, d) |-> agg[b] * u[b]])
<1> DEFINE C == Stored(x, d)
           R == Rows(x, d)
           K == [c \in C |-> BucketOf[c]]
           g == [b \in R |-> agg[b] * u[b]]
<1>1. /\ IsFiniteSet(C)
      /\ \A c \in C : BucketOf[c] \in R
      /\ \A b \in R : /\ agg[b] \in Nat
                     /\ agg[b] = Cardinality({c \in C : BucketOf[c] = b})
  BY StoredByKey
<1>2. K \in [C -> R] /\ \A c \in C : K[c] = BucketOf[c]
  BY <1>1
<1>3. \A c \in C : f[c] = u[K[c]]
  BY <1>2
<1>4. ASSUME NEW b \in R PROVE g[b] = Cardinality({c \in C : K[c] = b}) * u[b]
  <2>1. {c \in C : K[c] = b} = {c \in C : BucketOf[c] = b}
    BY <1>2
  <2>. QED BY <1>1, <2>1
<1>5. g \in [R -> Nat] /\ u \in [R -> Nat] /\ f \in [C -> Nat]
  <2>1. \A m, n \in Nat : m * n \in Nat
    OBVIOUS
  <2>2. \A b \in R : agg[b] * u[b] \in Nat
    BY <1>1, <2>1
  <2>. QED BY <2>2
<1>6. Priced(f, g, K, u)
  BY <1>3, <1>4 DEF Priced
<1> HIDE DEF C, R, K, g
<1>7. Total(f) = Total(g)
  BY ONLY <1>1, <1>2, <1>5, <1>6, TotalByKey
<1>. QED BY <1>7 DEF g, R

LEMMA CountIsStored ==
  ASSUME TypeInv, AggregatesMatchRaw, NEW d \in Date \ tainted, NEW x
  PROVE  /\ Evidence(x, d).count = Cardinality(Stored(x, d))
         /\ Evidence(x, d).count \in Nat
<1> DEFINE C == Stored(x, d)
           R == Rows(x, d)
           u == [b \in R |-> 1]
           f == [c \in C |-> 1]
<1>1. /\ IsFiniteSet(C)
      /\ \A c \in C : BucketOf[c] \in R
      /\ \A b \in R : agg[b] \in Nat
  BY StoredByKey
<1>2. u \in [R -> Nat] /\ f \in [C -> Nat] /\ \A c \in C : f[c] = u[BucketOf[c]]
  BY <1>1
<1>3. [b \in R |-> agg[b] * u[b]] = [b \in R |-> agg[b]]
  BY <1>1
<1>4. Total(f) = Cardinality(C) /\ Cardinality(C) \in Nat
  BY <1>1, TotalOfOnes, FS_CardinalityType
<1>5. Total(f) = Total([b \in R |-> agg[b] * u[b]])
  <2> HIDE DEF u, f
  <2>. QED BY <1>2, PricedByRow
<1>. QED BY <1>3, <1>4, <1>5 DEF Evidence

LEMMA MissingNone == \A n \in Nat : Max({n - n, 0}) = 0
<1> SUFFICES ASSUME NEW n \in Nat PROVE Max({n - n, 0}) = 0
  OBVIOUS
<1>1. {n - n, 0} = {0}
  OBVIOUS
<1>2. Max({0}) = 0
  BY DEF Max
<1>. QED BY <1>1, <1>2

(* What the console works out. *)
LEMMA AmountIsPaid ==
  ASSUME TypeInv, AggregatesMatchRaw, NEW d \in Date \ tainted, NEW x
  PROVE  Amounts(x, d) = {Total([c \in Stored(x, d) |-> RewardOf[c]])}
<1> DEFINE C == Stored(x, d)
           paid == Total([c \in C |-> RewardOf[c]])
           programs == {ProgramOf[b] : b \in Rows(x, d)}
           known == IF C # {} THEN MostPaid(C)
                              ELSE UNION {MostPaid(Paid(p, d)) : p \in programs}
           V == IF known = {} THEN {DefaultReward} ELSE known
<1>1. IsFiniteSet(C) /\ C \in SUBSET Rec
  BY StoredByKey
<1>2. paid \in Nat
  <2>1. [c \in C |-> RewardOf[c]] \in [C -> Nat]
    BY <1>1, RewardAssumption
  <2> HIDE DEF C
  <2>. QED BY <1>1, <2>1, UnitsFinite
<1>3. Max({Evidence(x, d).count - Cardinality(C), 0}) = 0
  BY CountIsStored, MissingNone
<1>4. Amounts(x, d) = {paid + 0 * v : v \in V}
  BY <1>3 DEF Amounts
<1>5. V # {} /\ V \subseteq Nat
  <2>1. \A S \in SUBSET Rec : MostPaid(S) \subseteq Nat
    BY RewardAssumption DEF MostPaid
  <2>2. \A p : Paid(p, d) \in SUBSET Rec
    BY DEF Paid, On, TypeInv, TypeOK
  <2>3. known \subseteq Nat
    BY <1>1, <2>1, <2>2
  <2>. QED BY <2>3, RewardAssumption
<1> HIDE DEF V, paid
<1>6. {paid + 0 * v : v \in V} = {paid}
  <2>1. \A v \in V : paid + 0 * v = paid
    BY <1>2, <1>5
  <2>. QED BY <1>5, <2>1
<1>. QED BY <1>4, <1>6 DEF paid

(* A program that pays one price is priced at it. *)
LEMMA OnePriceIs ==
  ASSUME TypeInv, NEW d, NEW p, Cardinality({RewardOf[c] : c \in Paid(p, d)}) = 1
  PROVE  /\ UnitPrice(p, d) \in Nat
         /\ \A c \in Paid(p, d) : RewardOf[c] = UnitPrice(p, d)
<1> DEFINE prices == {RewardOf[c] : c \in Paid(p, d)}
<1>1. Paid(p, d) \in SUBSET Rec
  BY DEF Paid, On, TypeInv, TypeOK
<1>2. IsFiniteSet(prices) /\ prices \subseteq Nat
  <2>1. IsFiniteSet(Paid(p, d))
    BY <1>1, RecAssumption, FS_Subset
  <2>. QED BY <1>1, <2>1, ImageFinite, RewardAssumption
<1>3. PICK v : prices = {v}
  <2> HIDE DEF prices
  <2>1. Cardinality(prices) = 1
    BY DEF prices
  <2>. QED BY <1>2, <2>1, FS_Singleton
<1>4. UnitPrice(p, d) = v
  <2>1. v \in Nat
    BY <1>2, <1>3
  <2>2. UnitPrice(p, d) = CHOOSE z \in {v} :
                            \A w \in {v} : \/ Times(p, d, z) > Times(p, d, w)
                                           \/ Times(p, d, z) = Times(p, d, w) /\ z >= w
    BY <1>3 DEF UnitPrice
  <2>. QED BY <2>1, <2>2
<1>. QED BY <1>2, <1>3, <1>4

(* What a recomputation stores. *)
LEMMA DamageIsPaid ==
  ASSUME TypeInv, AggregatesMatchRaw, NEW d \in Date \ tainted, NEW x,
         \A b \in Rows(x, d) :
           Cardinality({RewardOf[c] : c \in Paid(ProgramOf[b], d)}) = 1
  PROVE  Damage(x, d) = Total([c \in Stored(x, d) |-> RewardOf[c]])
<1> DEFINE C == Stored(x, d)
           R == Rows(x, d)
           u == [b \in R |-> UnitPrice(ProgramOf[b], d)]
           f == [c \in C |-> RewardOf[c]]
           priced == Total([b \in R |-> agg[b] * UnitPrice(ProgramOf[b], d)])
<1>1. /\ C \in SUBSET Rec /\ IsFiniteSet(C)
      /\ \A c \in C : BucketOf[c] \in R
  BY StoredByKey
<1>2. u \in [R -> Nat] /\ f \in [C -> Nat]
  <2>1. \A b \in R : UnitPrice(ProgramOf[b], d) \in Nat
    BY OnePriceIs
  <2>. QED BY <1>1, <2>1, RewardAssumption
<1>3. ASSUME NEW c \in C PROVE f[c] = u[BucketOf[c]]
  <2>1. c \in Paid(ProgramOf[BucketOf[c]], d)
    BY <1>1 DEF Paid, On, DayOf, Stored, Rows
  <2>. QED BY <1>1, <2>1, OnePriceIs
<1>4. Total(f) = priced
  <2>1. [b \in R |-> agg[b] * UnitPrice(ProgramOf[b], d)] = [b \in R |-> agg[b] * u[b]]
    OBVIOUS
  <2>2. Total(f) = Total([b \in R |-> agg[b] * u[b]])
    <3> HIDE DEF f, u
    <3>. QED BY <1>2, <1>3, PricedByRow
  <2>. QED BY <2>1, <2>2
<1>5. Total(f) \in Nat
  <2> HIDE DEF f
  <2>. QED BY <1>1, <1>2, UnitsFinite
<1>6. Damage(x, d) = priced + 0 * DefaultReward
  <2>1. Evidence(x, d).count = Total([b \in R |-> agg[b]])
    BY DEF Evidence
  <2>2. Max({Evidence(x, d).count - Total([b \in R |-> agg[b]]), 0}) = 0
    BY <2>1, CountIsStored, MissingNone
  <2>. QED BY <2>2 DEF Damage
<1> HIDE DEF priced, f
<1>7. priced + 0 * DefaultReward = priced
  BY <1>4, <1>5, RewardAssumption
<1>. QED BY <1>4, <1>6, <1>7 DEF f

LEMMA DamageMatches == TypeInv /\ AggregatesMatchRaw => DamageIsWhatWasPaid
BY AmountIsPaid, DamageIsPaid DEF DamageIsWhatWasPaid, ConversionDates

(* For all tables, prices and dates that are not tainted: what the console *)
(* works out is what the stored conversions pay, and so is what a          *)
(* recomputation stores where each program pays one price.                 *)
THEOREM DamageIsPaidOnce == Spec => []DamageIsWhatWasPaid
BY DamageMatches, CountersInvariant, EvidenceMatches, PTL
=============================================================================
