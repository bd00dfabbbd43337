------------------------------ MODULE Ingestion ------------------------------
(***************************************************************************)
(* The record streams of ACS (clicks and conversions) on their way into    *)
(* the two tables the system keeps of each: raw rows, one per record id,   *)
(* and daily aggregates, one counter per date, media, program, IP and user *)
(* agent (repositories/ingestion.py, ingestion.py).                        *)
(*                                                                         *)
(* A date ingestion reloads one date: it deletes the date and stores what  *)
(* ACS returned, for clicks in two transactions (Split), for conversions   *)
(* in one.  A refresh merges a time window and skips the ids it already has.  *)
(* The date-write lock serialises the ingestions of a date, so there is    *)
(* one at a time; a refresh takes no such lock.  A member of Date is a     *)
(* date of one of the two streams.                                         *)
(***************************************************************************)
EXTENDS Naturals, FiniteSets

CONSTANTS
  Rec,         \* record ids (track_cid, action log id)
  Bucket,      \* aggregate keys
  Date,        \* dates of a stream
  Refresh,     \* refresh jobs that may run at a time
  BucketOf,    \* BucketOf[c]: aggregate key of record c
  DateOf,      \* DateOf[b]: date of aggregate key b
  Counted,     \* records with an IP and a user agent to aggregate by
  Split,       \* dates cleared and stored in separate transactions (clicks)
  MaxAttempts, \* max_attempts of a date ingestion
  CountCap,    \* bound on the counters: a merge that would exceed it waits
  Hazards      \* what may happen besides, a subset of HazardKinds

(***************************************************************************)
(* drift   - records registered between two page requests shift the        *)
(*           offsets: a record is returned on two pages                    *)
(* purge   - retention deletes raw rows (90 days) of dates whose           *)
(*           aggregates it keeps (365 days)                                *)
(* short   - ACS answers a page without records, or the listing moves while *)
(*           its pages are read: records of the date are not among them    *)
(* crash   - the worker dies; lease recovery runs the job again            *)
(* error   - a request or a transaction fails                              *)
(***************************************************************************)
HazardKinds == {"drift", "purge", "short", "crash", "error"}

ASSUME HazardsAssumption == Hazards \subseteq HazardKinds
ASSUME RecAssumption == IsFiniteSet(Rec)
ASSUME KeyAssumption ==
  /\ BucketOf \in [Rec -> Bucket]
  /\ DateOf \in [Bucket -> Date]
  /\ Counted \subseteq Rec
ASSUME JobAssumption ==
  Split \subseteq Date /\ MaxAttempts \in Nat \ {0} /\ CountCap \in Nat

VARIABLES
  acs,       \* records ACS has registered
  raw,       \* ids in click_raw / conversion_raw
  agg,       \* click_count / conversion_count per aggregate key
  wanted,    \* dates with a queued or running ingestion job
  attempts,  \* failed attempts of that job
  step,      \* where the ingestion of a date is
  batch,     \* the records it fetched for its date
  twice,     \* those it fetched twice
  fetched,   \* what each refresh fetched, before its merge commits
  tainted    \* history: dates whose counters may exceed their raw rows

tables == <<raw, agg>>
jobs   == <<wanted, attempts, step, batch, twice>>
vars   == <<acs, tables, jobs, fetched, tainted>>

DayOf(c) == DateOf[BucketOf[c]]

On(S, d) == {c \in S : DayOf(c) = d}

(* How many records of S the counter of b stands for. *)
Share(S, b) == Cardinality({c \in S \intersect Counted : BucketOf[c] = b})

TypeOK ==
  /\ acs \subseteq Rec
  /\ raw \subseteq Rec
  /\ agg \in [Bucket -> Nat]
  /\ wanted \subseteq Date
  /\ attempts \in [Date -> 0..MaxAttempts]
  /\ step \in [Date -> {"idle", "fetched", "cleared", "stored"}]
  /\ batch \in [Date -> SUBSET Rec]
  /\ twice \in [Date -> SUBSET Rec]
  /\ fetched \in [Refresh -> SUBSET Rec]
  /\ tainted \subseteq Date

Init ==
  /\ acs = {}
  /\ raw = {}
  /\ agg = [b \in Bucket |-> 0]
  /\ wanted = {}
  /\ attempts = [d \in Date |-> 0]
  /\ step = [d \in Date |-> "idle"]
  /\ batch = [d \in Date |-> {}]
  /\ twice = [d \in Date |-> {}]
  /\ fetched = [r \in Refresh |-> {}]
  /\ tainted = {}

-----------------------------------------------------------------------------
(* The records come in at ACS at any time, also late. *)
Register(c) ==
  /\ c \notin acs
  /\ acs' = acs \union {c}
  /\ UNCHANGED <<tables, jobs, fetched, tainted>>

(* enqueue_click_ingestion_job: an active job of the date is not doubled.  *)
Request(d) ==
  /\ d \notin wanted
  /\ wanted' = wanted \union {d}
  /\ attempts' = [attempts EXCEPT ![d] = 0]
  /\ UNCHANGED <<acs, tables, step, batch, twice, fetched, tainted>>

-----------------------------------------------------------------------------
(* run_for_date *)

(* All pages are read before the first write; AcsClient reads them one by *)
(* one.                                                                    *)
Fetch(d) ==
  /\ d \in wanted
  /\ step[d] = "idle"
  /\ \E B \in SUBSET On(acs, d) : \E D \in SUBSET B :
       /\ B # On(acs, d) => "short" \in Hazards
       /\ D # {} => "drift" \in Hazards
       /\ batch' = [batch EXCEPT ![d] = B]
       /\ twice' = [twice EXCEPT ![d] = D]
  /\ step' = [step EXCEPT ![d] = "fetched"]
  /\ UNCHANGED <<acs, tables, wanted, attempts, fetched, tainted>>

Without(d) == raw \ On(raw, d)

Zeroed(d) == [b \in Bucket |-> IF DateOf[b] = d THEN 0 ELSE agg[b]]

(* clear_date, a transaction of its own for clicks. *)
Clear(d) ==
  /\ d \in Split
  /\ step[d] = "fetched"
  /\ raw' = Without(d)
  /\ agg' = Zeroed(d)
  /\ tainted' = tainted \ {d}
  /\ step' = [step EXCEPT ![d] = IF batch[d] = {} THEN "stored" ELSE "cleared"]
  /\ UNCHANGED <<acs, wanted, attempts, batch, twice, fetched>>

(* The second transaction of ingest_clicks: the raw row is upserted, the   *)
(* aggregate is counted up once per fetched record, whatever was there.    *)
Store(d) ==
  /\ step[d] = "cleared"
  /\ raw' = raw \union batch[d]
  /\ agg' = [b \in Bucket |-> agg[b] + Share(batch[d], b) + Share(twice[d], b)]
  /\ tainted' = IF twice[d] = {} THEN tainted ELSE tainted \union {d}
  /\ step' = [step EXCEPT ![d] = "stored"]
  /\ UNCHANGED <<acs, wanted, attempts, batch, twice, fetched>>

(* Fault seeded by the mutants: an empty answer empties the date.          *)
ReplaceEmptying(d) ==
  /\ d \notin Split
  /\ step[d] = "fetched"
  /\ raw' = Without(d) \union batch[d]
  /\ agg' = [b \in Bucket |->
               Zeroed(d)[b] + Share(batch[d], b) + Share(twice[d], b)]
  /\ tainted' = IF twice[d] = {} THEN tainted \ {d} ELSE tainted \union {d}
  /\ step' = [step EXCEPT ![d] = "stored"]
  /\ UNCHANGED <<acs, wanted, attempts, batch, twice, fetched>>

(* ingest_conversions, one transaction.  When ACS returns nothing the      *)
(* conversions of the date are left as they are.                           *)
Replace(d) ==
  /\ d \notin Split
  /\ step[d] = "fetched"
  /\ IF batch[d] = {}
     THEN UNCHANGED <<tables, tainted>>
     ELSE /\ raw' = Without(d) \union batch[d]
          /\ agg' = [b \in Bucket |->
                       Zeroed(d)[b] + Share(batch[d], b) + Share(twice[d], b)]
          /\ tainted' = IF twice[d] = {} THEN tainted \ {d} ELSE tainted \union {d}
  /\ step' = [step EXCEPT ![d] = "stored"]
  /\ UNCHANGED <<acs, wanted, attempts, batch, twice, fetched>>

(* The thread forgets what it fetched. *)
Stop(d) ==
  /\ step' = [step EXCEPT ![d] = "idle"]
  /\ batch' = [batch EXCEPT ![d] = {}]
  /\ twice' = [twice EXCEPT ![d] = {}]

Succeed(d) ==
  /\ step[d] = "stored"
  /\ wanted' = wanted \ {d}
  /\ Stop(d)
  /\ UNCHANGED <<acs, tables, attempts, fetched, tainted>>

(* Fault seeded by the mutants: one attempt too many. *)
FailOnceMore(d) ==
  /\ "error" \in Hazards
  /\ d \in wanted
  /\ attempts' = [attempts EXCEPT ![d] = @ + 1]
  /\ wanted' = IF attempts[d] + 1 <= MaxAttempts THEN wanted ELSE wanted \ {d}
  /\ Stop(d)
  /\ UNCHANGED <<acs, tables, fetched, tainted>>

(* The job raises: it is retried from the start, or gives up for good.     *)
Fail(d) ==
  /\ "error" \in Hazards
  /\ d \in wanted
  /\ attempts' = [attempts EXCEPT ![d] = @ + 1]
  /\ wanted' = IF attempts[d] + 1 < MaxAttempts THEN wanted ELSE wanted \ {d}
  /\ Stop(d)
  /\ UNCHANGED <<acs, tables, fetched, tainted>>

(* Fault seeded by the mutants: the run of a dead worker is not recovered. *)
CrashForgets(d) ==
  /\ "crash" \in Hazards
  /\ step[d] # "idle"
  /\ wanted' = wanted \ {d}
  /\ Stop(d)
  /\ UNCHANGED <<acs, tables, attempts, fetched, tainted>>

(* The worker dies; the job is run again and no attempt is counted.        *)
Crash(d) ==
  /\ "crash" \in Hazards
  /\ step[d] # "idle"
  /\ Stop(d)
  /\ UNCHANGED <<acs, tables, wanted, attempts, fetched, tainted>>

-----------------------------------------------------------------------------
(* run_for_time_range: the window may lie anywhere, the client filters it. *)
FetchWindow(r) ==
  /\ fetched[r] = {}
  /\ \E S \in SUBSET acs :
       /\ S # {}
       /\ fetched' = [fetched EXCEPT ![r] = S]
  /\ UNCHANGED <<acs, tables, jobs, tainted>>

(* Dates that hold a record of the merge and are about to store it again.  *)
Overtaken(r) ==
  {d \in Date : step[d] = "cleared" /\ fetched[r] \intersect batch[d] # {}}

(* Fault seeded by the mutants: a skipped record is aggregated all the     *)
(* same.                                                                   *)
MergeCountingSkipped(r) ==
  /\ fetched[r] # {}
  /\ raw' = raw \union fetched[r]
  /\ agg' = [b \in Bucket |-> agg[b] + Share(fetched[r], b)]
  /\ tainted' = tainted \union Overtaken(r)
  /\ fetched' = [fetched EXCEPT ![r] = {}]
  /\ UNCHANGED <<acs, jobs>>

(* Fault seeded by the mutants: only one of the new records is aggregated. *)
MergeLosing(r) ==
  /\ fetched[r] # {}
  /\ raw' = raw \union fetched[r]
  /\ agg' = [b \in Bucket |-> IF Share(fetched[r] \ raw, b) > 0 THEN agg[b] + 1
                                                                ELSE agg[b]]
  /\ tainted' = tainted \union Overtaken(r)
  /\ fetched' = [fetched EXCEPT ![r] = {}]
  /\ UNCHANGED <<acs, jobs>>

(* merge_clicks / merge_conversions: ON CONFLICT DO NOTHING on the raw id, *)
(* and only an inserted record is aggregated.  One transaction, which may  *)
(* come between the two of a click ingestion.                              *)
Merge(r) ==
  /\ fetched[r] # {}
  /\ \A b \in Bucket : agg[b] + Share(fetched[r] \ raw, b) <= CountCap
  /\ raw' = raw \union fetched[r]
  /\ agg' = [b \in Bucket |-> agg[b] + Share(fetched[r] \ raw, b)]
  /\ tainted' = tainted \union Overtaken(r)
  /\ fetched' = [fetched EXCEPT ![r] = {}]
  /\ UNCHANGED <<acs, jobs>>

(* The refresh fails or dies before its merge commits. *)
Abandon(r) ==
  /\ Hazards \intersect {"error", "crash"} # {}
  /\ fetched[r] # {}
  /\ fetched' = [fetched EXCEPT ![r] = {}]
  /\ UNCHANGED <<acs, tables, jobs, tainted>>

(* purge_raw_before: the raw rows of an old date go, its aggregates stay.  *)
PurgeRaw(d) ==
  /\ "purge" \in Hazards
  /\ On(raw, d) # {}
  /\ raw' = Without(d)
  /\ tainted' = tainted \union {d}
  /\ UNCHANGED <<acs, agg, jobs, fetched>>

-----------------------------------------------------------------------------
DateStep(d) == Fetch(d) \/ Clear(d) \/ Store(d) \/ Replace(d) \/ Succeed(d)

Next ==
  \/ \E c \in Rec : Register(c)
  \/ \E d \in Date : Request(d) \/ DateStep(d) \/ Fail(d) \/ Crash(d) \/ PurgeRaw(d)
  \/ \E r \in Refresh : FetchWindow(r) \/ Merge(r) \/ Abandon(r)

Spec == Init /\ [][Next]_vars

-----------------------------------------------------------------------------
(* Properties. *)

(* A counter stands for the raw records of its key: what the console shows *)
(* and the detector rolls up is backed by evidence.  Only three things     *)
(* break this for a date, until it is ingested anew: a refresh between the *)
(* two transactions of a click ingestion, a shifted page, and retention.   *)
(* Crashes, failures and retries do not.                                   *)
AggregatesMatchRaw ==
  \A b \in Bucket : DateOf[b] \notin tainted => agg[b] = Share(raw, b)

(* Even then no stored record is missing from its counter, so no threshold *)
(* of the detector is missed for want of counting.                         *)
NeverUndercounts == \A b \in Bucket : agg[b] >= Share(raw, b)

(* "Duplicates are absorbed by the raw id", so that refetching a window    *)
(* that overlaps what is stored is safe.                                   *)
DuplicatesAreAbsorbed == \A b \in Bucket : agg[b] = Share(raw, b)
=============================================================================
