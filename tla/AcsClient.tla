------------------------------ MODULE AcsClient ------------------------------
(***************************************************************************)
(* How an ingestion reads the records of its date from ACS: page by page,  *)
(* by limit and offset into a listing that other records join meanwhile    *)
(* (acs_client.py and the loop of run_for_date).  Everything after the     *)
(* last page is Ingestion's, whose Fetch is this loop in one step.         *)
(***************************************************************************)
EXTENDS Ingestion

CONSTANTS
  Order,     \* Order[c]: how far down ACS lists record c; new ones join anywhere
  PageSize   \* limit of a request

ASSUME PagingAssumption ==
  /\ PageSize \in Nat \ {0}
  /\ Order \in [Rec -> Nat]
  /\ \A c, e \in Rec : Order[c] = Order[e] => c = e

VARIABLES
  page,      \* pages the ingestion of a date has read
  listed,    \* history: what the listing held when it asked for the first
  blank      \* history: dates of which an answer was blank

paging == <<page, listed, blank>>
pvars  == <<vars, paging>>

PagedInit ==
  /\ Init
  /\ page = [d \in Date |-> 0]
  /\ listed = [d \in Date |-> {}]
  /\ blank = {}

-----------------------------------------------------------------------------
(* Fault seeded by the mutants: the date is not asked for. *)
ListingOfAll(d) == {c \in acs : d \in Date}

(* What ACS would list for the date at this moment, and how many of it     *)
(* before a record.                                                        *)
Listing(d) == On(acs, d)
Before(d, c) == {e \in Listing(d) : Order[e] < Order[c]}
Place(d, c) == Cardinality(Before(d, c))

(* Fault seeded by the mutants: the offset counts from the second page. *)
OffsetSkipping(p) == p * PageSize

(* _between_range_params *)
Offset(p) == (p - 1) * PageSize

(* The records of page p: that slice of the listing as it is now.          *)
PageOf(d, p) ==
  {c \in Listing(d) : Place(d, c) \in Offset(p)..(Offset(p) + PageSize - 1)}

(* _fetch_records: an answer without a list of records counts as none.     *)
Answers(d, p) ==
  {PageOf(d, p)} \union (IF "short" \in Hazards THEN {{}} ELSE {})

(* Neither an empty page nor one shorter than the limit is followed by     *)
(* another.                                                                *)
LastPage(records) == Cardinality(records) < PageSize

(* One request of the loop.  An error it raises after its retries is Fail. *)
Ask(d) ==
  /\ d \in wanted
  /\ step[d] = "idle"
  /\ \E records \in Answers(d, page[d] + 1) :
       /\ batch' = [batch EXCEPT ![d] = @ \union records]
       /\ twice' = [twice EXCEPT ![d] = @ \union (batch[d] \intersect records)]
       /\ IF LastPage(records)
          THEN page' = page /\ step' = [step EXCEPT ![d] = "fetched"]
          ELSE page' = [page EXCEPT ![d] = @ + 1] /\ step' = step
       /\ blank' = IF records = PageOf(d, page[d] + 1) THEN blank
                                                      ELSE blank \union {d}
  /\ listed' = IF page[d] = 0 THEN [listed EXCEPT ![d] = On(acs, d)] ELSE listed
  /\ UNCHANGED <<acs, tables, wanted, attempts, fetched, tainted>>

(* The worker dies between two requests. *)
CrashReading(d) ==
  /\ "crash" \in Hazards
  /\ page[d] > 0
  /\ step[d] = "idle"
  /\ Stop(d)
  /\ UNCHANGED <<acs, tables, wanted, attempts, fetched, tainted>>

(* The thread is gone, and its place in the listing with it. *)
Leave(d) ==
  /\ Succeed(d) \/ Fail(d) \/ Crash(d) \/ CrashReading(d)
  /\ page' = [page EXCEPT ![d] = 0]
  /\ listed' = [listed EXCEPT ![d] = {}]
  /\ blank' = blank \ {d}

Elsewhere ==
  /\ \/ \E c \in Rec : Register(c)
     \/ \E d \in Date : \/ Request(d) \/ Clear(d) \/ Store(d) \/ Replace(d)
                        \/ PurgeRaw(d)
     \/ \E r \in Refresh : FetchWindow(r) \/ Merge(r) \/ Abandon(r)
  /\ UNCHANGED paging

PagedNext == Elsewhere \/ \E d \in Date : Ask(d) \/ Leave(d)

PagedSpec == PagedInit /\ [][PagedNext]_pvars

(* Workers keep running the click ingestions they accepted.  Strong        *)
(* fairness: a worker may die any number of times, but not every time just *)
(* before the same step.                                                   *)
PagedFairness ==
  \A d \in Split : /\ WF_pvars(Ask(d))
                   /\ SF_pvars(Ask(d) /\ step'[d] = "fetched")
                   /\ SF_pvars(Clear(d) /\ UNCHANGED paging)
                   /\ SF_pvars(Store(d) /\ UNCHANGED paging)
                   /\ SF_pvars(Leave(d) /\ Succeed(d))

FairPagedSpec == PagedSpec /\ PagedFairness
-----------------------------------------------------------------------------
(* Properties. *)

(* Reading a listing that grows between the requests loses nothing that    *)
(* was in it at the start, and repeats a record only when it has grown,    *)
(* unless ACS leaves an answer blank.                                      *)
PagingIsSnapshot ==
  \A d \in Date :
    step[d] = "fetched" =>
      /\ d \notin blank => listed[d] \subseteq batch[d]
      /\ On(acs, d) = listed[d] => twice[d] = {}

(* Apart from retention a stored conversion disappears only when ACS       *)
(* answered for its date with others and without it: an answer without     *)
(* records, which may as well be an outage, deletes nothing.               *)
ConversionsKept ==
  [][\A c \in raw \ raw' :
       DayOf(c) \notin Split =>
         \/ PurgeRaw(DayOf(c))
         \/ batch[DayOf(c)] # {} /\ c \notin batch[DayOf(c)]]_pvars

(* A date is cleared before its new records are stored.  A worker that     *)
(* dies in between does not leave the date empty: the records come back,   *)
(* unless the job fails for good or ACS answers the next attempt without   *)
(* them.                                                                   *)
ClearedComesBack ==
  \A d \in Split :
    (step[d] = "cleared")
      ~> \/ batch[d] # {} /\ batch[d] \subseteq raw
         \/ attempts[d] = MaxAttempts
         \/ d \in blank

(* Nothing else of the ingestion can tell the loop from one read of the    *)
(* whole listing.                                                          *)
Whole(read) == [d \in Date |-> IF step[d] = "idle" THEN {} ELSE read[d]]

Atomic == INSTANCE Ingestion WITH batch <- Whole(batch), twice <- Whole(twice)

AtomicSpec == Atomic!Spec
=============================================================================
