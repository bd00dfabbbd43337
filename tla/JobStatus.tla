------------------------------ MODULE JobStatus ------------------------------
(***************************************************************************)
(* What GET /job/status, the health check and the console report of the    *)
(* queue (job_status_summary.py, job_status_queue.py, services/console.py).*)
(* The reports go by columns JobQueue leaves out, started_at and           *)
(* finished_at, which are added to it here.  Each report is one query on   *)
(* the committed rows.                                                     *)
(***************************************************************************)
EXTENDS JobQueue

VARIABLES
  queued, started, finished, \* the times of a row, 0 for NULL
  took                       \* the time a thread or client read for its next write

times == <<queued, started, finished>>
statusVars == <<vars, times, took>>

ASSUME ActorsAssumption == Worker \intersect Client = {}

(* now_local(), later than any time in the table.  Whoever reads the clock *)
(* before one of them writes gets the same time: which of the two was      *)
(* first is left open.                                                     *)
Now ==
  LET T == {0} \union UNION {{queued[r], started[r], finished[r]} : r \in Run} IN
    1 + CHOOSE t \in T : \A u \in T : u <= t

(* Between now_local() and the write that notes it: the INSERT of enqueue, *)
(* the UPDATE of acquire_next, complete() and fail().                      *)
HasTime(x) ==
  IF x \in Client THEN want[x] # None
  ELSE pc[x] \in {"polling", "completing", "failing", "writing"}

StatusInit ==
  /\ Init
  /\ queued = [r \in Run |-> 0]
  /\ started = [r \in Run |-> 0]
  /\ finished = [r \in Run |-> 0]
  /\ took = [x \in Worker \union Client |-> 0]

Enqueues(c) ==
  /\ Insert(c)
  /\ queued' = [queued EXCEPT ![want[c]] = took[c]]
  /\ UNCHANGED <<started, finished>>

(* started_at = COALESCE(started_at, now) *)
Starts(w, r) ==
  /\ Acquire(w, r)
  /\ started' = [started EXCEPT ![r] = IF @ = 0 THEN took[w] ELSE @]
  /\ UNCHANGED <<queued, finished>>

(* An error of complete() after its commit shows in the row. *)
Writes(w) == \/ Complete(w) \/ FailWrite(w)
             \/ CompleteError(w) /\ status' # status

(* A retry clears finished_at. *)
Finishes(w) ==
  /\ Writes(w)
  /\ finished' = [finished EXCEPT ![job[w]] = IF status'[job[w]] \in Terminal THEN took[w]
                                              ELSE IF status'[job[w]] = "queued" THEN 0 ELSE @]
  /\ UNCHANGED <<queued, started>>

(* What else happens leaves the times: a blocked or recovered run keeps    *)
(* its own.                                                                *)
Timed ==
  /\ took' = [x \in Worker \union Client |->
                IF ~HasTime(x)' THEN 0 ELSE IF HasTime(x) THEN took[x] ELSE Now]
  /\ \/ \E c \in Client : Enqueues(c)
     \/ \E w \in Worker : Finishes(w) \/ \E r \in Run : Starts(w, r)
     \/ /\ \A c \in Client : ~Insert(c)
        /\ \A w \in Worker : ~Writes(w) /\ \A r \in Run : ~Acquire(w, r)
        /\ UNCHANGED times

StatusNext == Next /\ Timed

StatusSpec == StatusInit /\ [][StatusNext]_statusVars
FairStatusSpec == StatusSpec /\ Fairness

-----------------------------------------------------------------------------
Rows == {r \in Run : Exists(r)}

(* Fault seeded by the mutants: the latest is the one queued last. *)
LastChangeQueued(r) == queued[r]

(* COALESCE(finished_at, started_at, queued_at) *)
LastChange(r) ==
  IF finished[r] # 0 THEN finished[r] ELSE IF started[r] # 0 THEN started[r] ELSE queued[r]

(* _fetch_latest_run: the row it returns is one of these. *)
Latest ==
  {r \in Rows : \A q \in Rows :
     \/ LastChange(q) < LastChange(r)
     \/ LastChange(q) = LastChange(r) /\ queued[q] <= queued[r]}

(* get: of the latest run, if there is one. *)
Summary ==
  IF Rows = {} THEN "idle"
  ELSE LET s == status[CHOOSE r \in Latest : TRUE] IN
         IF s = "succeeded" THEN "completed" ELSE s

(* Fault seeded by the mutants: running is counted without its lease.      *)
QueueMetricsUnleased ==
  [queued |-> Cardinality({r \in Rows : status[r] = "queued"}),
   retry_scheduled |-> Cardinality({r \in Rows : status[r] = "queued" /\ ~due[r]}),
   running |-> Cardinality({r \in Rows : status[r] = "running"}),
   failed |-> Cardinality({r \in Rows : status[r] = "failed"}),
   oldest |-> {r \in Rows : status[r] = "queued"}]

(* get_queue_metrics: a run whose lease is over is not counted as running. *)
QueueMetrics ==
  LET Q == {r \in Rows : status[r] = "queued"} IN
    [queued |-> Cardinality(Q),
     retry_scheduled |-> Cardinality({r \in Q : ~due[r]}),
     running |-> Cardinality({r \in Rows : status[r] = "running" /\ lease[r] # "lapsed"}),
     failed |-> Cardinality({r \in Rows : status[r] = "failed"}),
     oldest |-> {r \in Q : \A q \in Q : queued[r] <= queued[q]}]

(* list_recent_failed_runs: the latest n of them. *)
RecentFailed(n) ==
  LET F == {r \in Rows : status[r] = "failed"}
      limit == IF n < 1 THEN 1 ELSE n
  IN {r \in F : Cardinality({q \in F : finished[q] > finished[r]}) < limit}

(* get_latest_successful_finished_at, 0 for NULL. *)
LatestSuccess(R) ==
  LET S == {finished[r] : r \in {r \in R \intersect Rows : status[r] = "succeeded"}} IN
    IF S = {} THEN 0 ELSE CHOOSE t \in S : \A u \in S : u <= t

-----------------------------------------------------------------------------
(* The next runs the console announces (_build_schedule_metadata).  Time   *)
(* is counted in half minutes, odd ones stand for any second past the      *)
(* minute.                                                                 *)

Hour == 120
Day == 24 * Hour
OnMinute(t, m) == (t \div Hour) * Hour + 2 * m

(* Fault seeded by the mutants: a run due right now is announced as next.  *)
NextHourlyRunNow(t, m) == IF OnMinute(t, m) < t THEN OnMinute(t, m) + Hour ELSE OnMinute(t, m)

NextHourlyRun(t, m) == IF OnMinute(t, m) <= t THEN OnMinute(t, m) + Hour ELSE OnMinute(t, m)

(* Hour after hour until one fits. *)
NextEverySixHoursRun(t, m) ==
  LET candidate(k) == OnMinute(t, m) + k * Hour
      fits(k) == (candidate(k) \div Hour) % 6 = 0 /\ candidate(k) > t
  IN candidate(CHOOSE k \in 0..6 : fits(k) /\ \A j \in 0..6 : fits(j) => k <= j)

NextDailyRun(t, h, m) ==
  LET candidate == (t \div Day) * Day + h * Hour + 2 * m IN
    IF candidate <= t THEN candidate + Day ELSE candidate

ScheduleMetadata(t) ==
  [refresh_hourly |-> NextHourlyRun(t, 0),
   backfill_6hourly |-> NextEverySixHoursRun(t, 15),
   master_sync_daily |-> NextDailyRun(t, 3, 30),
   queue_runner |-> (t \div 2) * 2 + 2]

(* The cron expressions of render.yaml, read in local time. *)
Fires == [refresh_hourly |-> {x \in 0..(2 * Day) : x % Hour = 0},
          backfill_6hourly |-> {x \in 0..(2 * Day) : x % (6 * Hour) = 30},
          master_sync_daily |-> {x \in 0..(2 * Day) : x % Day = 3 * Hour + 60},
          queue_runner |-> {x \in 0..(2 * Day) : x % 2 = 0}]

-----------------------------------------------------------------------------
(* Properties. *)

(* The report does not hide work: it is idle only when the table is empty, *)
(* it shows one run otherwise, every active run is counted except the      *)
(* running ones without a lease, and as long as workers keep theirs those  *)
(* are the ones no worker has in hand.                                     *)
SummaryTellsWork ==
  LET m == QueueMetrics
      active == {r \in Rows : status[r] \in Active}
      inHand == {r \in Rows : \E w \in Worker : job[w] = r /\ pc[w] # "leaving"}
      lapsed == {r \in active : lease[r] = "lapsed"}
  IN /\ Rows # {} => Latest # {}
     /\ Summary = "idle" <=> Rows = {}
     /\ m.queued + m.running + Cardinality(lapsed) = Cardinality(active)
     /\ m.retry_scheduled <= m.queued
     /\ m.queued > 0 <=> m.oldest # {}
     /\ Reliable => /\ lapsed \intersect inHand = {}
                    /\ m.running >= Cardinality(inHand)

(* Whoever asks after a run has finished is told so, unless another was    *)
(* queued, started or finished since this one read the clock: it is the    *)
(* latest run, heads the failed ones or is the latest success of its type. *)
FinishIsShown ==
  [][\A r \in Run :
       /\ status[r] \in Active /\ status'[r] \in Terminal
       /\ \A q \in Rows \ {r} :
            queued[q] < finished'[r] /\ started[q] < finished'[r] /\ finished[q] < finished'[r]
       => /\ Latest' = {r}
          /\ status'[r] = "failed" => RecentFailed(1)' = {r}
          /\ status'[r] = "succeeded" => LatestSuccess(Run)' = finished'[r]
    ]_statusVars

(* What the console announces, which is all it has to tell before the      *)
(* first run is accepted, is when the cron will next run, never now: at    *)
(* every minute of a day that matters, on it and past it.                  *)
NextRunIsNext ==
  (\A r \in Run : queued[r] = 0) =>
    \A t \in {t \in 0..(Day - 1) : t % Hour \in {0, 1, 29, 30, 31, 59, 60, 61, 119}} :
      \A s \in DOMAIN Fires :
        LET next == ScheduleMetadata(t)[s] IN
          next > t /\ next \in Fires[s] /\ \A x \in Fires[s] : x > t => next <= x
=============================================================================
