# Fraudhunter in TLA+

A verification development for the Fraudhunter backend
(`src/backend/src/fraud_checker`): TLA+ models of its job queue, of the
ingestion of ACS records, of the detector and the findings pipeline, and of the
review console; the TLC configurations that check them; and TLAPS proofs about
all of them: every safety property the runs check is also proved. `PROJECT.json`
lists the runs, the definition-to-source map, the hazards, the seeded faults and
the theorems; this file says what they mean.

## 1. The system

Fraudhunter pulls click and conversion records from an affiliate system (ACS),
aggregates them per date, media, program, IP and user agent, detects suspicious
conversions and lets administrators review them. Everything persistent is in
one PostgreSQL database. The processes are an API server, worker processes
(`run-worker`, started by a cron every minute, or a background task of the API
outside production), and the CLI.

| Component | State | Operations | What is hard |
|---|---|---|---|
| Job queue store, `job_status_queue.py` | table `job_runs`, PostgreSQL advisory locks | enqueue, recover_stale_runs, acquire_next, heartbeat, requeue_blocked, complete, fail, purge | several workers, crashes, leases that lapse under a live worker, writes by id only |
| Worker loop, `services/jobs.py` | thread-local run, heartbeat thread, lock session | enqueue_job, process_queued_jobs, _execute_job_run, _dispatch_job | split transactions, exceptions in `finally`, races of enqueuers |
| Job status, `job_status_summary.py`, `job_status_queue.py` | none | latest run, metrics, failed runs, latest success, schedule metadata | reports derived from columns that several writers leave behind |
| Ingestion, `ingestion.py`, `repositories/ingestion.py` | raw and aggregate tables of clicks and conversions | run_for_date (reload), run_for_time_range (merge), purge | reload in two transactions, refresh outside the lock, retention |
| ACS client, `acs_client.py` | none | listing by limit and offset | a listing that grows while it is read, blank answers |
| Detector, `suspicious.py`, `repositories/reporting_read.py` | none | find_for_date, calculate_risk_level, damage estimate | one decision split between SQL and Python; boundaries |
| Findings, `services/findings.py`, `repositories/suspicious_findings_write.py` | `findings_generations`, `suspicious_conversion_findings` | recompute_findings_for_dates, replace_conversion_findings | reads spread over many transactions; a CLI that takes no lock |
| Settings, `services/settings.py`, `repositories/settings.py` | `app_settings`, `settings_versions`, cache per process | get_settings, update_settings, ensure_settings_version | rows, version and trigger are three transactions |
| Freshness, `services/reporting.py` | none | _build_findings_freshness | a flag derived from watermarks and versions that other parts write |
| Review, `services/console.py`, `repositories/suspicious_findings_write.py` | review states and events, assignments, follow-up tasks | apply_review_action, assign_alert_cases, update_followup_task_status | matching and applying are separate, several administrators, recomputation in between |
| Console reads, `services/console.py`, `repositories/suspicious_findings_read.py` | none | list_alerts, export, get_alert_detail, get_dashboard, daily counts | several queries that must agree |
| Retention, `services/lifecycle.py` | none | purge_old_data | rows that belong together expire at different ages |
| Master data, API, presenters, CLI, guards, frontend | names; none; none; none; none; UI | | little state of their own |

Interactions: API, CLI and finished jobs call `enqueue_job`; workers acquire
rows and run ingestion, refresh, recomputation or master sync; jobs that write
one date hold the advisory lock `date-write:<date>`, a refresh and the CLI hold
none; a refresh, a settings update and a master sync enqueue one recomputation
per date, deduplicated by date; a recomputation reads settings, data and
watermarks and replaces the current generation; the freshness summary compares
that generation with the watermarks and versions of the moment; reviews attach
to cases, which outlive the findings that gave rise to them.

## 2. Modules

| Module | Models | |
|---|---|---|
| `JobQueue` | `job_runs`, its store operations, worker threads, enqueuers, leases, locks, faults | core |
| `JobLifecycle` | what the queue promises: submit, start, succeed, fail, hand back, forget | abstract specification |
| `JobStatus` | what the status report, the health check and the console say of the queue | extends `JobQueue` |
| `Ingestion` | raw rows and aggregates under reload, merge and purge | also the abstract specification of `AcsClient` |
| `AcsClient` | the loop that reads a date page by page | extends `Ingestion` |
| `Detection` | evidence, reasons, risk, damage, over the tables of `Ingestion` | extends `Ingestion` |
| `FindingsPipeline` | triggers, recomputation, generations, versions, staleness of one date | |
| `CaseReview` | replacement of findings statement by statement, reviews, claims, tasks | |
| `CaseLifecycle` | what the review workflow promises of a case | abstract specification |
| `Console` | lists, pages, dashboard, case page, findings API | extends `CaseReview` |
| `JobQueueProofs`, `JobStatusProofs`, `IngestionProofs` (with `Detection`), `AcsClientProofs`, `FindingsPipelineProofs`, `CaseReviewProofs`, `ConsoleProofs` | the theorems | TLAPS |
| `Listings` | facts on finite sets in an order: ranks, slices, first and largest members | lemmas of the proofs |
| `MCJobQueue`, `MCJobStatus`, `MCIngestion`, `MCPaging`, `MCFindings`, `MCConsole` | instances for TLC | |

In every module an action is one database transaction, or one step of a thread
between two transactions, or one statement where another transaction can come
between two of them. Each action models the whole of it. Reads that change
nothing (`JobStatus`, `Detection`, `Console`) are operators on the tables, one
per query. Definitions marked "Fault seeded by the mutants" are plausible bugs;
no specification uses them, they show that the properties can fail.

### JobQueue

The columns of `job_runs` that steer control are functions over `Run`, the ids a
row may get. Row attributes fixed at INSERT (`concurrency_key`, `dedupe_key`,
`max_attempts`, `priority`) are constants `KeyOf`, `DedupeOf`, `MaxOf`, `PrioOf`.
Time appears only where the code compares it with `now`: `lease[r]` says whether
`locked_until` is NULL, ahead or past, `due[r]` whether `next_retry_at` has come.
`pc[w]` follows a thread through `process_queued_jobs` and `_execute_job_run`:

    idle -Poll-> polling -Acquire-> locking -TryLock-> body -> completing -> leaving -> idle
                                      |                  \-> unwinding -> failing -> writing -> idle
                                      \-> blocked -> idle

`Poll` is the committed `recover_stale_runs`, which runs before the candidate is
chosen. `complete`, `requeue_blocked` and `fail` write by id without looking at
status or owner, and so do `MarkSucceeded`, `PutBack` and `FailWrite`;
`Heartbeat` is the one fenced write. `IndexConflict` is the partial unique index
on `dedupe_key` of active rows; a requeue it rejects raises. `fail` is two
transactions (`FailRead`, `FailWrite`). The advisory lock belongs to a
connection (`conn`) that may die by itself; the unlock then raises and the
exception ends in `fail`, although `complete` may have committed.

`Faults` selects what goes wrong: `crash`, `stall` (the lease of a live worker
lapses), `lockLoss`, `dbError` (a call raises, nothing committed), `lostAck` (a
call raises, it did commit). `Reliable` names the faults under which the unfenced
writes are safe: crashes and database errors, but no stall, lock loss or lost
acknowledgement.

`Lifecycle == INSTANCE JobLifecycle WITH ...` maps `status` and `attempts` to
themselves: `Poll` is `HandBack` of all stale rows, `RequeueBlocked` of one.

### JobStatus

`JobQueue` does not need `queued_at`, `started_at` and `finished_at`; `Timed` adds
them to every step (`started_at` survives a requeue, `finished_at` is cleared by
a retry and by nothing else). The code calls `now_local()` before the transaction
that writes the time, so a thread or client first reads the clock and keeps what
it read in `took` until it writes: the rows may note times in another order than
they were written, and two rows the same time. `HasTime` says who is between the
two. `Latest`, `QueueMetrics`, `RecentFailed` and
`LatestSuccess` are the queries, each with its ORDER BY; `Summary` is what the
report shows. `NextHourlyRun`, `NextEverySixHoursRun` and `NextDailyRun` compute the
announced schedules in half minutes, compared with `Fires`, the cron expressions
of `render.yaml`.

### Ingestion, AcsClient

Records have an aggregate key (`BucketOf`), keys a date (`DateOf`); a member of
`Date` is a date of one stream. `Split` holds the click dates, whose reload is
`Clear` then `Store`; conversion dates use `Replace`, which leaves the date alone
when ACS returned nothing. `Merge` is `merge_clicks`/`merge_conversions`: a record
whose id is in `raw` is skipped, the others are inserted and counted. Counters
are numbers, so double counting shows. `Share(S, b)` is what a set of records
contributes to counter `b`. `tainted` is a history variable: the dates touched by
one of the three known sources of double counting since they were last
reloaded. `MergeCountingSkipped`-style mistakes taint nothing and are caught.

In `Ingestion` the whole listing is read in one step, `Fetch`. `AcsClient`
replaces it by `Ask`, one request at an offset, between which records join the
listing anywhere. `Order` is the order ACS lists records in, `Place` how many of
the listing precede a record, and a page holds the records whose places it
covers; `LastPage` ends the loop, and a worker may die in the middle
(`CrashReading`). `Atomic == INSTANCE Ingestion WITH batch <- Whole(batch), ...`
hides a listing that is not read to the end: the loop implements the one-step
read. `Fetch` has to allow for what that read may miss or repeat: a record read
twice (`drift`), and one that is absent because an answer was blank, or because
it came to a page already read, which is the same as coming after the read.

### Detection

The tables of `Ingestion`, with attributes of records as constants (client, media,
program, time, time of the click, reward). `SelectedBySql` and `SelectedByGap` are
phase one (HAVING clauses), `Evidence` and `Reasons` phase two, `Found` is
`find_for_date`, `Score` and `Level` are `calculate_risk_level`, `Damage` is the
estimate stored with a finding and `Amounts` what the console works out for a
finding without one. `Total` is the SUM of the queries, written as the number of
units of the summands so that no recursion is needed. `RulesAssumption` says
that thresholds are integers, as the settings model of the API declares them.

### FindingsPipeline

One date. `content[k]` is the version of its rows of one kind, `mark[k]` the
`MAX(updated_at)` the watermark query returns; the two differ when a transaction
stamps its rows before another one and commits after it. `setting` is
`app_settings`; `versions` lists `settings_versions` by `created_at`. `jobs` are
the active runs of the date, `task` the one whose worker holds the date-write
lock (its exclusiveness is `MutualExclusion` of JobQueue), `pc` and `read` its
progress through `recompute_findings_for_dates`: settings, rules (which ask for
the settings again), version, watermarks, conversions, clicks, replacement. `rp`
and `ap` are the refreshes and settings updates, which take no lock. `lost` and
`late` are history variables for the two cases the properties set apart. Workers
are processes of their own with an empty settings cache, as in production.

### CaseReview, CaseLifecycle, Console

A case is a date, an IP and a user agent; a finding is a case under the rules of
one version of the settings (`FindingKey == Case \X Rule`), so changed rules give
it another key. `finding[k]` is the generation of the row, `current[k]` its
`is_current`, `generation[d]` the current rows of `findings_generations`.

`replace_conversion_findings` is three statements in one transaction at READ
COMMITTED: `BeginReplace` fixes what the first UPDATE finds, `Retire` waits for
rows another transaction has written and rechecks them (a row retired meanwhile
is left alone), `CommitReplace` makes everything visible. Workers (`Locked`) hold
the date-write lock; the CLI does not. A review is `Match` (now_local() and the
keys, its own transaction), `SelectRows` (the second matching), one `Lock` per
row of state in no particular order, and `CommitReview`; transactions that wait
for each other in a circle are `Deadlocked`, and `Rollback` ends one of them, or
any with `error`. `AssignCases`, `UpdateTask` and `PurgeFindings` are single
transactions. History variables: `clashed` (dates two replacements of which
overlapped, one unlocked), `unsettled` (those not recomputed alone since),
`raced` (cases two reviews of which overlapped), `byHand` (tasks reopened by hand).

`Lifecycle == INSTANCE CaseLifecycle WITH status <- StatusOf...`: a committed review
is one `Review` of a set of cases; matching, locking, rollbacks, recomputations
and retention are stutters.

`ConsoleAssumption` says of the constants what the tables guarantee: finitely many
findings, scores and damages that are numbers, distinct keys, and one case per
date, IP and user agent. `Console` has one operator per query: `Selected` is `_build_alert_conditions`,
`OrderBy` and `Place` its ORDER BY as a lexicographic comparison, `Page` LIMIT and
OFFSET, `ReviewKeys` the set a review by filter acts on, `CasePage` and `Related`
the case page, `ApiRows` the generation join of the findings API, `Dashboard` the
counts.

## 3. Runs

Bounds are the constants of the `.cfg` files. Sizes are distinct states.

| Run | Shows | Bounds |
|---|---|---|
| `queue_reliable` (670k) | unique active rows, recoverable rows, ownership, attempts, finality, counted failures, refinement of `JobLifecycle`, under `crash` and `dbError` | two runs of one dedupe key and date lock, a lock-free run, two threads in two processes, two enqueuers, `MaxOf` 2 |
| `queue_zombies` (940k) | what survives all faults: exclusion (of threads whose lock connection lives), unique active rows, recoverable rows | two runs, two threads, `AttemptCap` 3 |
| `queue_live` (373k) | recovery of orphans; every queued run settles once crashes end; the status report tells of all work and of every end; announced schedules | two runs of different dedupe key and priority contending for one lock |
| `queue_resurrection` | violation of `TerminalIsFinal` under `stall` | |
| `ingest_safety` (3.9M, up to exchanging `k1` and `k2`) | counters match raw rows but for the named causes, and never fall below | two records in one counter of a click date, two of a conversion date of which one is not aggregated, one refresh, two attempts, counters to 2 before a merge |
| `ingest_live` (158k) | the loop over pages loses nothing and implements `Fetch`; a cleared date gets its records back; an empty answer deletes no conversion; the detector accuses whoever the rules accuse, risk does not fall as evidence grows, damage is what was paid | a click date of one record, a conversion date of two of different media and program, one record a page, two attempts, three rule sets |
| `ingest_overlap` | violation of `DuplicatesAreAbsorbed`, no hazard enabled | |
| `findings_settle` (7.2M) | settled findings are current unless a trigger was lost; unmarked findings are current under stated conditions | one refresh, one administrator who saves twice, three settings, two data writes, any number of ingestion requests within them |
| `findings_label` | violation of `GenerationNamesItsSettings` | |
| `findings_outdated` | violation of `OutdatedIsMarked` | no settings update |
| `findings_fresh` | violation of `SettledIsFresh` | |
| `console_review` (208k, up to exchanging administrators and workers) | one generation per date; tasks follow statuses; histories explain statuses, one entry per review; refinement of `CaseLifecycle`; lists, pages, dashboard and case pages agree | three cases on two dates, two versions of the rules, two administrators, two workers and the CLI, three requests, three recomputations, four of both together |

Why these bounds. The queue's hazards are between two threads and one row, or
two rows of one dedupe key or lock; a third row without a lock keeps a thread
busy elsewhere. `queue_live` has no purely lock-free run, whose behaviour adds
states and no contention. `MaxOf = 2` gives a first, a last and no attempt left. In `queue_live`
two threads and a client read the clock in every order relative to each other's writes.
In `Ingestion` two records under one counter are needed to tell counting records
from counting merges, a second date to see that clearing one leaves the other.
The two records have one key and are both counted, so the run may identify
states that differ only in which is which (`SameKey`). A page of one record is
the smallest that is full and not last; the listing order puts records before
and after those already read. The rule sets put the thresholds within
and out of reach of two conversions, and switch the gap rules and filters on
and off. In `FindingsPipeline` two data writes let one
commit behind the other's watermark; two saves let an update fall before and
after a recomputation. In `CaseReview` two cases of one date let reviews lock
rows in opposite order, a third on another date lets retention and the case
page tell dates apart; changed rules give one finding another key and drop one;
two requests and two recomputations, or three of one and one of the other, are
what an overlap and a second look at it take. The findings of `MCConsole` tie in
their score so that the last column of ORDER BY decides, and the filters ask for
each kind of window, of status and of page size, those out of range included.

`MaxClock`, `MaxSaves`, `AttemptCap`, `CountCap`, `MaxGen` and `MaxCalls` are guards on
what would otherwise count without end: a data write or request, a save, a
failure report, a merge, a recomputation, requests and recomputations together.

Fairness. `queue_live`: weak fairness of each thread's next step (the cron starts
workers, a started job ends) and of the passing of time for leases and retry
delays; none for enqueuers, crashes or retention. Settling needs `CrashesEnd`,
since recovery does not count attempts: a run that kills its worker every time
goes on forever. `ingest_live`: for click dates, weak fairness of the next request
to ACS and strong fairness of the last one, of `Clear`, `Store` and success, that
is, a worker may die any number of times but not always at the same place;
failures are bounded by the attempts. Nothing is assumed of conversion dates,
refreshes, retention or ACS.

`console_review` disables the deadlock check, because its bounds on requests and
recomputations stop the model; in every other model something can always go on.
That reviews do not wait for each other for good is in the model itself: whoever
is in a circle can be rolled back, as PostgreSQL does.

## 4. Findings

* `queue_resurrection`: a finished run becomes queued again. A thread whose lease
  lapsed still holds the lock; the thread that recovered its run is blocked;
  the first completes, then the second's `requeue_blocked` (by id) sets the
  succeeded row to queued. `Finality` proves that this needs a stall, a lock
  loss or a lost acknowledgement.
* `ingest_overlap`: a refresh that commits between `clear_date` and the storing
  transaction of a click ingestion makes every common record count twice.
* `findings_label`: two `get_settings` calls in one recomputation.
* `findings_outdated`: a click refresh deduplicated against a running
  recomputation is neither recomputed nor marked, as clicks are not compared.
* `findings_fresh`: a slow recomputation that records old settings after new
  ones (or a reverted setting, whose old version row is reused) leaves correct
  findings marked stale for good.

The properties of the review workflow name, by their history variables, what
does go wrong without contradicting a document of the repository: two reviews of
one case that overlap may leave a status that is not that of the first line of
the history (`raced`), since `reviewed_at` is taken before the transaction; and a
recomputation by the CLI beside another one may leave two current generations,
and a case listed twice, until the date is recomputed alone (`unsettled`).

## 5. Proofs

For every set of runs, records, settings, cases, workers, administrators and so
on, and every bound:

| Theorem | Faults | States |
|---|---|---|
| `JobQueueProofs!TypeCorrect`, `Exclusion`, `DedupeHolds`, `OrphansAreVisible` | all | `TypeOK`, `MutualExclusion`, `ActiveDedupeUnique`, `RunningIsRecoverable` |
| `JobQueueProofs!Ownership`, `AttemptsLeft`, `EachFailureCounts`, `Finality` | reliable | `OwnsItsRun`, `ActiveHasAttemptsLeft`, `FailuresAreCounted`, `TerminalIsFinal` |
| `JobQueueProofs!Implements` | reliable | `JobQueue` implements `JobLifecycle` (`LifecycleSpec`) |
| `JobStatusProofs!ReportsTellWork`, `FinishesAreShown`, `AnnouncedIsNext` | all | `SummaryTellsWork`, `FinishIsShown`, `NextRunIsNext`, at every moment of a day |
| `IngestionProofs!TypeCorrect`, `NothingIsMissing`, `EvidenceMatches` | all | `TypeOK`, `NeverUndercounts`, `AggregatesMatchRaw` |
| `IngestionProofs!NobodyIsMissed`, `EvidenceNeverClears`, `DamageIsPaidOnce` | all | `DetectionIsComplete`, `MoreEvidenceNeverLessRisk`, `DamageIsWhatWasPaid` |
| `AcsClientProofs!PagedTypeCorrect`, `PagingReadsAll`, `ConversionsStay` | all | `TypeOK`, `PagingIsSnapshot`, `ConversionsKept` |
| `AcsClientProofs!LoopIsFetch` | `drift` and `short` allowed | `AcsClient` implements `Ingestion` (`AtomicSpec`) |
| `AcsClientProofs!PagedEvidence`, `PagedDetection` | all | the properties of `Ingestion` and `Detection` above, of the loop over pages |
| `FindingsPipelineProofs!TypeCorrect`, `FindingsSettle` | all | `TypeOK`, `SettledIsCurrent` |
| `FindingsPipelineProofs!FreshIsCurrent` | all but `revert` | `FreshMeansCurrent` |
| `CaseReviewProofs!TypeCorrect`, `FraudIsFollowedUp`, `ClearedIsClear`, `OneGeneration` | all | `TypeOK`, `ConfirmedHasTasks`, `ClearedHasNoOpenTask`, `OneGenerationShown` |
| `CaseReviewProofs!HistoryIsTrue`, `OneEntryPerReview` | all | `HistoryExplainsStatus`, `OneEventPerReview` |
| `CaseReviewProofs!Implements` | all | `CaseReview` implements `CaseLifecycle` (`LifecycleSpec`) |
| `ConsoleProofs!ReviewsReachLists`, `PagesShowAll` | all | `ReviewReachesListed`, `PagesPartition` |
| `ConsoleProofs!DashboardAgrees`, `CasePagesAgree` | all | `DashboardMatchesList`, `CasePageAgrees` |

The assumptions are those named in the modules (`NoneAssumption`,
`AttributesAssumption`, `KeyAssumption`, `InputsAssumption`, ...), which TLC evaluates
on every run; `Faults \subseteq {"crash", "dbError"}` for the theorems marked
reliable; `"revert" \notin Hazards` for `FreshIsCurrent`; `{"drift", "short"} \subseteq
Hazards` for `LoopIsFetch`, because the one-step read is told by those two what a
read of several pages may repeat or leave out: the abstract `Fetch` must be allowed
at least what the loop can do.

*Queue.* `MutualExclusion` is not inductive: that a thread past the lock holds a
session, that a session belongs to a thread in the locked section, and that
sessions of one key exclude each other has to be added (`LockInv`). The rows'
consistency is inductive with the type invariant (`RowInv`). Ownership needs that a
thread with a job never shares it, that the row is running under its process and
live lease, and that the attempts `fail` has read are those of the row
(`OwnInv`); a write by id is then as good as a fenced one, and finality, the count
of failures, the attempt bound (`AttemptsInv`) and the refinement follow step by step.

*Reports on the queue.* A step of `JobStatus` is a step of `JobQueue`, so all that is
proved of the queue holds. The times need an invariant of their own: who is about
to write a time has read the clock, and a clock is later than any time it could
have seen (`TimesInv`). The counts follow because queued, running and lapsed rows
are disjoint and make up the active ones, and because what threads have in hand is
running under a live lease (`OwnsItsRun`). A finish is the latest change when no
other row was given a time since its clock was read, which is what `FinishIsShown` asks.
The announced times are found by arithmetic on the hour and minute.

*Ingestion.* The lemmas on `Share` say what a counter stands for when records are
added, taken away or overwritten, from the cardinality of finite sets.
`NeverUndercounts` is inductive with the types: what enters the raw table enters
the counter in the same transaction. Equality needs `ClearedApart`: between the two
transactions of a click ingestion nothing of the batch is stored, unless the
date is tainted.

*Pages.* `Listings` shows of any strict order on a finite set that ranks are
distinct, that they are all taken below the cardinality, and how long a slice is; so a
page that is not full is the last. `PagingIsSnapshot` is about the end of a read;
`ReadInv` about its middle: a record listed at the first request is read or its place is not
behind the offset, and if nothing has joined, whatever was read is behind it. A
record that joins moves the others down, never up, which keeps the first half; the
second is void once something has joined. The refinement hides an unfinished
read (`Whole`); that the last request is a `Fetch` needs `ReadInv` to say what it may
have left out or repeated. The invariants of the tables are carried over the loop
(`TablesInv`), since `Ask` and `CrashReading` leave the tables alone.

*Detector.* `NobodyIsMissed` holds whatever the tables hold: it compares two renderings
of one decision in the code, the HAVING clauses with the checks in Python.
`EvidenceNeverClears` follows each reason from the rows it rests on, and then the
score: more rows can only add reasons other than the two the property names, and each
part of the score grows with the count. It needs that the rows of a client
are finitely many, which is an invariant: a counter above zero has counted a record
(`CountersHaveRecords`). `DamageIsPaidOnce` regroups a sum by key and by program
(`TotalByKey`, `TotalRegrouped`) and uses `EvidenceMatches`: on an untouched date the
counters are the numbers of the stored records, so nothing is missing and nothing paid twice.

*Pipeline.* `SettledIsCurrent` speaks of quiet states; `CoverInv` of all: once there
is data and no trigger was lost, either somebody besides the task that holds the
lock will recompute (`Others`), or all the task has read so far is what the
database holds (`OnTrack`). `FreshMeansCurrent` needs that old settings do not come
back, so that the label and the rules of a generation agree while the label is in
effect (`RuleInv`), that a write that has not committed has a time no watermark has
shown (`StampInv`), and that one watermark stands for one content as long as
nothing commits behind it (`MarkInv`).

*Review.* `ConfirmedHasTasks` and `ClearedHasNoOpenTask` are inductive with the types,
since a review changes status and tasks in one transaction and nothing else
moves a status. `OneGenerationShown` needs
what each replacement has seen: one that no other overlaps has retired all that
is current on its date (`Alone`, `ReplaceInv`), and so leaves one generation and one
finding of a case (`Settled`, `GenerationInv`). A history is in the order of its
stamps where reviews do not overlap: nobody else works on a case under review,
and every entry is older than the review under way (`StampInv`, `NamedInv`,
`OrderInv`). A review leaves one entry because its stamp is its own and what it
acts on is one finding of a case, which it owes to `GenerationInv` (`EntryInv`).

*Console.* `ReviewsReachLists` compares the review of a filter with its list in every
state. `PagesShowAll` rests on `Listings`: the comparison of `Place` is a strict order
because its last column, the key, never ties, so a page is a slice. `DashboardAgrees`
splits the backlog by status, and owes the trend to `OneGenerationShown`. A case page has
one newest finding because a generation holds one finding of a case and a number
is used once (`KeysInv`); its status is that of the newest entry because each row of
state has an entry of the same time (`StatusHasEvent`), and by `HistoryExplainsStatus`;
that the cases related lead back is an argument on distances of dates and on
the number listed.

Only model-checked: the three liveness properties `QueuedRunsSettle`,
`OrphansAreRecovered` and `ClearedComesBack`, which need fairness and ENABLED, out of the
prover's reach. Every other property of a passing run is a theorem above. The violations of
section 4 are counterexamples, for which TLC is the tool.

## 6. Not modelled

* `cancel()` and `has_active_job()` of the store have no caller in `src/`.
* The settings cache of the API process (`services/settings.py`): it would serve
  old settings to reads of that process; recomputations run in workers whose
  cache starts empty. The hazard is listed and has no property.
* Purge of aggregates (365 days): it comes when the raw rows have been gone for
  most of a year and removes whole dates.
* Enrichment of conversions with click IP and user agent is the constants
  `BucketOf` and `Counted`: which key a conversion has does not change later.
* Retries inside one ACS request, parsing of records, names of master data: a
  request that fails after its retries is `Fail`; names decide nothing.
* The paged list of `services/suspicious.py`, and fallbacks for tables without a
  generation column: an older reader of the same rows, and code for databases
  before a migration.
* Presenters, masking, reason texts, CSV layout: formatting without state.
* Routing, authentication and rate limiting of the API, start-up guards, schema
  migration, test data, frontend: outside the data path; requests of the API
  appear as the actions of the modules.
* The difference between UTC, by which the cron of the deployment runs, and local
  time, in which schedules are announced: `Fires` reads the cron expressions in
  local time, as the announcement does.

## 7. Plan

Done, in this order because everything else relies on the queue: `JobQueue`,
`JobLifecycle`; `Ingestion`; `FindingsPipeline`; `CaseReview`, `CaseLifecycle`, `Console`;
`JobStatus`; `AcsClient`, `Detection`; the proofs beside each.

1. Composition of ingestion and pipeline: findings follow the records, with
   `Ingestion` in place of content versions.
2. A settings cache per process in `FindingsPipeline`.
3. Proofs beside what 1 and 2 add. Of the present modules the safety
   properties are proved; liveness stays with TLC.
