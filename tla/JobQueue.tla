------------------------------ MODULE JobQueue ------------------------------
(***************************************************************************)
(* The durable job queue: the rows of job_runs, the store operations of    *)
(* JobStatusStorePG (job_status_queue.py) and the worker loop of           *)
(* services/jobs.py that drives them.  Every store operation is one or two *)
(* database transactions; each transaction is one action, and what several *)
(* workers, enqueuers and the clock do in between is left free.            *)
(*                                                                         *)
(* Time is abstracted to the two comparisons the code makes with it:       *)
(* lease[r] = "lapsed" is locked_until < now, and due[r] is                *)
(* next_retry_at IS NULL OR next_retry_at <= now.                          *)
(***************************************************************************)
EXTENDS Naturals, FiniteSets

CONSTANTS
  Run,         \* the ids job_runs rows may get (uuid4, never reused)
  Worker,      \* threads that execute process_queued_jobs
  Proc,        \* operating-system processes those threads belong to
  Client,      \* callers of enqueue_job
  Key,         \* concurrency keys (date-write:<date>, master-sync)
  Dedupe,      \* dedupe keys
  None,        \* SQL NULL / Python None
  ProcOf,      \* ProcOf[w]: the process of thread w; worker_id = host:pid
  KeyOf,       \* KeyOf[r]: concurrency_key of row r, None for refresh
  DedupeOf,    \* DedupeOf[r]: dedupe_key of row r
  MaxOf,       \* MaxOf[r]: max_attempts of row r
  PrioOf,      \* PrioOf[r]: priority of row r, smaller is sooner
  AttemptCap,  \* bound on attempt_count, only reached when zombies fail runs
  Faults       \* the failures that may happen, a subset of FaultKinds

(***************************************************************************)
(* crash    - a worker process dies between two transactions               *)
(* stall    - a live worker's lease runs out: its heartbeat thread died on *)
(*            a database error, or the process was suspended               *)
(* lockLoss - the connection holding the advisory lock is dropped          *)
(* dbError  - a store call raises and its transaction did not commit       *)
(* lostAck  - a store call raises although its transaction did commit      *)
(***************************************************************************)
FaultKinds == {"crash", "stall", "lockLoss", "dbError", "lostAck"}

ASSUME FaultsAssumption == Faults \subseteq FaultKinds
ASSUME NoneAssumption ==
  None \notin Run \union Worker \union Proc \union Key \union Dedupe
ASSUME AttributesAssumption ==
  /\ ProcOf \in [Worker -> Proc]
  /\ KeyOf \in [Run -> Key \union {None}]
  /\ DedupeOf \in [Run -> Dedupe]
  /\ MaxOf \in [Run -> Nat \ {0}]
  /\ PrioOf \in [Run -> Nat]
ASSUME RunAssumption == IsFiniteSet(Run)
ASSUME CapAssumption ==
  AttemptCap \in Nat /\ \A r \in Run : MaxOf[r] <= AttemptCap

VARIABLES
  \* job_runs
  status,    \* status column; "absent" before the INSERT, "purged" after DELETE
  attempts,  \* attempt_count
  owner,     \* worker_id
  lease,     \* locked_until: NULL, in the future, in the past
  due,       \* next_retry_at is NULL or has passed
  queuedAt,  \* rank of queued_at, 0 before the INSERT
  \* worker threads
  pc,        \* where in process_queued_jobs / _execute_job_run the thread is
  job,       \* the run it acquired
  conn,      \* its advisory-lock session: "none", "held" or "dead"
  seen,      \* attempt_count read by fail() in its first transaction
  retryable, \* _is_retryable_job_error of the exception being handled
  \* enqueuers
  want       \* the row a client found no duplicate for and is about to insert

rowVars    == <<status, attempts, owner, lease, due, queuedAt>>
workerVars == <<pc, job, conn, seen, retryable>>
vars       == <<rowVars, workerVars, want>>

Statuses == {"absent", "queued", "running", "succeeded", "failed", "purged"}
Active   == {"queued", "running"}
Terminal == {"succeeded", "failed"}

PCs == {"idle", "polling", "locking", "blocked", "body", "completing",
        "leaving", "unwinding", "failing", "writing"}
(* Between a successful pg_try_advisory_lock and the finally that unlocks. *)
InLock == {"body", "completing", "leaving", "unwinding"}

TypeOK ==
  /\ status \in [Run -> Statuses]
  /\ attempts \in [Run -> 0..AttemptCap]
  /\ owner \in [Run -> Proc \union {None}]
  /\ lease \in [Run -> {"none", "live", "lapsed"}]
  /\ due \in [Run -> BOOLEAN]
  /\ queuedAt \in [Run -> Nat]
  /\ pc \in [Worker -> PCs]
  /\ job \in [Worker -> Run \union {None}]
  /\ conn \in [Worker -> {"none", "held", "dead"}]
  /\ seen \in [Worker -> 0..AttemptCap]
  /\ retryable \in [Worker -> BOOLEAN]
  /\ want \in [Client -> Run \union {None}]

Init ==
  /\ status = [r \in Run |-> "absent"]
  /\ attempts = [r \in Run |-> 0]
  /\ owner = [r \in Run |-> None]
  /\ lease = [r \in Run |-> "none"]
  /\ due = [r \in Run |-> TRUE]
  /\ queuedAt = [r \in Run |-> 0]
  /\ pc = [w \in Worker |-> "idle"]
  /\ job = [w \in Worker |-> None]
  /\ conn = [w \in Worker |-> "none"]
  /\ seen = [w \in Worker |-> 0]
  /\ retryable = [w \in Worker |-> FALSE]
  /\ want = [c \in Client |-> None]

-----------------------------------------------------------------------------
(* Helpers over the table. *)

Exists(r) == status[r] \notin {"absent", "purged"}

(* Putting r in an active status would break the partial unique index      *)
(* ux_job_runs_active_dedupe_key.                                          *)
IndexConflict(r) ==
  \E q \in Run \ {r} : status[q] \in Active /\ DedupeOf[q] = DedupeOf[r]

(* Fault seeded by the mutants: only first attempts are candidates. *)
DueFirstAttempt(r) == status[r] = "queued" /\ due[r] /\ attempts[r] = 0

Due(r) == status[r] = "queued" /\ due[r]

(* r comes before q in ORDER BY priority ASC, queued_at ASC. *)
Before(r, q) ==
  \/ PrioOf[r] < PrioOf[q]
  \/ PrioOf[r] = PrioOf[q] /\ queuedAt[r] <= queuedAt[q]

Candidates == {r \in Run : Due(r) /\ \A q \in Run : Due(q) => Before(r, q)}

(* Fault seeded by the mutants: the lock is taken in shared mode. *)
LockFreeShared(k) == k \in Key

LockFree(k) ==
  \A w \in Worker : conn[w] = "held" => KeyOf[job[w]] # k

(* The thread returns to process_queued_jobs, or dies with an exception    *)
(* and is replaced by the next run-worker process.                         *)
GoIdle(w) ==
  /\ pc' = [pc EXCEPT ![w] = "idle"]
  /\ job' = [job EXCEPT ![w] = None]
  /\ conn' = [conn EXCEPT ![w] = "none"]
  /\ seen' = [seen EXCEPT ![w] = 0]
  /\ retryable' = [retryable EXCEPT ![w] = FALSE]

Goto(w, l) ==
  /\ pc' = [pc EXCEPT ![w] = l]
  /\ UNCHANGED <<job, conn, seen, retryable>>

(* The exception leaves the block that holds no advisory lock. *)
Raise(w, l) ==
  /\ pc' = [pc EXCEPT ![w] = l]
  /\ retryable' = [retryable EXCEPT ![w] = TRUE]
  /\ UNCHANGED <<job, conn, seen>>

-----------------------------------------------------------------------------
(* enqueue_job: duplicate lookup and INSERT are separate transactions. *)

(* The lookup that finds an active duplicate returns it and changes        *)
(* nothing; this is the one that finds none.                               *)
LookupNone(c, r) ==
  /\ want[c] = None
  /\ status[r] = "absent"
  /\ \A d \in Client : want[d] # r
  /\ ~IndexConflict(r)
  /\ want' = [want EXCEPT ![c] = r]
  /\ UNCHANGED <<rowVars, workerVars>>

(* Fault seeded by the mutants: the table has no partial unique index. *)
InsertNoIndex(c) ==
  /\ want[c] # None
  /\ LET r == want[c] IN
       /\ status' = [status EXCEPT ![r] = "queued"]
       /\ queuedAt' = [queuedAt EXCEPT ![r] =
                         1 + Cardinality({q \in Run : status[q] # "absent"})]
  /\ want' = [want EXCEPT ![c] = None]
  /\ UNCHANGED <<attempts, owner, lease, due, workerVars>>

Insert(c) ==
  /\ want[c] # None
  /\ ~IndexConflict(want[c])
  /\ LET r == want[c] IN
       /\ status' = [status EXCEPT ![r] = "queued"]
       /\ queuedAt' = [queuedAt EXCEPT ![r] =
                         1 + Cardinality({q \in Run : status[q] # "absent"})]
  /\ want' = [want EXCEPT ![c] = None]
  /\ UNCHANGED <<attempts, owner, lease, due, workerVars>>

(* The unique index rejects the row: the second lookup returns the winner, *)
(* or re-raises IntegrityError when the winner has finished meanwhile.     *)
InsertRejected(c) ==
  /\ want[c] # None
  /\ IndexConflict(want[c])
  /\ want' = [want EXCEPT ![c] = None]
  /\ UNCHANGED <<rowVars, workerVars>>

-----------------------------------------------------------------------------
(* acquire_next: recover_stale_runs commits first, then the candidate. *)

(* Faults seeded by the mutants: recovery does not look at locked_until; it *)
(* only takes rows without a worker.                                        *)
StaleAnyLease(r) == status[r] = "running"
StaleUnowned(r) == status[r] = "running" /\ lease[r] = "lapsed" /\ owner[r] = None

Stale(r) == status[r] = "running" /\ lease[r] = "lapsed"

Poll(w) ==
  /\ pc[w] = "idle"
  /\ status' = [r \in Run |-> IF Stale(r) THEN "queued" ELSE status[r]]
  /\ owner' = [r \in Run |-> IF Stale(r) THEN None ELSE owner[r]]
  /\ lease' = [r \in Run |-> IF Stale(r) THEN "none" ELSE lease[r]]
  /\ due' = [r \in Run |-> IF Stale(r) THEN TRUE ELSE due[r]]
  /\ Goto(w, "polling")
  /\ UNCHANGED <<attempts, queuedAt, want>>

(* Fault seeded by the mutants: acquiring counts as an attempt. *)
AcquireCounting(w, r) ==
  /\ pc[w] = "polling"
  /\ r \in Candidates
  /\ status' = [status EXCEPT ![r] = "running"]
  /\ attempts' = [attempts EXCEPT ![r] = @ + 1]
  /\ owner' = [owner EXCEPT ![r] = ProcOf[w]]
  /\ lease' = [lease EXCEPT ![r] = "live"]
  /\ pc' = [pc EXCEPT ![w] = "locking"]
  /\ job' = [job EXCEPT ![w] = r]
  /\ UNCHANGED <<due, queuedAt, conn, seen, retryable, want>>

Acquire(w, r) ==
  /\ pc[w] = "polling"
  /\ r \in Candidates
  /\ status' = [status EXCEPT ![r] = "running"]
  /\ owner' = [owner EXCEPT ![r] = ProcOf[w]]
  /\ lease' = [lease EXCEPT ![r] = "live"]
  /\ pc' = [pc EXCEPT ![w] = "locking"]
  /\ job' = [job EXCEPT ![w] = r]
  /\ UNCHANGED <<attempts, due, queuedAt, conn, seen, retryable, want>>

AcquireNone(w) ==
  /\ pc[w] = "polling"
  /\ Candidates = {}
  /\ GoIdle(w)
  /\ UNCHANGED <<rowVars, want>>

-----------------------------------------------------------------------------
(* _execute_job_run *)

TryLock(w) ==
  /\ pc[w] = "locking"
  /\ LET k == KeyOf[job[w]] IN
       \/ /\ k = None
          /\ Goto(w, "body")
       \/ /\ k # None /\ LockFree(k)
          /\ conn' = [conn EXCEPT ![w] = "held"]
          /\ pc' = [pc EXCEPT ![w] = "body"]
          /\ UNCHANGED <<job, seen, retryable>>
       \/ /\ k # None /\ ~LockFree(k)
          /\ Goto(w, "blocked")
  /\ UNCHANGED <<rowVars, want>>

LockError(w) ==
  /\ "dbError" \in Faults
  /\ pc[w] = "locking"
  /\ KeyOf[job[w]] # None
  /\ Raise(w, "failing")
  /\ UNCHANGED <<rowVars, want>>

(* Faults seeded by the mutants: the lease is left on the row; waiting for  *)
(* a lock uses up an attempt.                                               *)
PutBackLeased(r) ==
  /\ status' = [status EXCEPT ![r] = "queued"]
  /\ due' = [due EXCEPT ![r] = FALSE]
  /\ UNCHANGED <<attempts, owner, lease, queuedAt>>

PutBackCounting(r) ==
  /\ status' = [status EXCEPT ![r] = "queued"]
  /\ attempts' = [attempts EXCEPT ![r] = @ + 1]
  /\ owner' = [owner EXCEPT ![r] = None]
  /\ lease' = [lease EXCEPT ![r] = "none"]
  /\ due' = [due EXCEPT ![r] = FALSE]
  /\ UNCHANGED queuedAt

(* UPDATE ... WHERE id = :run_id, whatever the row's status or owner.  A   *)
(* purged row matches nothing.                                             *)
PutBack(r) ==
  IF Exists(r)
  THEN /\ status' = [status EXCEPT ![r] = "queued"]
       /\ owner' = [owner EXCEPT ![r] = None]
       /\ lease' = [lease EXCEPT ![r] = "none"]
       /\ due' = [due EXCEPT ![r] = FALSE]
       /\ UNCHANGED <<attempts, queuedAt>>
  ELSE UNCHANGED rowVars

(* Fault seeded by the mutants: the requeue is not subject to the index. *)
RequeueBlockedNoIndex(w) ==
  /\ pc[w] = "blocked"
  /\ PutBack(job[w])
  /\ GoIdle(w)
  /\ UNCHANGED want

RequeueBlocked(w) ==
  /\ pc[w] = "blocked"
  /\ ~IndexConflict(job[w])
  /\ PutBack(job[w])
  /\ GoIdle(w)
  /\ UNCHANGED want

RequeueError(w) ==
  /\ pc[w] = "blocked"
  /\ \/ IndexConflict(job[w]) /\ UNCHANGED rowVars
     \/ "dbError" \in Faults /\ UNCHANGED rowVars
     \/ "lostAck" \in Faults /\ ~IndexConflict(job[w]) /\ PutBack(job[w])
  /\ Raise(w, "failing")
  /\ UNCHANGED want

BodyReturns(w) ==
  /\ pc[w] = "body"
  /\ Goto(w, "completing")
  /\ UNCHANGED <<rowVars, want>>

(* The dispatched job raises: ValueError is not retryable. *)
BodyRaises(w, canRetry) ==
  /\ pc[w] = "body"
  /\ pc' = [pc EXCEPT ![w] = "unwinding"]
  /\ retryable' = [retryable EXCEPT ![w] = canRetry]
  /\ UNCHANGED <<job, conn, seen, rowVars, want>>

MarkSucceeded(r) ==
  IF Exists(r)
  THEN /\ status' = [status EXCEPT ![r] = "succeeded"]
       /\ lease' = [lease EXCEPT ![r] = "none"]
       /\ due' = [due EXCEPT ![r] = TRUE]
       /\ UNCHANGED <<attempts, owner, queuedAt>>
  ELSE UNCHANGED rowVars

Complete(w) ==
  /\ pc[w] = "completing"
  /\ MarkSucceeded(job[w])
  /\ Goto(w, "leaving")
  /\ UNCHANGED want

(* Fault seeded by the mutants: complete() reads the row back after its     *)
(* commit, and the read fails.                                              *)
CompleteErrorLate(w) ==
  /\ "dbError" \in Faults
  /\ pc[w] = "completing"
  /\ MarkSucceeded(job[w])
  /\ Raise(w, "unwinding")
  /\ UNCHANGED want

CompleteError(w) ==
  /\ pc[w] = "completing"
  /\ \/ "dbError" \in Faults /\ UNCHANGED rowVars
     \/ "lostAck" \in Faults /\ MarkSucceeded(job[w])
  /\ Raise(w, "unwinding")
  /\ UNCHANGED want

(* The finally of advisory_lock.  On a dead connection the unlock raises,  *)
(* and its exception replaces the one being handled, if any.               *)
Leave(w) ==
  /\ pc[w] = "leaving"
  /\ conn[w] # "dead"
  /\ GoIdle(w)
  /\ UNCHANGED <<rowVars, want>>

LeaveError(w) ==
  /\ pc[w] = "leaving"
  /\ conn[w] = "dead"
  /\ pc' = [pc EXCEPT ![w] = "failing"]
  /\ conn' = [conn EXCEPT ![w] = "none"]
  /\ retryable' = [retryable EXCEPT ![w] = TRUE]
  /\ UNCHANGED <<job, seen, rowVars, want>>

Unwind(w) ==
  /\ pc[w] = "unwinding"
  /\ pc' = [pc EXCEPT ![w] = "failing"]
  /\ conn' = [conn EXCEPT ![w] = "none"]
  /\ retryable' = [retryable EXCEPT ![w] = @ \/ conn[w] = "dead"]
  /\ UNCHANGED <<job, seen, rowVars, want>>

(* Fault seeded by the mutants: the attempt state is not read. *)
FailReadNothing(w) ==
  /\ pc[w] = "failing"
  /\ Exists(job[w])
  /\ seen' = [seen EXCEPT ![w] = 0]
  /\ pc' = [pc EXCEPT ![w] = "writing"]
  /\ UNCHANGED <<job, conn, retryable, rowVars, want>>

(* fail(): the attempt state is read in one transaction ... *)
FailRead(w) ==
  /\ pc[w] = "failing"
  /\ Exists(job[w])
  /\ seen' = [seen EXCEPT ![w] = attempts[job[w]]]
  /\ pc' = [pc EXCEPT ![w] = "writing"]
  /\ UNCHANGED <<job, conn, retryable, rowVars, want>>

(* Fault seeded by the mutants: off by one. *)
ShouldRetryOnceMore(w) == retryable[w] /\ seen[w] + 1 <= MaxOf[job[w]]

ShouldRetry(w) == retryable[w] /\ seen[w] + 1 < MaxOf[job[w]]

(* ... and the row is written, unconditionally by id, in another one. *)
FailWrite(w) ==
  /\ pc[w] = "writing"
  /\ Exists(job[w])
  /\ seen[w] < AttemptCap
  /\ ShouldRetry(w) => ~IndexConflict(job[w])
  /\ LET r == job[w] IN
       /\ status' = [status EXCEPT ![r] = IF ShouldRetry(w) THEN "queued"
                                                            ELSE "failed"]
       /\ attempts' = [attempts EXCEPT ![r] = seen[w] + 1]
       /\ owner' = [owner EXCEPT ![r] = None]
       /\ lease' = [lease EXCEPT ![r] = "none"]
       /\ due' = [due EXCEPT ![r] = ~ShouldRetry(w)]
  /\ GoIdle(w)
  /\ UNCHANGED <<queuedAt, want>>

(* fail() raises out of process_queued_jobs: the row was purged, the       *)
(* unique index rejects the requeue, or the database is unavailable.  An   *)
(* update of a purged row changes nothing and returns normally.            *)
FailGivesUp(w) ==
  /\ pc[w] \in {"failing", "writing"}
  /\ \/ ~Exists(job[w])
     \/ pc[w] = "writing" /\ ShouldRetry(w) /\ IndexConflict(job[w])
     \/ "dbError" \in Faults
  /\ GoIdle(w)
  /\ UNCHANGED <<rowVars, want>>

-----------------------------------------------------------------------------
(* Heartbeat thread, clock, failures, retention. *)

(* Fault seeded by the mutants: the heartbeat is not fenced by the status. *)
HeartbeatUnfenced(w) ==
  /\ pc[w] \in {"body", "completing"}
  /\ Exists(job[w])
  /\ lease' = [lease EXCEPT ![job[w]] = "live"]
  /\ UNCHANGED <<status, attempts, owner, due, queuedAt, workerVars, want>>

(* Fenced by status and worker_id, the only fenced write of the store.  It *)
(* is visible here only when the lease had already run out.                *)
Heartbeat(w) ==
  /\ pc[w] \in {"body", "completing"}
  /\ LET r == job[w] IN
       /\ status[r] = "running"
       /\ owner[r] = ProcOf[w]
       /\ lease[r] = "lapsed"
       /\ lease' = [lease EXCEPT ![r] = "live"]
  /\ UNCHANGED <<status, attempts, owner, due, queuedAt, workerVars, want>>

(* The heartbeat keeps the lease of a live worker, unless it stalls. *)
LeaseLapses(r) ==
  /\ status[r] = "running"
  /\ lease[r] = "live"
  /\ "stall" \in Faults \/ \A w \in Worker : job[w] # r
  /\ lease' = [lease EXCEPT ![r] = "lapsed"]
  /\ UNCHANGED <<status, attempts, owner, due, queuedAt, workerVars, want>>

RetryComesDue(r) ==
  /\ ~due[r]
  /\ due' = [due EXCEPT ![r] = TRUE]
  /\ UNCHANGED <<status, attempts, owner, lease, queuedAt, workerVars, want>>

LockConnectionDies(w) ==
  /\ "lockLoss" \in Faults
  /\ conn[w] = "held"
  /\ conn' = [conn EXCEPT ![w] = "dead"]
  /\ UNCHANGED <<pc, job, seen, retryable, rowVars, want>>

(* Every thread of the process vanishes; PostgreSQL ends its sessions and  *)
(* with them its advisory locks; the rows stay as they are.                *)
Crash(p) ==
  /\ "crash" \in Faults
  /\ \E w \in Worker : ProcOf[w] = p /\ pc[w] # "idle"
  /\ pc' = [w \in Worker |-> IF ProcOf[w] = p THEN "idle" ELSE pc[w]]
  /\ job' = [w \in Worker |-> IF ProcOf[w] = p THEN None ELSE job[w]]
  /\ conn' = [w \in Worker |-> IF ProcOf[w] = p THEN "none" ELSE conn[w]]
  /\ seen' = [w \in Worker |-> IF ProcOf[w] = p THEN 0 ELSE seen[w]]
  /\ retryable' = [w \in Worker |-> IF ProcOf[w] = p THEN FALSE
                                                     ELSE retryable[w]]
  /\ UNCHANGED <<rowVars, want>>

Purge(r) ==
  /\ status[r] \in Terminal
  /\ status' = [status EXCEPT ![r] = "purged"]
  /\ UNCHANGED <<attempts, owner, lease, due, queuedAt, workerVars, want>>

-----------------------------------------------------------------------------
(* What thread w does next, whichever way its calls turn out. *)
WorkerStep(w) ==
  \/ Poll(w) \/ (\E r \in Run : Acquire(w, r)) \/ AcquireNone(w)
  \/ TryLock(w) \/ LockError(w)
  \/ RequeueBlocked(w) \/ RequeueError(w)
  \/ BodyReturns(w) \/ (\E b \in BOOLEAN : BodyRaises(w, b))
  \/ Complete(w) \/ CompleteError(w)
  \/ Leave(w) \/ LeaveError(w) \/ Unwind(w)
  \/ FailRead(w) \/ FailWrite(w) \/ FailGivesUp(w)

ClientStep(c) ==
  \/ \E r \in Run : LookupNone(c, r)
  \/ Insert(c)
  \/ InsertRejected(c)

Next ==
  \/ \E c \in Client : ClientStep(c)
  \/ \E w \in Worker : WorkerStep(w) \/ Heartbeat(w) \/ LockConnectionDies(w)
  \/ \E r \in Run : LeaseLapses(r) \/ RetryComesDue(r) \/ Purge(r)
  \/ \E p \in Proc : Crash(p)

Spec == Init /\ [][Next]_vars

(* The cron starts a worker every minute and time passes; clients, crashes *)
(* and retention owe nothing.                                              *)
Fairness ==
  /\ \A w \in Worker : WF_vars(WorkerStep(w))
  /\ \A r \in Run : WF_vars(LeaseLapses(r)) /\ WF_vars(RetryComesDue(r))

FairSpec == Spec /\ Fairness
-----------------------------------------------------------------------------
(* Properties. *)

(* The date-write and master-sync locks exclude: two threads are never both *)
(* between lock and unlock of one concurrency key, as long as neither has   *)
(* lost the connection its lock lives on.  Leases play no part in this.     *)
MutualExclusion ==
  \A v, w \in Worker :
    /\ v # w
    /\ pc[v] \in InLock /\ pc[w] \in InLock
    /\ KeyOf[job[v]] # None
    /\ KeyOf[job[v]] = KeyOf[job[w]]
    => conn[v] = "dead" \/ conn[w] = "dead"

(* Racing enqueuers, retries and recoveries never leave two active rows    *)
(* with one dedupe key.                                                    *)
ActiveDedupeUnique ==
  \A r, q \in Run :
    /\ r # q
    /\ status[r] \in Active /\ status[q] \in Active
    => DedupeOf[r] # DedupeOf[q]

(* A running row always has a lease, so recover_stale_runs can find it (it *)
(* skips locked_until IS NULL); a queued one has neither lease nor owner.  *)
RunningIsRecoverable ==
  \A r \in Run :
    /\ status[r] = "running" => lease[r] # "none" /\ owner[r] # None
    /\ status[r] = "queued" => lease[r] = "none" /\ owner[r] = None

(* The faults under which the unfenced writes of the store are safe.       *)
Reliable == Faults \subseteq {"crash", "dbError"}

(* What the unfenced writes rely on: while a thread has a run in hand the   *)
(* row is running under its name and lease, until complete() commits.      *)
(* Two threads therefore never work on one run.                            *)
OwnsItsRun ==
  \A w \in Worker : job[w] # None =>
    /\ \A v \in Worker \ {w} : job[v] # job[w]
    /\ pc[w] # "leaving" =>
         /\ status[job[w]] = "running"
         /\ owner[job[w]] = ProcOf[w]
         /\ lease[job[w]] = "live"

(* A run that may still be executed has attempts left. *)
ActiveHasAttemptsLeft ==
  \A r \in Run : status[r] \in Active => attempts[r] < MaxOf[r]

(* succeeded and failed are final: only retention touches such a row.      *)
TerminalIsFinal ==
  [][\A r \in Run : status[r] \in Terminal
                      => status'[r] \in {status[r], "purged"}]_vars

(* Each failure is counted once: the split read and write of fail() loses  *)
(* no increment.                                                           *)
FailuresAreCounted ==
  [][\A w \in Worker : pc[w] = "writing" /\ FailWrite(w)
                         => attempts'[job[w]] = attempts[job[w]] + 1]_vars

(* Every accepted run settles if workers stop dying one day, though it may *)
(* be blocked by a lock, lose its worker, fail and be retried on the way.  *)
(* (A run that kills every worker is retried forever: a recovery does not  *)
(* count as an attempt.)  With nothing to do, or after complete(), a crash *)
(* is the same step as the normal return, which may well go on forever.    *)
Busy(w) == \/ pc[w] = "polling" /\ Candidates # {}
           \/ pc[w] \notin {"idle", "polling", "leaving"}
CrashesEnd == <>[][\A w \in Worker : Busy(w) => ~Crash(ProcOf[w])]_vars
QueuedRunsSettle ==
  CrashesEnd =>
    \A r \in Run : (status[r] = "queued") ~> (status[r] \in Terminal)

(* A run whose worker died does not stay running.                          *)
Orphaned(r) == status[r] = "running" /\ \A w \in Worker : job[w] # r
OrphansAreRecovered ==
  \A r \in Run : Orphaned(r) ~> ~Orphaned(r)

(* The queue implements JobLifecycle: duplicate submissions are refused,   *)
(* an attempt is charged for a failure and for nothing else.               *)
Lifecycle == INSTANCE JobLifecycle WITH
               Run <- Run, DedupeOf <- DedupeOf, MaxOf <- MaxOf,
               status <- status, attempts <- attempts
LifecycleSpec == Lifecycle!Spec
=============================================================================
