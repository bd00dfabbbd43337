--------------------------- MODULE JobQueueProofs ---------------------------
(***************************************************************************)
(* Proofs about JobQueue for every set of runs, workers and faults.        *)
(***************************************************************************)
EXTENDS JobQueue, FiniteSetTheorems, TLAPS

(* A thread has a run in hand exactly between acquire_next and its return. *)
RunInHand ==
  \A w \in Worker : (job[w] = None) <=> (pc[w] \in {"idle", "polling"})

(* Type correctness, with what makes it inductive: whoever reads a row by  *)
(* job[w] holds a real id, so fail() computes its attempt from a number.   *)
TypeInv == TypeOK /\ RunInHand

LEMMA QueuedAtType ==
  1 + Cardinality({q \in Run : status[q] # "absent"}) \in Nat
<1>1. IsFiniteSet({q \in Run : status[q] # "absent"})
  BY RunAssumption, FS_Subset
<1>. QED BY <1>1, FS_CardinalityType

LEMMA TypeInvInit == Init => TypeInv
BY NoneAssumption, CapAssumption DEF Init, TypeInv, TypeOK, RunInHand, Statuses, PCs

(* The enqueuers' steps. *)
LEMMA TypeInvClient ==
  ASSUME TypeInv, NEW c \in Client, ClientStep(c) PROVE TypeInv'
<1> USE NoneAssumption DEF TypeInv, TypeOK, RunInHand, rowVars, workerVars
<1>1. CASE \E r \in Run : LookupNone(c, r)
  BY <1>1 DEF LookupNone
<1>2. CASE Insert(c)
  <2>1. queuedAt' \in [Run -> Nat]
    BY <1>2, QueuedAtType DEF Insert
  <2>. QED BY <1>2, <2>1 DEF Insert, Statuses
<1>3. CASE InsertRejected(c)
  BY <1>3 DEF InsertRejected
<1>. QED BY <1>1, <1>2, <1>3 DEF ClientStep

(* The worker's steps, one by one. *)
LEMMA TypeInvWorker ==
  ASSUME TypeInv, NEW w \in Worker, WorkerStep(w) PROVE TypeInv'
<1> USE NoneAssumption, AttributesAssumption, CapAssumption
    DEF TypeInv, TypeOK, RunInHand, rowVars, workerVars, Statuses, PCs,
        GoIdle, Goto, Raise
<1>1. CASE Poll(w)
  BY <1>1 DEF Poll
<1>2. CASE \E r \in Run : Acquire(w, r)
  BY <1>2 DEF Acquire
<1>3. CASE AcquireNone(w)
  BY <1>3 DEF AcquireNone
<1>4. CASE TryLock(w)
  BY <1>4 DEF TryLock
<1>5. CASE LockError(w)
  BY <1>5 DEF LockError
<1>6. CASE RequeueBlocked(w)
  <2>1. /\ status' \in [Run -> Statuses]
        /\ owner' \in [Run -> Proc \union {None}]
        /\ lease' \in [Run -> {"none", "live", "lapsed"}]
        /\ due' \in [Run -> BOOLEAN]
        /\ UNCHANGED <<attempts, queuedAt>>
    BY <1>6 DEF RequeueBlocked, PutBack
  <2>. QED BY <1>6, <2>1 DEF RequeueBlocked
<1>7. CASE RequeueError(w)
  BY <1>7 DEF RequeueError, PutBack
<1>8. CASE BodyReturns(w)
  BY <1>8 DEF BodyReturns
<1>9. CASE \E b \in BOOLEAN : BodyRaises(w, b)
  BY <1>9 DEF BodyRaises
<1>10. CASE Complete(w)
  BY <1>10 DEF Complete, MarkSucceeded
<1>11. CASE CompleteError(w)
  BY <1>11 DEF CompleteError, MarkSucceeded
<1>12. CASE Leave(w)
  BY <1>12 DEF Leave
<1>13. CASE LeaveError(w)
  BY <1>13 DEF LeaveError
<1>14. CASE Unwind(w)
  BY <1>14 DEF Unwind
<1>15. CASE FailRead(w)
  BY <1>15 DEF FailRead
<1>16. CASE FailWrite(w)
  BY <1>16 DEF FailWrite, ShouldRetry
<1>17. CASE FailGivesUp(w)
  BY <1>17 DEF FailGivesUp
<1>. QED BY <1>1, <1>2, <1>3, <1>4, <1>5, <1>6, <1>7, <1>8, <1>9, <1>10,
            <1>11, <1>12, <1>13, <1>14, <1>15, <1>16, <1>17 DEF WorkerStep

LEMMA TypeInvStep == TypeInv /\ [Next]_vars => TypeInv'
<1>1. ASSUME TypeInv, [Next]_vars PROVE TypeInv'
  <2> USE <1>1, NoneAssumption
      DEF TypeInv, TypeOK, RunInHand, rowVars, workerVars, Statuses, PCs
  <2>1. ASSUME NEW w \in Worker, Heartbeat(w) PROVE TypeInv'
    BY <2>1 DEF Heartbeat
  <2>2. ASSUME NEW w \in Worker, LockConnectionDies(w) PROVE TypeInv'
    BY <2>2 DEF LockConnectionDies
  <2>3. ASSUME NEW r \in Run, LeaseLapses(r) PROVE TypeInv'
    BY <2>3 DEF LeaseLapses
  <2>4. ASSUME NEW r \in Run, RetryComesDue(r) PROVE TypeInv'
    BY <2>4 DEF RetryComesDue
  <2>5. ASSUME NEW r \in Run, Purge(r) PROVE TypeInv'
    BY <2>5 DEF Purge
  <2>6. ASSUME NEW p \in Proc, Crash(p) PROVE TypeInv'
    <3>1. UNCHANGED <<rowVars, want>>
      BY <2>6 DEF Crash
    <3>2. /\ pc' \in [Worker -> PCs]
          /\ job' \in [Worker -> Run \union {None}]
          /\ conn' \in [Worker -> {"none", "held", "dead"}]
      BY <2>6 DEF Crash
    <3>3. seen' \in [Worker -> 0..AttemptCap]
      BY <2>6, CapAssumption DEF Crash
    <3>4. retryable' \in [Worker -> BOOLEAN]
      BY <2>6 DEF Crash
    <3>5. RunInHand'
      BY <2>6 DEF Crash
    <3>. QED BY <3>1, <3>2, <3>3, <3>4, <3>5
  <2>7. CASE UNCHANGED vars
    BY <2>7 DEF vars
  <2> HIDE DEF TypeInv
  <2>. QED BY <1>1, <2>1, <2>2, <2>3, <2>4, <2>5, <2>6, <2>7,
              TypeInvClient, TypeInvWorker DEF Next
<1>. QED BY <1>1

LEMMA TypeInvariant == Spec => []TypeInv
BY TypeInvInit, TypeInvStep, PTL DEF Spec

(* Every column and every thread variable keeps its type, and a thread     *)
(* that works has a run in hand: fail() and the lock release never compute *)
(* from a row or an attempt count that is not there.                       *)
THEOREM TypeCorrect == Spec => []TypeOK
<1>1. TypeInv => TypeOK
  BY DEF TypeInv
<1>. QED BY <1>1, TypeInvariant, PTL

-----------------------------------------------------------------------------
(* The advisory locks. *)

(* Holding a lock session and being inside the lock are the same thing for *)
(* a keyed run, and no two live sessions hold one key.                      *)
LockInv ==
  /\ \A w \in Worker :
       pc[w] \in InLock /\ KeyOf[job[w]] # None => conn[w] # "none"
  /\ \A w \in Worker : conn[w] # "none" => pc[w] \in InLock
  /\ \A v, w \in Worker :
       v # w /\ conn[v] = "held" /\ conn[w] = "held"
       => KeyOf[job[v]] # KeyOf[job[w]]

LEMMA LockInvInit == Init => LockInv
BY DEF Init, LockInv, InLock

LEMMA LockInvWorker ==
  ASSUME TypeInv, LockInv, NEW w \in Worker, WorkerStep(w) PROVE LockInv'
<1> USE DEF TypeInv, TypeOK, RunInHand, LockInv, InLock, GoIdle, Goto, Raise
<1>1. CASE Poll(w)
  BY <1>1 DEF Poll
<1>2. CASE \E r \in Run : Acquire(w, r)
  BY <1>2 DEF Acquire
<1>3. CASE AcquireNone(w)
  BY <1>3 DEF AcquireNone
<1>4. CASE TryLock(w)
  BY <1>4 DEF TryLock, LockFree
<1>5. CASE LockError(w)
  BY <1>5 DEF LockError
<1>6. CASE RequeueBlocked(w)
  BY <1>6 DEF RequeueBlocked
<1>7. CASE RequeueError(w)
  BY <1>7 DEF RequeueError
<1>8. CASE BodyReturns(w)
  BY <1>8 DEF BodyReturns
<1>9. CASE \E b \in BOOLEAN : BodyRaises(w, b)
  BY <1>9 DEF BodyRaises
<1>10. CASE Complete(w)
  BY <1>10 DEF Complete
<1>11. CASE CompleteError(w)
  BY <1>11 DEF CompleteError
<1>12. CASE Leave(w)
  BY <1>12 DEF Leave
<1>13. CASE LeaveError(w)
  BY <1>13 DEF LeaveError
<1>14. CASE Unwind(w)
  BY <1>14 DEF Unwind
<1>15. CASE FailRead(w)
  BY <1>15 DEF FailRead
<1>16. CASE FailWrite(w)
  BY <1>16 DEF FailWrite
<1>17. CASE FailGivesUp(w)
  BY <1>17 DEF FailGivesUp
<1>. QED BY <1>1, <1>2, <1>3, <1>4, <1>5, <1>6, <1>7, <1>8, <1>9, <1>10,
            <1>11, <1>12, <1>13, <1>14, <1>15, <1>16, <1>17 DEF WorkerStep

LEMMA LockInvStep == TypeInv /\ LockInv /\ [Next]_vars => LockInv'
<1>1. ASSUME TypeInv, LockInv, [Next]_vars PROVE LockInv'
  <2>1. ASSUME UNCHANGED workerVars PROVE LockInv'
    BY <1>1, <2>1 DEF LockInv, workerVars
  <2>2. ASSUME NEW c \in Client, ClientStep(c) PROVE UNCHANGED workerVars
    BY <2>2 DEF ClientStep, LookupNone, Insert, InsertRejected
  <2>3. ASSUME NEW w \in Worker, Heartbeat(w) PROVE UNCHANGED workerVars
    BY <2>3 DEF Heartbeat
  <2>4. ASSUME NEW r \in Run, LeaseLapses(r) \/ RetryComesDue(r) \/ Purge(r)
        PROVE UNCHANGED workerVars
    BY <2>4 DEF LeaseLapses, RetryComesDue, Purge
  <2>5. ASSUME NEW w \in Worker, LockConnectionDies(w) PROVE LockInv'
    BY <1>1, <2>5 DEF LockConnectionDies, LockInv, TypeInv, TypeOK
  <2>6. ASSUME NEW p \in Proc, Crash(p) PROVE LockInv'
    <3>1. \A v \in Worker :
             \/ pc'[v] = pc[v] /\ job'[v] = job[v] /\ conn'[v] = conn[v]
             \/ pc'[v] = "idle" /\ conn'[v] = "none"
      BY <1>1, <2>6 DEF Crash, TypeInv, TypeOK
    <3>. QED BY <1>1, <3>1 DEF LockInv, InLock
  <2>7. CASE UNCHANGED vars
    BY <2>1, <2>7 DEF vars
  <2>. QED BY <1>1, <2>1, <2>2, <2>3, <2>4, <2>5, <2>6, <2>7, LockInvWorker
           DEF Next
<1>. QED BY <1>1

LEMMA LockInvExcludes == TypeInv /\ LockInv => MutualExclusion
BY DEF TypeInv, TypeOK, LockInv, MutualExclusion

(* At any moment at most one thread whose lock connection is alive is      *)
(* inside a concurrency key, whatever leases, crashes and errors do.       *)
THEOREM Exclusion == Spec => []MutualExclusion
BY TypeInvariant, LockInvInit, LockInvStep, LockInvExcludes, PTL DEF Spec

-----------------------------------------------------------------------------
(* The rows. *)

(* An id not yet inserted has the NULLs its INSERT will leave. *)
AbsentIsBlank ==
  \A r \in Run : status[r] = "absent" => owner[r] = None /\ lease[r] = "none"

RowInv == RunningIsRecoverable /\ ActiveDedupeUnique /\ AbsentIsBlank

LEMMA RowInvInit == Init => RowInv
BY DEF Init, RowInv, RunningIsRecoverable, ActiveDedupeUnique, Active,
       AbsentIsBlank

(* A row a client is about to insert is nobody else's and not there yet. *)
WantInv ==
  \A c \in Client : want[c] # None =>
    /\ status[want[c]] = "absent"
    /\ \A d \in Client \ {c} : want[d] # want[c]

LEMMA AbsentStays ==
  ASSUME TypeInv, NEW w \in Worker, WorkerStep(w)
  PROVE  /\ want' = want
         /\ \A r \in Run : status[r] = "absent" => status'[r] = "absent"
<1> USE DEF TypeInv, TypeOK
<1>0. ASSUME NEW q \in Run \union {None}, PutBack(q) \/ MarkSucceeded(q)
      PROVE  \A r \in Run : status[r] = "absent" => status'[r] = "absent"
  BY <1>0 DEF PutBack, MarkSucceeded, Exists, rowVars
<1>1. CASE Poll(w)
  BY <1>1 DEF Poll, Stale
<1>2. CASE \E q \in Run : Acquire(w, q)
  BY <1>2 DEF Acquire, Candidates, Due
<1>3. CASE RequeueBlocked(w) \/ RequeueError(w)
  BY <1>0, <1>3 DEF RequeueBlocked, RequeueError, rowVars
<1>4. CASE Complete(w) \/ CompleteError(w)
  BY <1>0, <1>4 DEF Complete, CompleteError, rowVars
<1>5. CASE FailWrite(w)
  BY <1>5 DEF FailWrite, Exists
<1>6. CASE AcquireNone(w) \/ TryLock(w) \/ LockError(w) \/ BodyReturns(w)
           \/ (\E b \in BOOLEAN : BodyRaises(w, b))
  BY <1>6 DEF AcquireNone, TryLock, LockError, BodyReturns, BodyRaises, rowVars
<1>7. CASE Leave(w) \/ LeaveError(w) \/ Unwind(w) \/ FailRead(w)
           \/ FailGivesUp(w)
  BY <1>7 DEF Leave, LeaveError, Unwind, FailRead, FailGivesUp, rowVars
<1>. QED BY <1>1, <1>2, <1>3, <1>4, <1>5, <1>6, <1>7 DEF WorkerStep

LEMMA WantInvInit == Init => WantInv
BY DEF Init, WantInv

LEMMA WantInvStep == TypeInv /\ WantInv /\ [Next]_vars => WantInv'
<1>1. ASSUME TypeInv, WantInv, [Next]_vars PROVE WantInv'
  <2>1. ASSUME NEW c \in Client, ClientStep(c) PROVE WantInv'
    <3>1. CASE \E r \in Run : LookupNone(c, r)
      BY <1>1, <3>1 DEF LookupNone, WantInv, TypeInv, TypeOK, rowVars
    <3>2. CASE Insert(c) \/ InsertRejected(c)
      BY <1>1, <3>2 DEF Insert, InsertRejected, WantInv, TypeInv, TypeOK, rowVars
    <3>. QED BY <2>1, <3>1, <3>2 DEF ClientStep
  <2>2. ASSUME want' = want,
               \A r \in Run : status[r] = "absent" => status'[r] = "absent"
        PROVE  WantInv'
    BY <1>1, <2>2 DEF WantInv, TypeInv, TypeOK
  <2>3. ASSUME NEW w \in Worker, WorkerStep(w) PROVE WantInv'
    BY <1>1, <2>2, <2>3, AbsentStays
  <2>4. ASSUME NEW w \in Worker, Heartbeat(w) \/ LockConnectionDies(w)
        PROVE  WantInv'
    BY <2>2, <2>4 DEF Heartbeat, LockConnectionDies, rowVars
  <2>5. ASSUME NEW r \in Run, LeaseLapses(r) \/ RetryComesDue(r)
        PROVE  WantInv'
    BY <2>2, <2>5 DEF LeaseLapses, RetryComesDue
  <2>6. ASSUME NEW r \in Run, Purge(r) PROVE WantInv'
    BY <1>1, <2>2, <2>6 DEF Purge, Terminal, TypeInv, TypeOK
  <2>7. CASE (\E p \in Proc : Crash(p)) \/ UNCHANGED vars
    BY <2>2, <2>7 DEF Crash, rowVars, vars
  <2>. QED BY <1>1, <2>1, <2>3, <2>4, <2>5, <2>6, <2>7 DEF Next
<1>. QED BY <1>1

(* A step on one row r keeps RowInv if r ends up consistent, and may turn  *)
(* active only where the unique index admits it.                           *)
LEMMA RowInvOneRow ==
  ASSUME TypeInv, RowInv, NEW r \in Run,
         \A q \in Run \ {r} : /\ status'[q] = status[q]
                              /\ owner'[q] = owner[q]
                              /\ lease'[q] = lease[q],
         status'[r] # "absent",
         status'[r] = "running" => lease'[r] # "none" /\ owner'[r] # None,
         status'[r] = "queued" => lease'[r] = "none" /\ owner'[r] = None,
         status'[r] \in Active => status[r] \in Active \/ ~IndexConflict(r)
  PROVE  RowInv'
<1>1. RunningIsRecoverable'
  BY DEF RowInv, RunningIsRecoverable
<1>2. ActiveDedupeUnique'
  BY DEF RowInv, ActiveDedupeUnique, IndexConflict
<1>3. AbsentIsBlank'
  BY DEF RowInv, AbsentIsBlank
<1>. QED BY <1>1, <1>2, <1>3 DEF RowInv

LEMMA RowInvWorker ==
  ASSUME TypeInv, RowInv, NEW w \in Worker, WorkerStep(w) PROVE RowInv'
<1>0. /\ job[w] \in Run \union {None}
      /\ pc[w] \notin {"idle", "polling"} => job[w] \in Run
  BY DEF TypeInv, TypeOK, RunInHand
<1>1. ASSUME UNCHANGED rowVars PROVE RowInv'
  BY <1>1 DEF rowVars, RowInv, RunningIsRecoverable, ActiveDedupeUnique,
              AbsentIsBlank
<1>2. CASE Poll(w)
  <2>1. RunningIsRecoverable'
    BY <1>2 DEF Poll, Stale, RowInv, RunningIsRecoverable, TypeInv, TypeOK
  <2>2. \A r \in Run : status'[r] \in Active => status[r] \in Active
    BY <1>2 DEF Poll, Stale, Active, TypeInv, TypeOK
  <2>3. AbsentIsBlank'
    BY <1>2 DEF Poll, Stale, RowInv, AbsentIsBlank, TypeInv, TypeOK
  <2>. QED BY <2>1, <2>2, <2>3 DEF RowInv, ActiveDedupeUnique
<1>3. ASSUME NEW r \in Run, Acquire(w, r) PROVE RowInv'
  <2>1. ProcOf[w] # None
    BY NoneAssumption, AttributesAssumption
  <2>2. status[r] \in Active
    BY <1>3 DEF Acquire, Candidates, Due, Active
  <2>. QED BY <1>3, <2>1, <2>2, RowInvOneRow DEF Acquire, TypeInv, TypeOK
<1>4. ASSUME job[w] \in Run, ~IndexConflict(job[w]), PutBack(job[w])
      PROVE RowInv'
  <2>1. CASE Exists(job[w])
    BY <1>4, <2>1, RowInvOneRow DEF PutBack, TypeInv, TypeOK
  <2>. QED BY <1>1, <1>4, <2>1 DEF PutBack
<1>5. ASSUME job[w] \in Run, MarkSucceeded(job[w]) PROVE RowInv'
  <2>1. CASE Exists(job[w])
    BY <1>5, <2>1, RowInvOneRow DEF MarkSucceeded, TypeInv, TypeOK, Active
  <2>. QED BY <1>1, <1>5, <2>1 DEF MarkSucceeded
<1>6. CASE FailWrite(w)
  <2>1. ShouldRetry(w) => ~IndexConflict(job[w])
    BY <1>6 DEF FailWrite
  <2>. QED BY <1>0, <1>6, <2>1, RowInvOneRow
           DEF FailWrite, TypeInv, TypeOK, Active
<1>7. CASE RequeueBlocked(w) \/ RequeueError(w)
  BY <1>0, <1>1, <1>4, <1>7 DEF RequeueBlocked, RequeueError
<1>8. CASE Complete(w) \/ CompleteError(w)
  BY <1>0, <1>1, <1>5, <1>8 DEF Complete, CompleteError
<1>9. CASE AcquireNone(w) \/ TryLock(w) \/ LockError(w) \/ BodyReturns(w)
           \/ (\E b \in BOOLEAN : BodyRaises(w, b))
  BY <1>1, <1>9 DEF AcquireNone, TryLock, LockError, BodyReturns, BodyRaises, rowVars
<1>10. CASE Leave(w) \/ LeaveError(w) \/ Unwind(w) \/ FailRead(w)
            \/ FailGivesUp(w)
  BY <1>1, <1>10 DEF Leave, LeaveError, Unwind, FailRead, FailGivesUp, rowVars
<1>. QED BY <1>2, <1>3, <1>6, <1>7, <1>8, <1>9, <1>10 DEF WorkerStep

LEMMA RowInvStep == TypeInv /\ WantInv /\ RowInv /\ [Next]_vars => RowInv'
<1>1. ASSUME TypeInv, WantInv, RowInv, [Next]_vars PROVE RowInv'
  <2>0. ASSUME UNCHANGED <<status, owner, lease>> PROVE RowInv'
    BY <1>1, <2>0 DEF RowInv, RunningIsRecoverable, ActiveDedupeUnique,
                      AbsentIsBlank
  <2>1. ASSUME NEW c \in Client, ClientStep(c) PROVE RowInv'
    <3>1. CASE Insert(c)
      <4>1. want[c] \in Run
        BY <1>1, <3>1 DEF Insert, TypeInv, TypeOK
      <4>2. status[want[c]] = "absent"
        BY <1>1, <3>1 DEF Insert, WantInv
      <4>. QED BY <1>1, <3>1, <4>1, <4>2, RowInvOneRow
               DEF Insert, TypeInv, TypeOK, RowInv, AbsentIsBlank
    <3>2. CASE (\E r \in Run : LookupNone(c, r)) \/ InsertRejected(c)
      BY <2>0, <3>2 DEF LookupNone, InsertRejected, rowVars
    <3>. QED BY <2>1, <3>1, <3>2 DEF ClientStep
  <2>2. ASSUME NEW w \in Worker, Heartbeat(w) PROVE RowInv'
    <3>1. job[w] \in Run
      BY <1>1, <2>2 DEF Heartbeat, TypeInv, TypeOK, RunInHand
    <3>. QED BY <1>1, <2>2, <3>1, RowInvOneRow
             DEF Heartbeat, TypeInv, TypeOK, Active, RowInv, RunningIsRecoverable
  <2>3. ASSUME NEW r \in Run, LeaseLapses(r) PROVE RowInv'
    BY <1>1, <2>3, RowInvOneRow
       DEF LeaseLapses, TypeInv, TypeOK, Active, RowInv, RunningIsRecoverable
  <2>4. ASSUME NEW r \in Run, Purge(r) PROVE RowInv'
    BY <1>1, <2>4, RowInvOneRow DEF Purge, TypeInv, TypeOK, Active
  <2>5. ASSUME \/ \E r \in Run : RetryComesDue(r)
               \/ \E w \in Worker : LockConnectionDies(w)
               \/ \E p \in Proc : Crash(p)
               \/ UNCHANGED vars
        PROVE RowInv'
    BY <2>0, <2>5 DEF RetryComesDue, LockConnectionDies, Crash, rowVars, vars
  <2>. QED BY <1>1, <2>1, <2>2, <2>3, <2>4, <2>5, RowInvWorker DEF Next
<1>. QED BY <1>1

LEMMA RowInvariant == Spec => []RowInv
BY TypeInvariant, WantInvInit, WantInvStep, RowInvInit, RowInvStep, PTL DEF Spec

(* No order of enqueues, retries, requeues and recoveries leaves two       *)
(* active rows of one dedupe key.                                          *)
THEOREM DedupeHolds == Spec => []ActiveDedupeUnique
<1>1. RowInv => ActiveDedupeUnique
  BY DEF RowInv
<1>. QED BY <1>1, RowInvariant, PTL

(* No crash or fault leaves a running row that recover_stale_runs would    *)
(* never find: it has a lease to lapse and an owner to take it from.       *)
THEOREM OrphansAreVisible == Spec => []RunningIsRecoverable
<1>1. RowInv => RunningIsRecoverable
  BY DEF RowInv
<1>. QED BY <1>1, RowInvariant, PTL

-----------------------------------------------------------------------------
(* Workers that keep their leases and lock connections. *)

(* Ownership of the run in hand, with what the leave and fail steps need:   *)
(* complete() has committed before the unlock, the attempt count read by   *)
(* fail() is current, and the lock connection is alive.                     *)
OwnInv ==
  /\ OwnsItsRun
  /\ \A w \in Worker :
       /\ conn[w] # "dead"
       /\ pc[w] = "leaving" => status[job[w]] \in {"succeeded", "purged"}
       /\ pc[w] = "writing" => seen[w] = attempts[job[w]]

(* Attempts are left for every row that is or may become active. *)
AttemptsInv ==
  /\ ActiveHasAttemptsLeft
  /\ \A r \in Run : status[r] = "absent" => attempts[r] = 0

LEMMA OwnInvInit == Init => OwnInv
BY DEF Init, OwnInv, OwnsItsRun

LEMMA OwnInvWorker ==
  ASSUME Reliable, TypeInv, OwnInv, NEW w \in Worker, WorkerStep(w)
  PROVE  OwnInv'
<1> USE DEF TypeInv, TypeOK, RunInHand, OwnInv, OwnsItsRun, GoIdle, Goto, Raise
<1>1. CASE Poll(w)
  BY <1>1 DEF Poll, Stale
<1>2. CASE \E r \in Run : Acquire(w, r)
  <2>1. PICK r \in Run : Acquire(w, r)
    BY <1>2
  <2>2. \A v \in Worker : job[v] # r
    BY <2>1, NoneAssumption DEF Acquire, Candidates, Due
  <2>3. /\ \A v \in Worker \ {w} : job'[v] = job[v] /\ pc'[v] = pc[v]
        /\ job'[w] = r /\ pc'[w] = "locking"
        /\ status'[r] = "running" /\ owner'[r] = ProcOf[w] /\ lease'[r] = "live"
        /\ \A q \in Run \ {r} : /\ status'[q] = status[q]
                                /\ owner'[q] = owner[q]
                                /\ lease'[q] = lease[q]
        /\ UNCHANGED <<attempts, conn, seen>>
    BY <2>1 DEF Acquire
  <2>. QED BY <2>2, <2>3
<1>3. CASE AcquireNone(w)
  BY <1>3 DEF AcquireNone, rowVars
<1>4. CASE TryLock(w)
  BY <1>4 DEF TryLock, rowVars
<1>5. CASE LockError(w)
  BY <1>5 DEF LockError, rowVars
<1>6. CASE RequeueBlocked(w)
  BY <1>6 DEF RequeueBlocked, PutBack, rowVars
<1>7. CASE RequeueError(w)
  BY <1>7 DEF RequeueError, Reliable, rowVars
<1>8. CASE BodyReturns(w)
  BY <1>8 DEF BodyReturns, rowVars
<1>9. CASE \E b \in BOOLEAN : BodyRaises(w, b)
  BY <1>9 DEF BodyRaises, rowVars
<1>10. CASE Complete(w)
  BY <1>10 DEF Complete, MarkSucceeded, Exists
<1>11. CASE CompleteError(w)
  BY <1>11 DEF CompleteError, Reliable, rowVars
<1>12. CASE Leave(w)
  BY <1>12 DEF Leave, rowVars
<1>13. CASE LeaveError(w)
  BY <1>13 DEF LeaveError, rowVars
<1>14. CASE Unwind(w)
  BY <1>14 DEF Unwind, rowVars
<1>15. CASE FailRead(w)
  BY <1>15 DEF FailRead, rowVars
<1>16. CASE FailWrite(w)
  BY <1>16 DEF FailWrite
<1>17. CASE FailGivesUp(w)
  BY <1>17 DEF FailGivesUp, rowVars
<1>. QED BY <1>1, <1>2, <1>3, <1>4, <1>5, <1>6, <1>7, <1>8, <1>9, <1>10,
            <1>11, <1>12, <1>13, <1>14, <1>15, <1>16, <1>17 DEF WorkerStep

LEMMA OwnInvStep ==
  Reliable /\ TypeInv /\ WantInv /\ OwnInv /\ [Next]_vars => OwnInv'
<1>1. ASSUME Reliable, TypeInv, WantInv, OwnInv, [Next]_vars PROVE OwnInv'
  <2> USE <1>1 DEF TypeInv, TypeOK, RunInHand, OwnInv, OwnsItsRun
  <2>1. ASSUME NEW c \in Client, ClientStep(c) PROVE OwnInv'
    <3>1. CASE Insert(c)
      <4>1. /\ want[c] \in Run
            /\ status[want[c]] = "absent"
        BY <3>1 DEF Insert, WantInv
      <4>2. \A w \in Worker : job[w] # want[c]
        BY <4>1, NoneAssumption
      <4>. QED BY <3>1, <4>1, <4>2 DEF Insert, workerVars
    <3>2. CASE (\E r \in Run : LookupNone(c, r)) \/ InsertRejected(c)
      BY <3>2 DEF LookupNone, InsertRejected, rowVars, workerVars
    <3>. QED BY <2>1, <3>1, <3>2 DEF ClientStep
  <2>2. ASSUME NEW w \in Worker, Heartbeat(w) PROVE OwnInv'
    BY <2>2 DEF Heartbeat, workerVars
  <2>3. ASSUME NEW w \in Worker, LockConnectionDies(w) PROVE OwnInv'
    BY <2>3 DEF LockConnectionDies, Reliable
  <2>4. ASSUME NEW r \in Run, LeaseLapses(r) PROVE OwnInv'
    BY <2>4 DEF LeaseLapses, Reliable, workerVars
  <2>5. ASSUME NEW r \in Run, RetryComesDue(r) PROVE OwnInv'
    BY <2>5 DEF RetryComesDue, workerVars
  <2>6. ASSUME NEW r \in Run, Purge(r) PROVE OwnInv'
    BY <2>6 DEF Purge, Terminal, workerVars
  <2>7. ASSUME NEW p \in Proc, Crash(p) PROVE OwnInv'
    <3>1. \A v \in Worker :
             \/ /\ pc'[v] = pc[v] /\ job'[v] = job[v] /\ conn'[v] = conn[v]
                /\ seen'[v] = seen[v]
             \/ pc'[v] = "idle" /\ job'[v] = None /\ conn'[v] = "none"
      BY <2>7 DEF Crash
    <3>. QED BY <2>7, <3>1 DEF Crash, rowVars
  <2>8. CASE UNCHANGED vars
    BY <2>8 DEF vars, rowVars, workerVars
  <2> HIDE DEF TypeInv, OwnInv
  <2>. QED BY <2>1, <2>2, <2>3, <2>4, <2>5, <2>6, <2>7, <2>8, OwnInvWorker
           DEF Next
<1>. QED BY <1>1

(* Without stalled leases, lost lock connections or lost acknowledgements, *)
(* a run is in the hands of one thread at most, which owns its row.        *)
THEOREM Ownership ==
  ASSUME Reliable PROVE Spec => []OwnsItsRun
<1>1. TypeInv /\ WantInv /\ OwnInv /\ [Next]_vars => OwnInv'
  BY OwnInvStep, Reliable
<1>2. OwnInv => OwnsItsRun
  BY DEF OwnInv
<1>. QED BY <1>1, <1>2, TypeInvariant, WantInvInit, WantInvStep, OwnInvInit,
            PTL DEF Spec

(* Under the same conditions the two transactions of fail() lose no        *)
(* increment: the count it writes is one more than the count of the row.   *)
THEOREM EachFailureCounts ==
  ASSUME Reliable PROVE Spec => FailuresAreCounted
<1>1. TypeInv /\ WantInv /\ OwnInv /\ [Next]_vars => OwnInv'
  BY OwnInvStep, Reliable
<1>2. TypeInv /\ OwnInv
      => \A w \in Worker : pc[w] = "writing" /\ FailWrite(w)
                           => attempts'[job[w]] = attempts[job[w]] + 1
  <2>1. SUFFICES ASSUME TypeInv, OwnInv, NEW w \in Worker, pc[w] = "writing",
                        FailWrite(w)
                 PROVE  attempts'[job[w]] = attempts[job[w]] + 1
    OBVIOUS
  <2>2. job[w] \in Run /\ seen[w] = attempts[job[w]]
    BY <2>1 DEF TypeInv, TypeOK, RunInHand, OwnInv
  <2>. QED BY <2>1, <2>2 DEF FailWrite, TypeInv, TypeOK
<1>3. TypeInv /\ OwnInv
      => [\A w \in Worker : pc[w] = "writing" /\ FailWrite(w)
                            => attempts'[job[w]] = attempts[job[w]] + 1]_vars
  BY <1>2
<1>. QED BY <1>1, <1>3, TypeInvariant, WantInvInit, WantInvStep, OwnInvInit,
            PTL DEF Spec, FailuresAreCounted

-----------------------------------------------------------------------------
(* The queue implements the lifecycle it promises. *)

LEMMA AttemptsInvInit == Init => AttemptsInv
BY AttributesAssumption
   DEF Init, AttemptsInv, ActiveHasAttemptsLeft, Active

(* Every transaction is one lifecycle step or none. *)
LEMMA WorkerStepRefines ==
  ASSUME Reliable, TypeInv, OwnInv, AttemptsInv,
         NEW w \in Worker, WorkerStep(w)
  PROVE  Lifecycle!Next \/ UNCHANGED <<status, attempts>>
<1>0. job[w] # None =>
        /\ job[w] \in Run
        /\ pc[w] # "leaving" => status[job[w]] = "running"
        /\ pc[w] = "writing" => seen[w] = attempts[job[w]]
  BY DEF TypeInv, TypeOK, OwnInv, OwnsItsRun
<1>1. CASE Poll(w)
  <2>1. Lifecycle!HandBack({r \in Run : Stale(r)})
    BY <1>1 DEF Poll, Stale, Lifecycle!HandBack
  <2>. QED BY <2>1 DEF Lifecycle!Next
<1>2. CASE \E r \in Run : Acquire(w, r)
  BY <1>2 DEF Acquire, Candidates, Due, Lifecycle!Start, Lifecycle!Next
<1>3. CASE RequeueBlocked(w)
  <2>1. job[w] \in Run /\ status[job[w]] = "running"
    BY <1>0, <1>3 DEF RequeueBlocked, TypeInv, RunInHand
  <2>2. Lifecycle!HandBack({job[w]})
    BY <1>3, <2>1
       DEF RequeueBlocked, PutBack, Exists, Lifecycle!HandBack, TypeInv, TypeOK
  <2>. QED BY <2>1, <2>2 DEF Lifecycle!Next
<1>4. CASE Complete(w)
  <2>1. job[w] \in Run /\ status[job[w]] = "running"
    BY <1>0, <1>4 DEF Complete, TypeInv, RunInHand
  <2>. QED BY <1>4, <2>1
           DEF Complete, MarkSucceeded, Exists, Lifecycle!Succeed, Lifecycle!Next
<1>5. CASE FailWrite(w)
  <2>1. /\ job[w] \in Run /\ status[job[w]] = "running"
        /\ seen[w] = attempts[job[w]]
    BY <1>0, <1>5 DEF FailWrite, TypeInv, RunInHand
  <2>2. attempts[job[w]] < MaxOf[job[w]]
    BY <2>1 DEF AttemptsInv, ActiveHasAttemptsLeft, Active
  <2>3. attempts' = [attempts EXCEPT ![job[w]] = @ + 1]
    BY <1>5, <2>1 DEF FailWrite, TypeInv, TypeOK
  <2>4. \/ /\ attempts[job[w]] + 1 < MaxOf[job[w]]
           /\ status' = [status EXCEPT ![job[w]] = "queued"]
        \/ status' = [status EXCEPT ![job[w]] = "failed"]
    BY <1>5, <2>1 DEF FailWrite, ShouldRetry
  <2>5. Lifecycle!Fail(job[w])
    BY <2>1, <2>2, <2>3, <2>4 DEF Lifecycle!Fail
  <2>. QED BY <2>1, <2>5 DEF Lifecycle!Next
<1>6. CASE RequeueError(w) \/ CompleteError(w)
  BY <1>6 DEF RequeueError, CompleteError, Reliable, rowVars
<1>7. CASE AcquireNone(w) \/ TryLock(w) \/ LockError(w) \/ BodyReturns(w)
           \/ (\E b \in BOOLEAN : BodyRaises(w, b))
  BY <1>7 DEF AcquireNone, TryLock, LockError, BodyReturns, BodyRaises, rowVars
<1>8. CASE Leave(w) \/ LeaveError(w) \/ Unwind(w) \/ FailRead(w)
           \/ FailGivesUp(w)
  BY <1>8 DEF Leave, LeaveError, Unwind, FailRead, FailGivesUp, rowVars
<1>. QED BY <1>1, <1>2, <1>3, <1>4, <1>5, <1>6, <1>7, <1>8 DEF WorkerStep

LEMMA StepRefines ==
  Reliable /\ TypeInv /\ WantInv /\ OwnInv /\ AttemptsInv /\ [Next]_vars
    => [Lifecycle!Next]_<<status, attempts>>
<1>1. ASSUME Reliable, TypeInv, WantInv, OwnInv, AttemptsInv, [Next]_vars
      PROVE  Lifecycle!Next \/ UNCHANGED <<status, attempts>>
  <2>1. ASSUME NEW c \in Client, Insert(c) PROVE Lifecycle!Next
    <3>1. want[c] \in Run /\ status[want[c]] = "absent"
      BY <1>1, <2>1 DEF Insert, WantInv, TypeInv, TypeOK
    <3>2. Lifecycle!Submit(want[c])
      BY <2>1, <3>1
         DEF Insert, IndexConflict, Active, Lifecycle!Submit, Lifecycle!Active
    <3>. QED BY <3>1, <3>2 DEF Lifecycle!Next
  <2>2. ASSUME NEW c \in Client, ClientStep(c)
        PROVE  Lifecycle!Next \/ UNCHANGED <<status, attempts>>
    BY <2>1, <2>2 DEF ClientStep, LookupNone, InsertRejected, rowVars
  <2>3. ASSUME NEW w \in Worker, Heartbeat(w) \/ LockConnectionDies(w)
        PROVE  UNCHANGED <<status, attempts>>
    BY <2>3 DEF Heartbeat, LockConnectionDies, rowVars
  <2>4. ASSUME NEW r \in Run, LeaseLapses(r) \/ RetryComesDue(r)
        PROVE  UNCHANGED <<status, attempts>>
    BY <2>4 DEF LeaseLapses, RetryComesDue
  <2>5. ASSUME NEW r \in Run, Purge(r) PROVE Lifecycle!Next
    BY <2>5 DEF Purge, Terminal, Lifecycle!Forget, Lifecycle!Next
  <2>6. ASSUME (\E p \in Proc : Crash(p)) \/ UNCHANGED vars
        PROVE  UNCHANGED <<status, attempts>>
    BY <2>6 DEF Crash, rowVars, vars
  <2>. QED BY <1>1, <2>2, <2>3, <2>4, <2>5, <2>6, WorkerStepRefines DEF Next
<1>. QED BY <1>1

(* The promise itself keeps attempts available to active runs ... *)
LEMMA LifecycleKeepsAttempts ==
  TypeInv /\ AttemptsInv /\ [Lifecycle!Next]_<<status, attempts>> => AttemptsInv'
<1>1. ASSUME TypeInv, AttemptsInv, [Lifecycle!Next]_<<status, attempts>>
      PROVE  AttemptsInv'
  <2> USE <1>1, AttributesAssumption
      DEF TypeInv, TypeOK, AttemptsInv, ActiveHasAttemptsLeft, Active, Statuses
  <2>1. ASSUME NEW r \in Run, Lifecycle!Submit(r) PROVE AttemptsInv'
    BY <2>1 DEF Lifecycle!Submit
  <2>2. ASSUME NEW r \in Run,
               Lifecycle!Start(r) \/ Lifecycle!Succeed(r) \/ Lifecycle!Forget(r)
        PROVE  AttemptsInv'
    BY <2>2 DEF Lifecycle!Start, Lifecycle!Succeed, Lifecycle!Forget
  <2>3. ASSUME NEW r \in Run, Lifecycle!Fail(r) PROVE AttemptsInv'
    BY <2>3 DEF Lifecycle!Fail
  <2>4. ASSUME NEW S \in SUBSET Run, Lifecycle!HandBack(S) PROVE AttemptsInv'
    BY <2>4 DEF Lifecycle!HandBack
  <2>5. CASE UNCHANGED <<status, attempts>>
    BY <2>5
  <2>. QED BY <2>1, <2>2, <2>3, <2>4, <2>5 DEF Lifecycle!Next
<1>. QED BY <1>1

(* ... and lets only retention touch a settled run. *)
LEMMA LifecycleIsFinal ==
  TypeInv /\ [Lifecycle!Next]_<<status, attempts>>
    => \A r \in Run : status[r] \in Terminal
                      => status'[r] \in {status[r], "purged"}
BY DEF TypeInv, TypeOK, Terminal, Lifecycle!Next, Lifecycle!Submit,
       Lifecycle!Start, Lifecycle!Succeed, Lifecycle!Fail,
       Lifecycle!HandBack, Lifecycle!Forget

(* Without stalls, lock losses and lost acknowledgements the queue         *)
(* implements JobLifecycle: duplicate submissions are refused, an attempt  *)
(* is charged for a failure and for nothing else, and settled runs stay.   *)
THEOREM Implements ==
  ASSUME Reliable PROVE Spec => LifecycleSpec
<1>1. TypeInv /\ WantInv /\ OwnInv /\ [Next]_vars => OwnInv'
  BY OwnInvStep, Reliable
<1>2. TypeInv /\ WantInv /\ OwnInv /\ AttemptsInv /\ [Next]_vars
        => [Lifecycle!Next]_<<status, attempts>>
  BY StepRefines, Reliable
<1>3. Init => Lifecycle!Init
  BY DEF Init, Lifecycle!Init
<1>. QED BY <1>1, <1>2, <1>3, TypeInvariant, WantInvInit, WantInvStep, OwnInvInit,
            AttemptsInvInit, LifecycleKeepsAttempts, PTL
        DEF Spec, LifecycleSpec, Lifecycle!Spec

(* An active run has attempts left. *)
THEOREM AttemptsLeft ==
  ASSUME Reliable PROVE Spec => []ActiveHasAttemptsLeft
<1>1. AttemptsInv => ActiveHasAttemptsLeft
  BY DEF AttemptsInv
<1>. QED BY <1>1, Implements, TypeInvariant, AttemptsInvInit,
            LifecycleKeepsAttempts, PTL DEF Spec, LifecycleSpec, Lifecycle!Spec

(* A settled run is never executed again. *)
THEOREM Finality ==
  ASSUME Reliable PROVE Spec => TerminalIsFinal
<1>1. TypeInv /\ [Lifecycle!Next]_<<status, attempts>>
        => [\A r \in Run : status[r] \in Terminal
                            => status'[r] \in {status[r], "purged"}]_vars
  BY LifecycleIsFinal
<1>. QED BY <1>1, Implements, TypeInvariant, PTL
        DEF LifecycleSpec, Lifecycle!Spec, TerminalIsFinal
=============================================================================
