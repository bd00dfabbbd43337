--------------------------- MODULE JobStatusProofs ---------------------------
(***************************************************************************)
(* Proofs about the reports on the queue, for every set of runs, workers,  *)
(* clients and faults.                                                     *)
(***************************************************************************)
EXTENDS JobStatus, JobQueueProofs, Listings

(* The times do not interfere with the queue. *)
LEMMA StatusStepIsStep == [StatusNext]_statusVars => [Next]_vars
BY DEF StatusNext, statusVars


-----------------------------------------------------------------------------
(* The times *)

TimesType ==
  /\ queued \in [Run -> Nat] /\ started \in [Run -> Nat] /\ finished \in [Run -> Nat]
  /\ took \in [Worker \union Client -> Nat]

LEMMA TypesStay ==
  ASSUME TimesType, Timed
  PROVE  queued' \in [Run -> Nat] /\ started' \in [Run -> Nat] /\ finished' \in [Run -> Nat]
<1> DEFINE G == queued' \in [Run -> Nat] /\ started' \in [Run -> Nat]
                /\ finished' \in [Run -> Nat]
<1>1. ASSUME NEW c \in Client, Enqueues(c) PROVE G
  BY <1>1 DEF Enqueues, TimesType
<1>2. ASSUME NEW w \in Worker, NEW r \in Run, Starts(w, r) PROVE G
  BY <1>2 DEF Starts, TimesType
<1>3. ASSUME NEW w \in Worker, Finishes(w) PROVE G
  BY <1>3 DEF Finishes, TimesType
<1>4. CASE UNCHANGED times
  BY <1>4 DEF times, TimesType
<1>5. \/ \E c \in Client : Enqueues(c)
      \/ \E w \in Worker : Finishes(w) \/ \E r \in Run : Starts(w, r)
      \/ UNCHANGED times
  BY DEF Timed
<1>. QED BY ONLY <1>1, <1>2, <1>3, <1>4, <1>5

(* Who is about to note a time has read the clock. *)
ClockRead == \A x \in Worker \union Client : HasTime(x) => took[x] > 0

TimesInv == TimesType /\ ClockRead

LEMMA NowIsLater ==
  ASSUME TimesType
  PROVE  Now \in Nat /\ Now > 0
<1> DEFINE A == {queued[r] : r \in Run}
           B == {started[r] : r \in Run}
           C == {finished[r] : r \in Run}
           T == {0} \union UNION {{queued[r], started[r], finished[r]} : r \in Run}
<1>1. T = {0} \union (A \union (B \union C))
  OBVIOUS
<1>2. IsFiniteSet(A) /\ IsFiniteSet(B) /\ IsFiniteSet(C)
  BY RunAssumption, ImageFinite DEF TimesType
<1>3. IsFiniteSet(T)
  BY <1>1, <1>2, FS_Union, FS_Singleton
<1>4. \A t \in T : t \in Nat
  BY DEF TimesType
<1>5. Now = 1 + CHOOSE t \in T : \A u \in T : u <= t
  BY DEF Now
<1>6. T # {}
  OBVIOUS
<1> HIDE DEF T
<1>7. \E t \in T : \A u \in T : u <= t
  BY <1>3, <1>4, <1>6, LargestExists
<1>8. (CHOOSE t \in T : \A u \in T : u <= t) \in T
  BY <1>7
<1>. QED BY <1>4, <1>5, <1>8

LEMMA TimesInit == StatusInit => TimesInv
BY NoneAssumption, ActorsAssumption DEF StatusInit, Init, TimesInv, TimesType, ClockRead, HasTime

LEMMA TimesStep == TypeOK /\ TimesInv /\ [StatusNext]_statusVars => TimesInv'
<1> SUFFICES ASSUME TypeOK, TimesInv, [StatusNext]_statusVars PROVE TimesInv'
  OBVIOUS
<1>1. CASE UNCHANGED statusVars
  BY <1>1 DEF statusVars, times, vars, workerVars, TimesInv, TimesType, ClockRead, HasTime
<1>2. CASE StatusNext
  <2>1. Now \in Nat /\ Now > 0
    BY NowIsLater DEF TimesInv
  <2>2. took' = [x \in Worker \union Client |->
                   IF ~HasTime(x)' THEN 0 ELSE IF HasTime(x) THEN took[x] ELSE Now]
    BY <1>2 DEF StatusNext, Timed
  <2>3. took' \in [Worker \union Client -> Nat]
    BY <2>1, <2>2 DEF TimesInv, TimesType
  <2>4. ClockRead'
    BY <2>1, <2>2 DEF TimesInv, ClockRead
  <2>5. queued' \in [Run -> Nat] /\ started' \in [Run -> Nat] /\ finished' \in [Run -> Nat]
    BY <1>2, TypesStay DEF StatusNext, TimesInv
  <2>. QED BY <2>3, <2>4, <2>5 DEF TimesInv, TimesType
<1>. QED BY <1>1, <1>2

LEMMA StatusInvariant == StatusSpec => [](TypeInv /\ RowInv /\ TimesInv)
<1>1. StatusInit => Init
  BY DEF StatusInit
<1>2. TypeInv => TypeOK
  BY DEF TypeInv
<1>. QED BY <1>1, <1>2, StatusStepIsStep, TypeInvInit, TypeInvStep, WantInvInit, WantInvStep,
            RowInvInit, RowInvStep, TimesInit, TimesStep, PTL DEF StatusSpec

-----------------------------------------------------------------------------
(* The reports *)

RowsAre(x) == {r \in Rows : status[r] = x}

LEMMA RowsFinite == \A S \in SUBSET Run : IsFiniteSet(S) /\ Cardinality(S) \in Nat
BY RunAssumption, FS_Subset, FS_CardinalityType

LEMMA LatestExists ==
  ASSUME TimesType, Rows # {}
  PROVE  Latest # {}
<1> DEFINE R == {x \in Rows \X Rows :
                   \/ LastChange(x[2]) < LastChange(x[1])
                   \/ LastChange(x[1]) = LastChange(x[2]) /\ queued[x[2]] < queued[x[1]]}
<1>1. \A r \in Rows : LastChange(r) \in Nat /\ queued[r] \in Nat
  BY DEF TimesType, Rows, LastChange
<1>2. \A q, r \in Rows : <<q, r>> \in R <=>
        \/ LastChange(r) < LastChange(q)
        \/ LastChange(q) = LastChange(r) /\ queued[r] < queued[q]
  OBVIOUS
<1> HIDE DEF R
<1>3. PICK r \in Rows : \A q \in Rows : <<q, r>> \notin R
  <2>1. IsFiniteSet(Rows)
    BY RowsFinite DEF Rows
  <2>2. \A q \in Rows : <<q, q>> \notin R
    BY <1>1, <1>2
  <2>3. \A x, y, z \in Rows : <<x, y>> \in R /\ <<y, z>> \in R => <<x, z>> \in R
    BY <1>1, <1>2
  <2>. QED BY <2>1, <2>2, <2>3, FirstExists
<1>4. ASSUME NEW q \in Rows
      PROVE  \/ LastChange(q) < LastChange(r)
             \/ LastChange(q) = LastChange(r) /\ queued[q] <= queued[r]
  <2>1. /\ ~(LastChange(r) < LastChange(q))
        /\ LastChange(q) = LastChange(r) => ~(queued[r] < queued[q])
    BY <1>2, <1>3
  <2>. QED BY <1>1, <2>1
<1>. QED BY <1>4 DEF Latest

LEMMA IdleMeansEmpty ==
  ASSUME TypeOK, TimesType
  PROVE  Summary = "idle" <=> Rows = {}
<1>1. CASE Rows = {}
  BY <1>1 DEF Summary
<1>2. CASE Rows # {}
  <2> DEFINE r == CHOOSE r \in Latest : TRUE
  <2>1. r \in Rows
    BY <1>2, LatestExists DEF Latest
  <2>2. status[r] \in {"queued", "running", "succeeded", "failed"}
    BY <2>1 DEF Rows, Exists, TypeOK, Statuses
  <2>3. Summary = IF status[r] = "succeeded" THEN "completed" ELSE status[r]
    BY <1>2 DEF Summary
  <2> HIDE DEF r
  <2>. QED BY <1>2, <2>2, <2>3
<1>. QED BY <1>1, <1>2

LEMMA OldestExists ==
  ASSUME TimesType, NEW Q \in SUBSET Run, Q # {}
  PROVE  \E r \in Q : \A q \in Q : queued[r] <= queued[q]
<1> DEFINE R == {x \in Q \X Q : queued[x[1]] < queued[x[2]]}
<1>1. \A r \in Q : queued[r] \in Nat
  BY DEF TimesType
<1>2. \A q, r \in Q : <<q, r>> \in R <=> queued[q] < queued[r]
  OBVIOUS
<1> HIDE DEF R
<1>3. PICK r \in Q : \A q \in Q : <<q, r>> \notin R
  <2>1. \A q \in Q : <<q, q>> \notin R
    BY <1>1, <1>2
  <2>2. \A x, y, z \in Q : <<x, y>> \in R /\ <<y, z>> \in R => <<x, z>> \in R
    BY <1>1, <1>2
  <2>. QED BY <2>1, <2>2, RowsFinite, FirstExists
<1>4. ASSUME NEW q \in Q PROVE queued[r] <= queued[q]
  <2>1. ~(queued[q] < queued[r])
    BY <1>2, <1>3
  <2>. QED BY <1>1, <2>1
<1>. QED BY <1>4

LEMMA MetricsAddUp ==
  ASSUME TypeOK, RunningIsRecoverable, TimesType
  PROVE  LET m == QueueMetrics
             active == {r \in Rows : status[r] \in Active}
             lapsed == {r \in active : lease[r] = "lapsed"}
         IN /\ m.queued + m.running + Cardinality(lapsed) = Cardinality(active)
            /\ m.retry_scheduled <= m.queued
            /\ m.queued > 0 <=> m.oldest # {}
<1> DEFINE Q == {r \in Rows : status[r] = "queued"}
           N == {r \in Rows : status[r] = "running" /\ lease[r] # "lapsed"}
           active == {r \in Rows : status[r] \in Active}
           L == {r \in active : lease[r] = "lapsed"}
           D == {r \in Q : ~due[r]}
           O == {r \in Q : \A q \in Q : queued[r] <= queued[q]}
<1>1. /\ QueueMetrics.queued = Cardinality(Q)
      /\ QueueMetrics.running = Cardinality(N)
      /\ QueueMetrics.retry_scheduled = Cardinality(D)
      /\ QueueMetrics.oldest = O
  BY DEF QueueMetrics
<1>2. Q \in SUBSET Run /\ N \in SUBSET Run /\ L \in SUBSET Run /\ D \in SUBSET Q
  BY DEF Rows
<1>3. active = (Q \union N) \union L
  BY DEF Active
<1>4. Q \intersect N = {} /\ (Q \union N) \intersect L = {}
  BY DEF RunningIsRecoverable, Rows
<1> HIDE DEF Q, N, L, D, active
<1>5. /\ IsFiniteSet(Q \union N)
      /\ Cardinality(Q \union N) = Cardinality(Q) + Cardinality(N)
  BY <1>2, <1>4, RowsFinite, Disjoint
<1>6. Cardinality((Q \union N) \union L) = Cardinality(Q \union N) + Cardinality(L)
  BY <1>2, <1>4, <1>5, RowsFinite, Disjoint
<1>7. Cardinality(D) <= Cardinality(Q)
  BY <1>2, RowsFinite, FS_Subset
<1>8. Cardinality(Q) > 0 <=> O # {}
  <2>1. Cardinality(Q) \in Nat /\ (Cardinality(Q) = 0 <=> Q = {})
    BY <1>2, RowsFinite, FS_EmptySet
  <2>2. Q # {} => O # {}
    BY <1>2, OldestExists
  <2>. QED BY <2>1, <2>2
<1>. QED BY <1>1, <1>3, <1>5, <1>6, <1>7, <1>8 DEF L, active

LEMMA InHandIsRunning ==
  ASSUME TypeInv, OwnsItsRun
  PROVE  LET active == {r \in Rows : status[r] \in Active}
             inHand == {r \in Rows : \E w \in Worker : job[w] = r /\ pc[w] # "leaving"}
             lapsed == {r \in active : lease[r] = "lapsed"}
         IN /\ lapsed \intersect inHand = {}
            /\ QueueMetrics.running >= Cardinality(inHand)
<1> DEFINE N == {r \in Rows : status[r] = "running" /\ lease[r] # "lapsed"}
           H == {r \in Rows : \E w \in Worker : job[w] = r /\ pc[w] # "leaving"}
<1>1. \A r \in H : status[r] = "running" /\ lease[r] = "live"
  BY NoneAssumption DEF OwnsItsRun, Rows
<1>2. H \in SUBSET N /\ N \in SUBSET Run
  BY <1>1 DEF Rows
<1>3. Cardinality(H) <= Cardinality(N)
  BY <1>2, RowsFinite, FS_Subset
<1>4. Cardinality(H) \in Nat /\ Cardinality(N) \in Nat
  BY <1>2, RowsFinite
<1>5. QueueMetrics.running = Cardinality(N)
  BY DEF QueueMetrics
<1>. QED BY <1>1, <1>3, <1>4, <1>5

(* For every set of runs, workers and clients: whatever is enqueued,       *)
(* blocked, retried or recovered, the report says idle only of an empty    *)
(* table, its counts add up to the active runs and, unless leases stall or *)
(* acknowledgements get lost, cover every run a worker has in hand.        *)
THEOREM ReportsTellWork == StatusSpec => []SummaryTellsWork
<1>1. TypeInv /\ RowInv /\ TimesInv /\ (Reliable => OwnsItsRun) => SummaryTellsWork
  <2> SUFFICES ASSUME TypeInv, RowInv, TimesInv, Reliable => OwnsItsRun
               PROVE  SummaryTellsWork
    OBVIOUS
  <2>1. TypeOK /\ RunningIsRecoverable /\ TimesType
    BY DEF TypeInv, RowInv, TimesInv
  <2>. QED BY <2>1, LatestExists, IdleMeansEmpty, MetricsAddUp, InHandIsRunning
           DEF SummaryTellsWork
<1>2. StatusSpec => [](Reliable => OwnsItsRun)
  <2>1. CASE Reliable
    <3>1. TypeInv /\ WantInv /\ OwnInv /\ [Next]_vars => OwnInv'
      BY <2>1, OwnInvStep
    <3>2. OwnInv => (Reliable => OwnsItsRun)
      BY DEF OwnInv
    <3>3. StatusInit => Init
      BY DEF StatusInit
    <3>. QED BY <3>1, <3>2, <3>3, StatusStepIsStep, TypeInvInit, TypeInvStep, WantInvInit,
                WantInvStep, OwnInvInit, PTL DEF StatusSpec
  <2>2. CASE ~Reliable
    BY <2>2, PTL
  <2>. QED BY <2>1, <2>2
<1>. QED BY <1>1, <1>2, StatusInvariant, PTL

-----------------------------------------------------------------------------
(* A finish *)

(* A run settles by the write of the thread that has it in hand. *)
LEMMA SettledByWrite ==
  ASSUME TypeInv, Next, NEW r \in Run, status[r] \in Active, status'[r] \in Terminal
  PROVE  \E w \in Worker : Writes(w) /\ job[w] = r
<1> USE DEF TypeInv, TypeOK, Active, Terminal
<1>1. ASSUME NEW q, PutBack(q) PROVE status'[r] \notin Terminal
  BY <1>1 DEF PutBack, rowVars
<1>2. ASSUME NEW w \in Worker, WorkerStep(w) PROVE Writes(w) /\ job[w] = r
  <2>1. CASE Complete(w)
    BY <2>1 DEF Complete, MarkSucceeded, rowVars, Writes
  <2>2. CASE CompleteError(w)
    BY <2>2 DEF CompleteError, MarkSucceeded, rowVars, Writes
  <2>3. CASE FailWrite(w)
    BY <2>3 DEF FailWrite, Writes
  <2>4. CASE Poll(w) \/ \E q \in Run : Acquire(w, q)
    BY <2>4 DEF Poll, Acquire
  <2>5. CASE RequeueBlocked(w) \/ RequeueError(w)
    BY <1>1, <2>5 DEF RequeueBlocked, RequeueError, rowVars
  <2>6. CASE \/ AcquireNone(w) \/ TryLock(w) \/ LockError(w) \/ BodyReturns(w)
             \/ (\E b \in BOOLEAN : BodyRaises(w, b))
    BY <2>6 DEF AcquireNone, TryLock, LockError, BodyReturns, BodyRaises, rowVars
  <2>7. CASE Leave(w) \/ LeaveError(w) \/ Unwind(w) \/ FailRead(w) \/ FailGivesUp(w)
    BY <2>7 DEF Leave, LeaveError, Unwind, FailRead, FailGivesUp, rowVars
  <2>. QED BY <1>2, <2>1, <2>2, <2>3, <2>4, <2>5, <2>6, <2>7 DEF WorkerStep
<1>3. ASSUME NEW c \in Client, ClientStep(c) PROVE FALSE
  BY <1>3 DEF ClientStep, LookupNone, Insert, InsertRejected, rowVars
<1>4. ASSUME NEW w \in Worker, Heartbeat(w) \/ LockConnectionDies(w) PROVE FALSE
  BY <1>4 DEF Heartbeat, LockConnectionDies, rowVars
<1>5. ASSUME NEW q \in Run, LeaseLapses(q) \/ RetryComesDue(q) \/ Purge(q) PROVE FALSE
  BY <1>5 DEF LeaseLapses, RetryComesDue, Purge
<1>6. ASSUME NEW p \in Proc, Crash(p) PROVE FALSE
  BY <1>6 DEF Crash, rowVars
<1>. QED BY <1>2, <1>3, <1>4, <1>5, <1>6 DEF Next

(* Its finish is noted with the time that thread read, and no other time.  *)
LEMMA FinishIsNoted ==
  ASSUME TypeInv, TimesInv, StatusNext,
         NEW r \in Run, status[r] \in Active, status'[r] \in Terminal
  PROVE  /\ finished'[r] \in Nat /\ finished'[r] > 0
         /\ \A q \in Run \ {r} : finished'[q] = finished[q] /\ status'[q] = status[q]
         /\ queued' = queued /\ started' = started
<1> USE DEF TypeInv, TypeOK
<1>1. PICK w \in Worker : Writes(w) /\ job[w] = r
  BY SettledByWrite DEF StatusNext
<1>2. /\ pc[w] \in {"completing", "writing"} /\ pc'[w] # pc[w]
      /\ \A v \in Worker \ {w} : pc'[v] = pc[v]
      /\ \A q \in Run \ {r} : status'[q] = status[q]
  <2>1. CASE Complete(w)
    BY <1>1, <2>1 DEF Complete, MarkSucceeded, Goto, rowVars
  <2>2. CASE CompleteError(w)
    BY <1>1, <2>2 DEF CompleteError, MarkSucceeded, Raise, rowVars
  <2>3. CASE FailWrite(w)
    BY <1>1, <2>3 DEF FailWrite, GoIdle
  <2>. QED BY <1>1, <2>1, <2>2, <2>3 DEF Writes
<1>3. ASSUME NEW v \in Worker, Writes(v) PROVE v = w
  <2>1. pc'[v] # pc[v]
    BY <1>3 DEF Writes, Complete, CompleteError, FailWrite, Goto, Raise, GoIdle
  <2>. QED BY <1>2, <2>1
<1>4. ASSUME NEW c \in Client, Insert(c) PROVE FALSE
  BY <1>2, <1>4 DEF Insert, workerVars
<1>5. ASSUME NEW v \in Worker, NEW q \in Run, Acquire(v, q) PROVE FALSE
  <2>1. pc[v] = "polling" /\ pc' = [pc EXCEPT ![v] = "locking"]
    BY <1>5 DEF Acquire
  <2>. QED BY <1>2, <2>1
<1>6. Finishes(w)
  <2>1. \/ \E c \in Client : Enqueues(c)
        \/ \E v \in Worker : Finishes(v) \/ \E q \in Run : Starts(v, q)
        \/ \A v \in Worker : ~Writes(v)
    BY DEF StatusNext, Timed
  <2>2. \A c \in Client : ~Enqueues(c)
    BY <1>4 DEF Enqueues
  <2>3. \A v \in Worker, q \in Run : ~Starts(v, q)
    BY <1>5 DEF Starts
  <2>4. PICK v \in Worker : Finishes(v)
    BY <1>1, <2>1, <2>2, <2>3
  <2>. QED BY <1>3, <2>4 DEF Finishes
<1>7. finished' = [finished EXCEPT ![r] = took[w]] /\ queued' = queued /\ started' = started
  BY <1>1, <1>6 DEF Finishes
<1>8. took[w] \in Nat /\ took[w] > 0
  <2>1. w \notin Client
    BY ActorsAssumption
  <2>2. HasTime(w)
    BY <1>2, <2>1 DEF HasTime
  <2>. QED BY <2>2 DEF TimesInv, TimesType, ClockRead
<1>. QED BY <1>2, <1>7, <1>8 DEF TimesInv, TimesType

LEMMA FinishIsLatest ==
  ASSUME TypeInv, TimesInv, StatusNext,
         NEW r \in Run, status[r] \in Active, status'[r] \in Terminal,
         \A q \in Rows \ {r} : /\ queued[q] < finished'[r]
                                /\ started[q] < finished'[r]
                                /\ finished[q] < finished'[r]
  PROVE  /\ Latest' = {r}
         /\ status'[r] = "failed" => RecentFailed(1)' = {r}
         /\ status'[r] = "succeeded" => LatestSuccess(Run)' = finished'[r]
<1>1. /\ finished'[r] \in Nat /\ finished'[r] > 0
      /\ \A q \in Run \ {r} : finished'[q] = finished[q] /\ status'[q] = status[q]
      /\ queued' = queued /\ started' = started
  BY FinishIsNoted
<1>2. r \in Rows' /\ Rows' \ {r} = Rows \ {r}
  BY <1>1 DEF Rows, Exists, Terminal
<1>3. \A q \in Rows' \ {r} : finished'[q] < finished'[r] /\ finished'[q] \in Nat
  BY <1>1, <1>2 DEF TimesInv, TimesType, Rows
<1>4. LastChange(r)' = finished'[r]
  BY <1>1 DEF LastChange
<1>5. \A q \in Rows' \ {r} : LastChange(q)' < finished'[r] /\ LastChange(q)' \in Nat
  BY <1>1, <1>2, <1>3 DEF LastChange, TimesInv, TimesType, Rows
<1>6. Latest' = {r}
  <2>1. Latest' = {p \in Rows' : \A q \in Rows' :
                     \/ LastChange(q)' < LastChange(p)'
                     \/ LastChange(q)' = LastChange(p)' /\ queued'[q] <= queued'[p]}
    BY DEF Latest
  <2>2. queued'[r] \in Nat
    BY <1>1 DEF TimesInv, TimesType
  <2>. QED BY <1>1, <1>2, <1>4, <1>5, <2>1, <2>2
<1>7. ASSUME status'[r] = "failed" PROVE RecentFailed(1)' = {r}
  <2> DEFINE F == {q \in Rows' : status'[q] = "failed"}
             Later(p) == {q \in F : finished'[q] > finished'[p]}
  <2>1. RecentFailed(1)' = {p \in F : Cardinality(Later(p)) < 1}
    BY DEF RecentFailed
  <2>2. F \in SUBSET Run
    BY DEF Rows
  <2>3. \A p \in F : Cardinality(Later(p)) \in Nat /\ (Cardinality(Later(p)) = 0 <=> Later(p) = {})
    <3>1. \A p \in F : Later(p) \in SUBSET Run
      BY <2>2
    <3>. QED BY <3>1, RowsFinite, FS_EmptySet
  <2>4. r \in F /\ Later(r) = {}
    BY <1>1, <1>2, <1>3, <1>7
  <2>5. \A p \in F \ {r} : r \in Later(p)
    BY <1>1, <1>3, <2>4
  <2> HIDE DEF F, Later
  <2>. QED BY <2>1, <2>3, <2>4, <2>5
<1>8. ASSUME status'[r] = "succeeded" PROVE LatestSuccess(Run)' = finished'[r]
  <2> DEFINE P == {q \in Run \intersect Rows' : status'[q] = "succeeded"}
             S == {finished'[q] : q \in P}
  <2>1. LatestSuccess(Run)' = IF S = {} THEN 0 ELSE CHOOSE t \in S : \A u \in S : u <= t
    BY DEF LatestSuccess
  <2>2. finished'[r] \in S
    BY <1>2, <1>8
  <2>3. \A u \in S : u \in Nat /\ u <= finished'[r]
    BY <1>1, <1>3
  <2> HIDE DEF S
  <2>4. \A t \in S : (\A u \in S : u <= t) => t = finished'[r]
    BY <1>1, <2>2, <2>3
  <2>. QED BY <2>1, <2>2, <2>3, <2>4
<1>. QED BY <1>6, <1>7, <1>8

(* Whatever happens besides, also to workers that have lost their leases:  *)
(* a run that finishes is the one reported, unless another noted its time  *)
(* while this one was finishing.                                           *)
THEOREM FinishesAreShown == StatusSpec => FinishIsShown
<1>1. TypeInv /\ TimesInv /\ [StatusNext]_statusVars =>
        [\A r \in Run :
           /\ status[r] \in Active /\ status'[r] \in Terminal
           /\ \A q \in Rows \ {r} :
                queued[q] < finished'[r] /\ started[q] < finished'[r] /\ finished[q] < finished'[r]
           => /\ Latest' = {r}
              /\ status'[r] = "failed" => RecentFailed(1)' = {r}
              /\ status'[r] = "succeeded" => LatestSuccess(Run)' = finished'[r]
        ]_statusVars
  BY FinishIsLatest
<1>. QED BY <1>1, StatusInvariant, PTL DEF StatusSpec, FinishIsShown

-----------------------------------------------------------------------------
(* The announced schedules, at every moment of a day. *)

Moment == 0..(Day - 1)

Announced(t, s) ==
  LET next == ScheduleMetadata(t)[s] IN
    next > t /\ next \in Fires[s] /\ \A x \in Fires[s] : x > t => next <= x

LEMMA CronIs ==
  /\ Fires["refresh_hourly"] = {x \in 0..5760 : x % 120 = 0}
  /\ Fires["backfill_6hourly"] = {x \in 0..5760 : x % 720 = 30}
  /\ Fires["master_sync_daily"] = {x \in 0..5760 : x % 2880 = 420}
  /\ Fires["queue_runner"] = {x \in 0..5760 : x % 2 = 0}
<1>1. /\ 2 * Day = 5760 /\ Hour = 120 /\ 6 * Hour = 720 /\ Day = 2880
      /\ 3 * Hour + 60 = 420
  BY DEF Day, Hour
<1>. QED BY <1>1 DEF Fires

(* Two occurrences are a period apart. *)
LEMMA SixHoursApart ==
  ASSUME NEW x \in Int, NEW y \in Int, x > y, x % 720 = 30, y % 720 = 30
  PROVE  x >= y + 720
BY SMTT(60)

LEMMA DayApart ==
  ASSUME NEW x \in Int, NEW y \in Int, x > y, x % 2880 = 420, y % 2880 = 420
  PROVE  x >= y + 2880
BY SMTT(60)

LEMMA AnnouncedIs ==
  \A t : /\ ScheduleMetadata(t)["refresh_hourly"] = NextHourlyRun(t, 0)
         /\ ScheduleMetadata(t)["backfill_6hourly"] = NextEverySixHoursRun(t, 15)
         /\ ScheduleMetadata(t)["master_sync_daily"] = NextDailyRun(t, 3, 30)
         /\ ScheduleMetadata(t)["queue_runner"] = (t \div 2) * 2 + 2
BY DEF ScheduleMetadata

LEMMA HourlyIsNext == \A t \in Moment : Announced(t, "refresh_hourly")
<1> SUFFICES ASSUME NEW t \in Moment PROVE Announced(t, "refresh_hourly")
  OBVIOUS
<1> DEFINE n == NextHourlyRun(t, 0)
<1>1. t \in 0..2879
  BY DEF Moment, Day, Hour
<1>2. n = IF (t \div 120) * 120 <= t THEN (t \div 120) * 120 + 120 ELSE (t \div 120) * 120
  BY <1>1 DEF NextHourlyRun, OnMinute, Hour
<1> HIDE DEF n
<1>3. n > t /\ n \in 0..5760 /\ n % 120 = 0
  BY <1>1, <1>2
<1>4. ASSUME NEW x \in Fires["refresh_hourly"], x > t PROVE n <= x
  <2>1. x \in 0..5760 /\ x % 120 = 0
    BY CronIs
  <2>. QED BY <2>1, <1>4, <1>1, <1>2, SMTT(60)
<1>5. n > t /\ n \in Fires["refresh_hourly"] /\ \A x \in Fires["refresh_hourly"] : x > t => n <= x
  <2>1. Fires["refresh_hourly"] = {x \in 0..5760 : x % 120 = 0}
    BY CronIs
  <2>2. n \in Fires["refresh_hourly"]
    BY <1>3, <2>1
  <2>. QED BY <1>3, <1>4, <2>2
<1>. QED BY <1>5, AnnouncedIs DEF Announced, n

LEMMA DailyIsNext == \A t \in Moment : Announced(t, "master_sync_daily")
<1> SUFFICES ASSUME NEW t \in Moment PROVE Announced(t, "master_sync_daily")
  OBVIOUS
<1> DEFINE n == NextDailyRun(t, 3, 30)
<1>1. t \in 0..2879
  BY DEF Moment, Day, Hour
<1>2. n = IF t < 420 THEN 420 ELSE 3300
  <2>1. (t \div 2880) * 2880 + 3 * 120 + 2 * 30 = 420
    BY <1>1
  <2>2. Day = 2880 /\ Hour = 120
    BY DEF Day, Hour
  <2>. QED BY <1>1, <2>1, <2>2 DEF NextDailyRun
<1> HIDE DEF n
<1>3. n > t /\ n \in 0..5760 /\ n % 2880 = 420
  BY <1>1, <1>2
<1>4. ASSUME NEW x \in Fires["master_sync_daily"], x > t PROVE n <= x
  <2>1. x \in 0..5760 /\ x % 2880 = 420
    BY CronIs
  <2>2. n > x => n >= x + 2880
    BY <1>3, <2>1, DayApart
  <2>. QED BY <2>1, <1>4, <1>1, <1>2, <1>3, <2>2
<1>5. /\ n > t /\ n \in Fires["master_sync_daily"]
      /\ \A x \in Fires["master_sync_daily"] : x > t => n <= x
  <2>1. Fires["master_sync_daily"] = {x \in 0..5760 : x % 2880 = 420}
    BY CronIs
  <2>2. n \in Fires["master_sync_daily"]
    BY <1>3, <2>1
  <2>. QED BY <1>3, <1>4, <2>2
<1>. QED BY <1>5, AnnouncedIs DEF Announced, n

LEMMA RunnerIsNext == \A t \in Moment : Announced(t, "queue_runner")
<1> SUFFICES ASSUME NEW t \in Moment PROVE Announced(t, "queue_runner")
  OBVIOUS
<1> DEFINE n == (t \div 2) * 2 + 2
<1>1. t \in 0..2879 /\ n = (t \div 2) * 2 + 2
  BY DEF Moment, Day, Hour
<1> HIDE DEF n
<1>2. n > t /\ n \in 0..5760 /\ n % 2 = 0
  BY <1>1
<1>3. ASSUME NEW x \in Fires["queue_runner"], x > t PROVE n <= x
  <2>1. x \in 0..5760 /\ x % 2 = 0
    BY CronIs
  <2>. QED BY <2>1, <1>3, <1>1
<1>4. n > t /\ n \in Fires["queue_runner"] /\ \A x \in Fires["queue_runner"] : x > t => n <= x
  <2>1. Fires["queue_runner"] = {x \in 0..5760 : x % 2 = 0}
    BY CronIs
  <2>2. n \in Fires["queue_runner"]
    BY <1>2, <2>1
  <2>. QED BY <1>2, <1>3, <2>2
<1>. QED BY <1>4, AnnouncedIs DEF Announced, n

LEMMA SixHourlyIsNext == \A t \in Moment : Announced(t, "backfill_6hourly")
<1> SUFFICES ASSUME NEW t \in Moment PROVE Announced(t, "backfill_6hourly")
  OBVIOUS
<1> DEFINE h == t \div 120
           c(k) == h * 120 + 30 + k * 120
           fits(k) == (h + k) % 6 = 0 /\ c(k) > t
           n == NextEverySixHoursRun(t, 15)
<1>1. t \in 0..2879 /\ h \in 0..23 /\ t >= h * 120 /\ t < h * 120 + 120
  BY DEF Moment, Day, Hour
<1>2. \A k \in 0..6 : c(k) \div 120 = h + k
  BY <1>1
<1>3. n = c(CHOOSE k \in 0..6 : fits(k) /\ \A j \in 0..6 : fits(j) => k <= j)
  <2>1. OnMinute(t, 15) = h * 120 + 30 /\ Hour = 120
    BY DEF OnMinute, Hour
  <2> DEFINE g(k) == (c(k) \div 120) % 6 = 0 /\ c(k) > t
  <2>2. n = c(CHOOSE k \in 0..6 : g(k) /\ \A j \in 0..6 : g(j) => k <= j)
    BY <2>1 DEF NextEverySixHoursRun
  <2>3. \A k \in 0..6 : g(k) <=> fits(k)
    BY <1>2
  <2> HIDE DEF g, fits, n, h
  <2>4. \A k \in 0..6 : (g(k) /\ \A j \in 0..6 : g(j) => k <= j)
                         <=> (fits(k) /\ \A j \in 0..6 : fits(j) => k <= j)
    BY <2>3
  <2>5. (CHOOSE k \in 0..6 : g(k) /\ \A j \in 0..6 : g(j) => k <= j)
        = CHOOSE k \in 0..6 : fits(k) /\ \A j \in 0..6 : fits(j) => k <= j
    BY <2>4
  <2>. QED BY <2>2, <2>5
<1> HIDE DEF h, n
<1>4. PICK k \in 0..6 : fits(k) /\ n = c(k) /\ c(k) - 720 <= t
  <2> DEFINE first == IF h % 6 # 0 THEN 6 - (h % 6) ELSE IF t < h * 120 + 30 THEN 0 ELSE 6
  <2>1. first \in 0..6 /\ fits(first) /\ \A j \in 0..6 : fits(j) => first <= j
    BY <1>1
  <2>2. c(first) - 720 <= t
    BY <1>1
  <2> HIDE DEF first, fits
  <2>. QED BY <1>3, <2>1, <2>2
<1>5. n > t /\ n \in 0..5760 /\ n % 720 = 30
  <2>1. PICK m \in 0..4 : h + k = 6 * m
    BY <1>1, <1>4
  <2>2. n = 720 * m + 30
    BY <1>1, <1>4, <2>1
  <2>. QED BY <1>4, <2>2
<1>6. ASSUME NEW x \in Fires["backfill_6hourly"], x > t PROVE n <= x
  <2>1. x \in 0..5760 /\ x % 720 = 30
    BY CronIs
  <2>2. n > x => n >= x + 720
    BY <1>5, <2>1, SixHoursApart
  <2>. QED BY <2>1, <1>6, <1>1, <1>4, <1>5, <2>2
<1>7. /\ n > t /\ n \in Fires["backfill_6hourly"]
      /\ \A x \in Fires["backfill_6hourly"] : x > t => n <= x
  <2>1. Fires["backfill_6hourly"] = {x \in 0..5760 : x % 720 = 30}
    BY CronIs
  <2>2. n \in Fires["backfill_6hourly"]
    BY <1>5, <2>1
  <2>. QED BY <1>5, <1>6, <2>2
<1>. QED BY <1>7, AnnouncedIs DEF Announced, n

(* Whatever the queue holds, at every moment of the day the console        *)
(* announces when the cron will next run, which is all it has to tell      *)
(* before the first run is accepted.                                       *)
THEOREM AnnouncedIsNext ==
  /\ \A t \in Moment : \A s \in DOMAIN Fires : Announced(t, s)
  /\ StatusSpec => []NextRunIsNext
<1>1. \A t \in Moment : \A s \in DOMAIN Fires : Announced(t, s)
  BY HourlyIsNext, DailyIsNext, RunnerIsNext, SixHourlyIsNext DEF Fires
<1>2. NextRunIsNext
  BY <1>1 DEF NextRunIsNext, Announced, Moment
<1>3. StatusSpec => []NextRunIsNext
  BY <1>2, PTL
<1>. QED BY <1>1, <1>3
=============================================================================
