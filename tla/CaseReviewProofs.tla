--------------------------- MODULE CaseReviewProofs ---------------------------
(***************************************************************************)
(* Proofs about CaseReview for every set of cases, rules, administrators   *)
(* and recomputers, and every bound.                                       *)
(***************************************************************************)
EXTENDS CaseReview, FiniteSetTheorems, TLAPS

TaskStatus == {"none", "open", "completed", "cancelled"}

LEMMA DefaultsType ==
  NoRequest \in Request /\ NoReplacement \in Replacement
BY CaseAssumption, BoundAssumption
   DEF NoRequest, Request, NoReplacement, Replacement, Status, Stamp, Gen

LEMMA TypeInit == Init => TypeOK
BY DefaultsType, BoundAssumption
   DEF Init, TypeOK, FindingKey, Gen, Stamp

(* Replacements of findings. *)
LEMMA TypeReplace ==
  ASSUME TypeOK, NEW w \in Recomputer, ReplaceStep(w) PROVE TypeOK'
<1> USE DEF TypeOK, findings, reviews, history
<1>1. ASSUME NEW d \in Date, NEW R \in Outcomes,
             BeginReplace(w, d, R \intersect OfDate(d))
      PROVE  TypeOK'
  <2>1. computed + 1 \in Gen
    BY <1>1, BoundAssumption DEF BeginReplace, Gen
  <2>2. /\ R \intersect OfDate(d) \in SUBSET FindingKey
        /\ CurrentOf(d) \in SUBSET FindingKey
    BY DEF OfDate, CurrentOf
  <2>3. rp' \in [Recomputer -> Replacement]
    <3> DEFINE clash == \E v \in Recomputer :
                          Busy(v, d) /\ ~({v, w} \subseteq Locked)
               new == [pc |-> "retire", date |-> d, gen |-> computed + 1,
                       rows |-> R \intersect OfDate(d), seen |-> CurrentOf(d),
                       old |-> {}, clash |-> clash]
    <3>1. new \in Replacement
      BY <2>1, <2>2 DEF Replacement
    <3>2. \A v \in Recomputer : [rp[v] EXCEPT !.clash = TRUE] \in Replacement
      BY DEF Replacement
    <3>3. rp' = [v \in Recomputer |->
                   IF v = w THEN new
                   ELSE IF clash /\ Busy(v, d) THEN [rp[v] EXCEPT !.clash = TRUE]
                                               ELSE rp[v]]
      BY <1>1 DEF BeginReplace
    <3> HIDE DEF new, clash
    <3>. QED BY <3>1, <3>2, <3>3
  <2>4. computed' = computed + 1
    BY <1>1 DEF BeginReplace
  <2>5. clashed' \subseteq Date /\ unsettled' \subseteq clashed'
    BY <1>1 DEF BeginReplace
  <2>6. UNCHANGED <<findings, reviews, clock, ap, raced, byHand>>
    BY <1>1 DEF BeginReplace
  <2>. QED BY <2>1, <2>3, <2>4, <2>5, <2>6
<1>2. CASE Retire(w)
  <2>1. [rp[w] EXCEPT !.pc = "insert", !.seen = {k \in @ : current[k]},
                      !.old = generation[rp[w].date]] \in Replacement
    BY DEF Replacement
  <2>2. rp' \in [Recomputer -> Replacement]
    BY <1>2, <2>1 DEF Retire
  <2>. QED BY <1>2, <2>2 DEF Retire
<1>3. CASE CommitReplace(w)
  <2>1. /\ rp[w].gen \in Gen /\ rp[w].old \in SUBSET Gen /\ rp[w].date \in Date
    BY DEF Replacement
  <2>2. finding' \in [FindingKey -> Gen]
    BY <1>3, <2>1 DEF CommitReplace
  <2>3. current' \in [FindingKey -> BOOLEAN]
    BY <1>3 DEF CommitReplace
  <2>4. generation' \in [Date -> SUBSET Gen]
    BY <1>3, <2>1 DEF CommitReplace
  <2>5. rp' \in [Recomputer -> Replacement]
    BY <1>3, DefaultsType DEF CommitReplace
  <2>6. clashed' \subseteq Date /\ unsettled' \subseteq clashed'
    BY <1>3 DEF CommitReplace
  <2>. QED BY <1>3, <2>2, <2>3, <2>4, <2>5, <2>6 DEF CommitReplace
<1>4. CASE FailReplace(w)
  BY <1>4, DefaultsType DEF FailReplace
<1>. QED BY <1>1, <1>2, <1>3, <1>4 DEF ReplaceStep

LEMMA TypePurge ==
  ASSUME TypeOK, NEW cutoff \in Date, PurgeFindings(cutoff) PROVE TypeOK'
<1>1. finding' \in [FindingKey -> Gen]
  BY BoundAssumption DEF PurgeFindings, TypeOK, Gen
<1>2. current' \in [FindingKey -> BOOLEAN]
  BY DEF PurgeFindings, TypeOK
<1>. QED BY <1>1, <1>2 DEF PurgeFindings, TypeOK, reviews, history

LEMMA SyncedType ==
  ASSUME NEW s \in Status, NEW v \in TaskStatus PROVE Synced(s, v) \in TaskStatus
BY DEF Synced, Status, TaskStatus

LEMMA KeysOfRequests ==
  /\ \A K \in Inputs : K \in SUBSET (Case \union FindingKey)
  /\ \A f : FilteredCases(f) \in SUBSET (Case \union FindingKey)
BY InputsAssumption DEF FilteredCases, CasesOf, FindingKey

LEMMA TypeAdmin ==
  ASSUME TypeOK, NEW a \in Admin, AdminStep(a) PROVE TypeOK'
<1> USE DEF TypeOK, findings, reviews, history
<1>1. ASSUME NEW s \in Decisions, NEW K \in SUBSET (Case \union FindingKey),
             Match(a, s, K)
      PROVE  TypeOK'
  <2>1. clock + 1 \in Stamp
    BY <1>1, BoundAssumption DEF Match, Stamp
  <2>2. [NoRequest EXCEPT !.pc = "matched", !.op = s, !.keys = K,
                          !.stamp = clock + 1] \in Request
    BY <2>1, DefaultsType, InputsAssumption DEF Request
  <2>3. ap' \in [Admin -> Request]
    BY <1>1, <2>2 DEF Match
  <2>4. raced' \subseteq Case
    BY <1>1 DEF Match
  <2>. QED BY <1>1, <2>1, <2>3, <2>4 DEF Match
<1>2. CASE SelectRows(a)
  <2>1. Matching(ap[a].keys) \in SUBSET FindingKey
    BY DEF Matching
  <2>2. [ap[a] EXCEPT !.pc = "locking", !.rows = Matching(ap[a].keys)] \in Request
    BY <2>1 DEF Request
  <2>3. ap' \in [Admin -> Request]
    BY <1>2, <2>2, DefaultsType DEF SelectRows
  <2>. QED BY <1>2, <2>3 DEF SelectRows
<1>3. ASSUME NEW c \in Case, Lock(a, c) PROVE TypeOK'
  <2>1. [ap[a] EXCEPT !.held = @ \union {c}] \in Request
    BY DEF Request
  <2>2. ap' \in [Admin -> Request]
    BY <1>3, <2>1 DEF Lock
  <2>. QED BY <1>3, <2>2 DEF Lock
<1>4. CASE CommitReview(a)
  <2>1. /\ ap[a].op \in Status /\ ap[a].stamp \in Stamp
        /\ ap[a].rows \in SUBSET FindingKey
    BY DEF Request
  <2>2. state' \in [Case -> ReviewState \union {None}]
    BY <1>4, <2>1 DEF CommitReview, ReviewState
  <2>3. events' \in [Case -> SUBSET Event]
    <3>1. \A c \in Case :
            {[status |-> ap[a].op, stamp |-> ap[a].stamp, finding |-> k] :
               k \in {k \in ap[a].rows : k[1] = c}} \in SUBSET Event
      BY <2>1 DEF Event
    <3>. QED BY <1>4, <3>1 DEF CommitReview
  <2>4. tasks' \in [Case -> [TaskType -> TaskStatus]]
    <3>1. \A c \in Case, t \in TaskType : Synced(ap[a].op, tasks[c][t]) \in TaskStatus
      BY <2>1, SyncedType DEF TaskStatus
    <3>. QED BY <1>4, <3>1 DEF CommitReview, TaskStatus
  <2>5. byHand' \subseteq Case \X TaskType
    BY <1>4 DEF CommitReview
  <2>6. ap' \in [Admin -> Request]
    BY <1>4, DefaultsType DEF CommitReview
  <2>. QED BY <1>4, <2>2, <2>3, <2>4, <2>5, <2>6 DEF CommitReview, TaskStatus
<1>5. CASE Rollback(a)
  BY <1>5, DefaultsType DEF Rollback
<1>6. ASSUME NEW owner \in {a, None}, NEW K \in Inputs, AssignCases(a, owner, K)
      PROVE  TypeOK'
  <2>1. clock + 1 \in Stamp
    BY <1>6, BoundAssumption DEF AssignCases, Stamp
  <2>2. assignee' \in [Case -> Admin \union {None}]
    BY <1>6 DEF AssignCases
  <2>. QED BY <1>6, <2>1, <2>2 DEF AssignCases
<1>. QED BY <1>1, <1>2, <1>3, <1>4, <1>5, <1>6, KeysOfRequests DEF AdminStep

LEMMA TypeTask ==
  ASSUME TypeOK, NEW c \in Case, NEW t \in TaskType, NEW w \in {"open", "completed"},
         UpdateTask(c, t, w)
  PROVE  TypeOK'
<1>1. clock + 1 \in Stamp
  BY BoundAssumption DEF UpdateTask, Stamp, TypeOK
<1>2. tasks' \in [Case -> [TaskType -> TaskStatus]]
  BY DEF UpdateTask, TypeOK, TaskStatus
<1>3. byHand' \subseteq Case \X TaskType
  BY DEF UpdateTask, TypeOK
<1>. QED BY <1>1, <1>2, <1>3 DEF UpdateTask, TypeOK, TaskStatus, findings

LEMMA TypeStep == TypeOK /\ [Next]_vars => TypeOK'
<1>1. TypeOK /\ UNCHANGED vars => TypeOK'
  BY DEF TypeOK, vars, findings, reviews, history
<1>. QED BY <1>1, TypeReplace, TypePurge, TypeAdmin, TypeTask DEF Next

(* Every table and every request and replacement keeps its type.           *)
THEOREM TypeCorrect == Spec => []TypeOK
BY TypeInit, TypeStep, PTL DEF Spec

-----------------------------------------------------------------------------
(* Statuses and tasks *)

(* A committed review gives its cases its status, whatever was there.      *)
LEMMA StatusAfterReview ==
  ASSUME TypeOK, NEW a \in Admin, CommitReview(a), NEW c \in Case
  PROVE  StatusOf(c)' = IF c \in CasesOf(ap[a].rows) THEN ap[a].op ELSE StatusOf(c)
<1>1. [status |-> ap[a].op, stamp |-> ap[a].stamp] \in [status : Status, stamp : Nat]
  <2>1. ap[a] \in Request
    BY DEF TypeOK
  <2>2. ap[a].op \in Status /\ ap[a].stamp \in Nat
    BY <2>1, BoundAssumption DEF Request, Stamp
  <2>. QED BY <2>2
<1>2. state'[c] = IF c \in CasesOf(ap[a].rows)
                  THEN [status |-> ap[a].op, stamp |-> ap[a].stamp]
                  ELSE state[c]
  BY DEF CommitReview
<1>. QED BY <1>1, <1>2, NoneAssumption DEF StatusOf

LEMMA OnlyReviewsChangeStatus ==
  ASSUME TypeOK, UNCHANGED state, NEW c \in Case
  PROVE  StatusOf(c)' = StatusOf(c)
BY DEF StatusOf

(* Everything but these four leaves the tables of the reviews alone.       *)
LEMMA OtherSteps ==
  ASSUME [Next]_vars
  PROVE  \/ UNCHANGED <<reviews, byHand>>
         \/ \E a \in Admin : CommitReview(a)
         \/ \E a \in Admin, owner \in Admin \union {None}, K \in Inputs :
              owner \in {a, None} /\ AssignCases(a, owner, K)
         \/ \E c \in Case, t \in TaskType, w \in {"open", "completed"} :
              UpdateTask(c, t, w)
<1>1. ASSUME NEW w \in Recomputer, ReplaceStep(w) PROVE UNCHANGED <<reviews, byHand>>
  BY <1>1 DEF ReplaceStep, BeginReplace, Retire, CommitReplace, FailReplace, history
<1>2. ASSUME NEW d \in Date, PurgeFindings(d) PROVE UNCHANGED <<reviews, byHand>>
  BY <1>2 DEF PurgeFindings, history
<1>3. ASSUME NEW a \in Admin, AdminStep(a)
      PROVE  \/ UNCHANGED <<reviews, byHand>>
             \/ CommitReview(a)
             \/ \E owner \in {a, None}, K \in Inputs : AssignCases(a, owner, K)
  BY <1>3 DEF AdminStep, Match, SelectRows, Lock, Rollback, history
<1>4. UNCHANGED vars => UNCHANGED <<reviews, byHand>>
  BY DEF vars, reviews, history
<1>. QED BY <1>1, <1>2, <1>3, <1>4 DEF Next

LEMMA TaskOf ==
  ASSUME TypeOK, NEW c \in Case, NEW t \in TaskType
  PROVE  tasks[c][t] \in TaskStatus
BY DEF TypeOK, TaskStatus

LEMMA TasksAfterReview ==
  ASSUME TypeOK, NEW a \in Admin, CommitReview(a), NEW c \in Case, NEW t \in TaskType
  PROVE  tasks'[c][t] = IF c \in CasesOf(ap[a].rows) THEN Synced(ap[a].op, tasks[c][t])
                                                     ELSE tasks[c][t]
BY DEF CommitReview

LEMMA TasksAfterUpdate ==
  ASSUME TypeOK, NEW c \in Case, NEW t \in TaskType, NEW w \in {"open", "completed"},
         UpdateTask(c, t, w), NEW e \in Case, NEW u \in TaskType
  PROVE  /\ tasks[c][t] # "none"
         /\ tasks'[e][u] = IF e = c /\ u = t THEN w ELSE tasks[e][u]
BY DEF UpdateTask, TypeOK

LEMMA ConfirmedStep == TypeOK /\ ConfirmedHasTasks /\ [Next]_vars => ConfirmedHasTasks'
<1> SUFFICES ASSUME TypeOK, ConfirmedHasTasks, [Next]_vars, NEW e \in Case,
                    StatusOf(e)' = "confirmed_fraud", NEW u \in TaskType
             PROVE  tasks'[e][u] \in {"open", "completed"}
  BY DEF ConfirmedHasTasks
<1>1. CASE UNCHANGED <<reviews, byHand>>
  BY <1>1, OnlyReviewsChangeStatus DEF reviews, ConfirmedHasTasks
<1>2. ASSUME NEW a \in Admin, CommitReview(a)
      PROVE  tasks'[e][u] \in {"open", "completed"}
  <2>1. CASE e \in CasesOf(ap[a].rows)
    <3>1. ap[a].op = "confirmed_fraud"
      BY <1>2, <2>1, StatusAfterReview
    <3>2. tasks'[e][u] = Synced("confirmed_fraud", tasks[e][u])
      BY <1>2, <2>1, <3>1, TasksAfterReview
    <3>. QED BY <3>2 DEF Synced
  <2>2. CASE e \notin CasesOf(ap[a].rows)
    BY <1>2, <2>2, StatusAfterReview, TasksAfterReview DEF ConfirmedHasTasks
  <2>. QED BY <2>1, <2>2
<1>3. ASSUME NEW a \in Admin, NEW owner, NEW K, AssignCases(a, owner, K)
      PROVE  tasks'[e][u] \in {"open", "completed"}
  BY <1>3, OnlyReviewsChangeStatus DEF AssignCases, ConfirmedHasTasks
<1>4. ASSUME NEW c \in Case, NEW t \in TaskType, NEW w \in {"open", "completed"},
             UpdateTask(c, t, w)
      PROVE  tasks'[e][u] \in {"open", "completed"}
  <2>1. StatusOf(e) = "confirmed_fraud"
    BY <1>4, OnlyReviewsChangeStatus DEF UpdateTask
  <2>. QED BY <1>4, <2>1, TasksAfterUpdate DEF ConfirmedHasTasks
<1>. QED BY <1>1, <1>2, <1>3, <1>4, OtherSteps

(* Whatever reviews, recomputations, ticking off by hand and retention do, *)
(* in any order: a confirmed case has every follow-up task, open or done.  *)
THEOREM FraudIsFollowedUp == Spec => []ConfirmedHasTasks
<1>1. Init => ConfirmedHasTasks
  BY DEF Init, ConfirmedHasTasks, StatusOf
<1>. QED BY <1>1, TypeInit, TypeStep, ConfirmedStep, PTL DEF Spec

LEMMA ClearedStep ==
  TypeOK /\ ClearedHasNoOpenTask /\ [Next]_vars => ClearedHasNoOpenTask'
<1> SUFFICES ASSUME TypeOK, ClearedHasNoOpenTask, [Next]_vars, NEW e \in Case,
                    StatusOf(e)' \in {"white", "unhandled"}, NEW u \in TaskType,
                    tasks'[e][u] = "open"
             PROVE  <<e, u>> \in byHand'
  BY DEF ClearedHasNoOpenTask
<1>1. CASE UNCHANGED <<reviews, byHand>>
  BY <1>1, OnlyReviewsChangeStatus DEF reviews, ClearedHasNoOpenTask
<1>2. ASSUME NEW a \in Admin, CommitReview(a) PROVE <<e, u>> \in byHand'
  <2>1. e \notin CasesOf(ap[a].rows)
    <3>1. SUFFICES ASSUME e \in CasesOf(ap[a].rows) PROVE FALSE
      OBVIOUS
    <3>2. ap[a].op \in {"white", "unhandled"}
      BY <1>2, <3>1, StatusAfterReview
    <3>3. Synced(ap[a].op, tasks[e][u]) # "open"
      BY <3>2 DEF Synced
    <3>. QED BY <1>2, <3>1, <3>3, TasksAfterReview
  <2>2. <<e, u>> \in byHand
    BY <1>2, <2>1, StatusAfterReview, TasksAfterReview DEF ClearedHasNoOpenTask
  <2>. QED BY <1>2, <2>1, <2>2 DEF CommitReview
<1>3. ASSUME NEW a \in Admin, NEW owner, NEW K, AssignCases(a, owner, K)
      PROVE  <<e, u>> \in byHand'
  BY <1>3, OnlyReviewsChangeStatus DEF AssignCases, ClearedHasNoOpenTask, history
<1>4. ASSUME NEW c \in Case, NEW t \in TaskType, NEW w \in {"open", "completed"},
             UpdateTask(c, t, w)
      PROVE  <<e, u>> \in byHand'
  <2>1. StatusOf(e) \in {"white", "unhandled"}
    BY <1>4, OnlyReviewsChangeStatus DEF UpdateTask
  <2>2. CASE e = c /\ u = t
    <3>1. w = "open"
      BY <1>4, <2>2, TasksAfterUpdate
    <3>. QED BY <1>4, <2>2, <3>1 DEF UpdateTask
  <2>3. CASE ~(e = c /\ u = t)
    <3>1. <<e, u>> \in byHand
      BY <1>4, <2>1, <2>3, TasksAfterUpdate DEF ClearedHasNoOpenTask
    <3>2. <<e, u>> # <<c, t>>
      BY <2>3
    <3>. QED BY <1>4, <3>1, <3>2 DEF UpdateTask
  <2>. QED BY <2>2, <2>3
<1>. QED BY <1>1, <1>2, <1>3, <1>4, OtherSteps

(* By any sequence of reviews a case found to be legitimate leaves nothing *)
(* to do but what somebody has taken up again by hand.                     *)
THEOREM ClearedIsClear == Spec => []ClearedHasNoOpenTask
<1>1. Init => ClearedHasNoOpenTask
  BY DEF Init, ClearedHasNoOpenTask
<1>. QED BY <1>1, TypeInit, TypeStep, ClearedStep, PTL DEF Spec

-----------------------------------------------------------------------------
(* Refinement *)

LEMMA RefinedInit == Init => Lifecycle!Init
BY DEF Init, StatusOf, Lifecycle!Init

LEMMA RefinedReview ==
  ASSUME TypeOK, NEW a \in Admin, CommitReview(a) PROVE Lifecycle!Next
<1> DEFINE S == CasesOf(ap[a].rows)
           s == ap[a].op
<1>1. S \in SUBSET Case /\ s \in Lifecycle!Status
  <2>1. ap[a] \in Request
    BY DEF TypeOK
  <2>2. ap[a].rows \in SUBSET FindingKey /\ ap[a].op \in Status
    BY <2>1 DEF Request
  <2>. QED BY <2>2 DEF CasesOf, FindingKey, Status, Lifecycle!Status
<1>2. [c \in Case |-> StatusOf(c)]'
        = [c \in Case |-> IF c \in S THEN s ELSE [d \in Case |-> StatusOf(d)][c]]
  BY StatusAfterReview
<1>3. tasks' = [c \in Case |->
                  IF c \in S
                  THEN [t \in TaskType |-> Lifecycle!Consequence(s, tasks[c][t])]
                  ELSE tasks[c]]
  <2>1. \A c \in Case, t \in TaskType :
          Synced(s, tasks[c][t]) = Lifecycle!Consequence(s, tasks[c][t])
    <3>1. \A v \in TaskStatus : Synced(s, v) = Lifecycle!Consequence(s, v)
      BY <1>1 DEF Synced, TaskStatus, Lifecycle!Consequence, Lifecycle!Status
    <3>. QED BY <3>1, TaskOf
  <2>2. tasks' = [c \in Case |-> IF c \in S
                                 THEN [t \in TaskType |-> Synced(s, tasks[c][t])]
                                 ELSE tasks[c]]
    BY DEF CommitReview
  <2>. QED BY <2>1, <2>2
<1>4. UNCHANGED assignee
  BY DEF CommitReview
<1>5. Lifecycle!Review(S, s)
  BY <1>2, <1>3, <1>4 DEF Lifecycle!Review
<1>. QED BY <1>1, <1>5 DEF Lifecycle!Next

LEMMA RefinedStep ==
  TypeOK /\ [Next]_vars
    => [Lifecycle!Next]_<<[c \in Case |-> StatusOf(c)], tasks, assignee>>
<1> SUFFICES ASSUME TypeOK, [Next]_vars
             PROVE  \/ Lifecycle!Next
                    \/ UNCHANGED <<[c \in Case |-> StatusOf(c)], tasks, assignee>>
  OBVIOUS
<1>0. UNCHANGED state =>
        [c \in Case |-> StatusOf(c)]' = [c \in Case |-> StatusOf(c)]
  BY DEF StatusOf
<1>1. CASE UNCHANGED <<reviews, byHand>>
  BY <1>0, <1>1 DEF reviews
<1>2. ASSUME NEW a \in Admin, NEW owner \in Admin \union {None}, NEW K \in Inputs,
             AssignCases(a, owner, K)
      PROVE  Lifecycle!Next
  <2> DEFINE S == CasesOf(Matching(K))
  <2>1. S \in SUBSET Case
    BY DEF CasesOf, Matching, FindingKey
  <2>2. UNCHANGED <<state, tasks>>
    BY <1>2 DEF AssignCases
  <2>3. assignee' = [c \in Case |-> IF c \in S THEN owner ELSE assignee[c]]
    BY <1>2 DEF AssignCases
  <2>4. CASE owner = None
    <3>1. Lifecycle!Release(S)
      BY <1>0, <2>2, <2>3, <2>4 DEF Lifecycle!Release
    <3>. QED BY <2>1, <3>1 DEF Lifecycle!Next
  <2>5. CASE owner \in Admin
    <3>1. Lifecycle!Claim(S, owner)
      BY <1>0, <2>2, <2>3 DEF Lifecycle!Claim
    <3>. QED BY <2>1, <2>5, <3>1 DEF Lifecycle!Next
  <2>. QED BY <2>4, <2>5
<1>3. ASSUME NEW c \in Case, NEW t \in TaskType, NEW w \in {"open", "completed"},
             UpdateTask(c, t, w)
      PROVE  Lifecycle!Next
  <2>1. Lifecycle!Work(c, t, w)
    BY <1>0, <1>3 DEF UpdateTask, Lifecycle!Work
  <2>. QED BY <2>1 DEF Lifecycle!Next
<1>. QED BY <1>1, <1>2, <1>3, OtherSteps, RefinedReview

(* The review workflow implements CaseLifecycle: transactions that lock    *)
(* rows one by one, end in deadlock or fail and act on findings that are   *)
(* replaced meanwhile look like single steps on the cases.                 *)
THEOREM Implements == Spec => LifecycleSpec
BY RefinedInit, RefinedStep, TypeInit, TypeStep, PTL
   DEF Spec, LifecycleSpec, Lifecycle!Spec

-----------------------------------------------------------------------------
(* Replacements of one date *)

(* A replacement that no other has overlapped has its date to itself: what *)
(* its updates found to be current still is.                               *)
Alone(w) ==
  /\ \A v \in Recomputer \ {w} : ~Busy(v, rp[w].date)
  /\ rp[w].seen = CurrentOf(rp[w].date)
  /\ rp[w].pc = "insert" => rp[w].old = generation[rp[w].date]

ReplaceInv ==
  \A w \in Recomputer : rp[w].pc # "idle" =>
    /\ rp[w].rows \subseteq OfDate(rp[w].date)
    /\ rp[w].seen \subseteq OfDate(rp[w].date)
    /\ \A k, l \in rp[w].rows : k[1] = l[1] => k = l
    /\ rp[w].clash => rp[w].date \in unsettled
    /\ ~rp[w].clash => Alone(w)

Settled(d) ==
  /\ generation[d] = {} \/ \E g \in Gen : generation[d] = {g}
  /\ \A k \in CurrentOf(d) : finding[k] \in generation[d]
  /\ \A k, l \in CurrentOf(d) : k[1] = l[1] => k = l

GenerationInv == \A d \in Date \ unsettled : Settled(d)

LEMMA GenerationInit == Init => ReplaceInv /\ GenerationInv
<1>1. ASSUME Init PROVE ReplaceInv
  <2>1. \A w \in Recomputer : rp[w].pc = "idle"
    BY <1>1 DEF Init, NoReplacement
  <2>. QED BY <2>1 DEF ReplaceInv
<1>2. ASSUME Init PROVE GenerationInv
  <2>1. /\ \A d \in Date : generation[d] = {}
        /\ \A d \in Date : CurrentOf(d) = {}
    BY <1>2 DEF Init, CurrentOf, OfDate
  <2>. QED BY <2>1 DEF GenerationInv, Settled
<1>. QED BY <1>1, <1>2

LEMMA SettledStays ==
  ASSUME NEW d \in Date, Settled(d), generation'[d] = generation[d],
         \A k \in OfDate(d) : /\ current'[k] => current[k]
                              /\ current'[k] => finding'[k] = finding[k]
  PROVE  Settled(d)'
BY DEF Settled, CurrentOf, OfDate

LEMMA GenerationBegin ==
  ASSUME TypeOK, ReplaceInv, GenerationInv, NEW w \in Recomputer, NEW d \in Date,
         NEW R \in Outcomes, BeginReplace(w, d, R \intersect OfDate(d))
  PROVE  ReplaceInv' /\ GenerationInv'
<1> DEFINE clash == \E v \in Recomputer : Busy(v, d) /\ ~({v, w} \subseteq Locked)
           x == [pc |-> "retire", date |-> d, gen |-> computed + 1,
                 rows |-> R \intersect OfDate(d), seen |-> CurrentOf(d),
                 old |-> {}, clash |-> clash]
<1>1. /\ rp[w].pc = "idle"
      /\ w \in Locked => \A v \in Locked : ~Busy(v, d)
      /\ rp' = [v \in Recomputer |->
                  IF v = w THEN x
                  ELSE IF clash /\ Busy(v, d) THEN [rp[v] EXCEPT !.clash = TRUE]
                                              ELSE rp[v]]
      /\ unsettled' = IF clash THEN unsettled \union {d} ELSE unsettled
      /\ UNCHANGED findings
  BY DEF BeginReplace
<1> HIDE DEF x
<1>2. /\ CurrentOf(d)' = CurrentOf(d)
      /\ \A e \in Date : CurrentOf(e)' = CurrentOf(e)
  BY <1>1 DEF CurrentOf, OfDate, findings
<1>3. GenerationInv'
  <2>1. unsettled \subseteq unsettled'
    BY <1>1
  <2>2. \A e \in Date \ unsettled' : Settled(e) => Settled(e)'
    BY <1>1, <1>2 DEF Settled, findings
  <2>. QED BY <2>1, <2>2 DEF GenerationInv
<1>4. ~clash => \A v \in Recomputer : ~Busy(v, d)
  BY <1>1, LockedAssumption DEF clash
<1> HIDE DEF clash
<1>5. ASSUME NEW v \in Recomputer, v # w
      PROVE  /\ rp'[v].pc = rp[v].pc /\ rp'[v].date = rp[v].date
             /\ rp'[v].rows = rp[v].rows /\ rp'[v].seen = rp[v].seen
             /\ rp'[v].old = rp[v].old
             /\ rp'[v].clash = IF clash /\ Busy(v, d) THEN TRUE ELSE rp[v].clash
  BY <1>1, <1>5 DEF TypeOK, Replacement
<1>6. /\ rp'[w].pc = "retire" /\ rp'[w].date = d /\ rp'[w].seen = CurrentOf(d)
      /\ rp'[w].rows = R \intersect OfDate(d) /\ rp'[w].clash = clash
  BY <1>1 DEF x
<1>7. ASSUME NEW v \in Recomputer, v # w, rp'[v].pc # "idle"
      PROVE  /\ rp'[v].clash => rp'[v].date \in unsettled'
             /\ ~rp'[v].clash => Alone(v)'
  <2>1. CASE Busy(v, d)
    <3>1. clash /\ rp'[v].clash /\ rp'[v].date = d
      BY <1>4, <1>5, <1>7, <2>1 DEF Busy
    <3>. QED BY <1>1, <3>1
  <2>2. CASE ~Busy(v, d)
    <3>1. rp'[v].clash = rp[v].clash /\ rp'[v].date # d
      BY <1>5, <1>7, <2>2 DEF Busy
    <3>2. rp[v].clash => rp'[v].date \in unsettled'
      BY <1>1, <1>5, <1>7 DEF ReplaceInv
    <3>3. ~rp[v].clash => Alone(v)
      BY <1>5, <1>7 DEF ReplaceInv
    <3>4. \A u \in Recomputer : Busy(u, rp[v].date)' => Busy(u, rp[v].date)
      <4>1. SUFFICES ASSUME NEW u \in Recomputer, rp'[u].pc # "idle",
                            rp'[u].date = rp'[v].date
                     PROVE  rp[u].pc # "idle" /\ rp[u].date = rp[v].date
        BY DEF Busy
      <4>2. u # w
        BY <1>6, <3>1, <4>1
      <4>. QED BY <1>5, <1>7, <4>1, <4>2
    <3>5. rp[v].date \in Date
      BY DEF TypeOK, Replacement
    <3>6. Alone(v) => Alone(v)'
      BY <1>1, <1>2, <1>5, <1>7, <3>4, <3>5 DEF Alone, findings, Busy
    <3>. QED BY <3>1, <3>2, <3>3, <3>6
  <2>. QED BY <2>1, <2>2
<1>8. /\ \A k, l \in rp'[w].rows : k[1] = l[1] => k = l
      /\ rp'[w].rows \subseteq OfDate(d) /\ rp'[w].seen \subseteq OfDate(d)
  BY <1>6, InputsAssumption DEF CurrentOf
<1>9. ~rp'[w].clash => Alone(w)'
  BY <1>2, <1>4, <1>5, <1>6 DEF Alone, Busy
<1>10. \A e : OfDate(e)' = OfDate(e)
  BY DEF OfDate
<1>11. rp'[w].clash => rp'[w].date \in unsettled'
  BY <1>1, <1>6
<1>12. ReplaceInv'
  BY <1>5, <1>6, <1>7, <1>8, <1>9, <1>10, <1>11 DEF ReplaceInv
<1>. QED BY <1>3, <1>12

LEMMA GenerationRetire ==
  ASSUME TypeOK, ReplaceInv, GenerationInv, NEW w \in Recomputer, Retire(w)
  PROVE  ReplaceInv' /\ GenerationInv'
<1>1. /\ rp[w].pc = "retire" /\ UNCHANGED <<findings, unsettled>>
      /\ rp' = [rp EXCEPT ![w] = [rp[w] EXCEPT !.pc = "insert",
                                    !.seen = {k \in rp[w].seen : current[k]},
                                    !.old = generation[rp[w].date]]]
  BY DEF Retire, history
<1>2. /\ \A v \in Recomputer \ {w} : rp'[v] = rp[v]
      /\ rp'[w].pc = "insert" /\ rp'[w].date = rp[w].date
      /\ rp'[w].rows = rp[w].rows /\ rp'[w].clash = rp[w].clash
      /\ rp'[w].seen = {k \in rp[w].seen : current[k]}
      /\ rp'[w].old = generation[rp[w].date]
  BY <1>1 DEF TypeOK, Replacement
<1>3. \A d : OfDate(d)' = OfDate(d) /\ CurrentOf(d)' = CurrentOf(d)
  BY <1>1 DEF OfDate, CurrentOf, findings
<1>4. \A v \in Recomputer, d \in Date : Busy(v, d)' <=> Busy(v, d)
  BY <1>1, <1>2 DEF Busy
<1>5. \A v \in Recomputer : rp[v].date \in Date
  BY DEF TypeOK, Replacement
<1>6. ASSUME NEW v \in Recomputer \ {w} PROVE Alone(v) => Alone(v)'
  BY <1>1, <1>2, <1>3, <1>4, <1>5 DEF Alone, findings
<1>7. Alone(w) => Alone(w)'
  <2>1. rp[w].seen = CurrentOf(rp[w].date) => rp'[w].seen = CurrentOf(rp[w].date)
    BY <1>2 DEF CurrentOf
  <2>. QED BY <1>1, <1>2, <1>3, <1>4, <1>5, <2>1 DEF Alone, findings
<1>8. ReplaceInv'
  BY <1>1, <1>2, <1>3, <1>6, <1>7 DEF ReplaceInv
<1>9. GenerationInv'
  BY <1>1, <1>3 DEF GenerationInv, Settled, findings
<1>. QED BY <1>8, <1>9

(* A process that leaves, or a purge of dates nobody is recomputing.       *)
LEMMA GenerationFail ==
  ASSUME TypeOK, ReplaceInv, GenerationInv, NEW w \in Recomputer, FailReplace(w)
  PROVE  ReplaceInv' /\ GenerationInv'
<1>1. /\ UNCHANGED <<findings, unsettled>> /\ rp'[w].pc = "idle"
      /\ \A v \in Recomputer \ {w} : rp'[v] = rp[v]
  BY DEF FailReplace, history, NoReplacement, TypeOK
<1>2. \A d : OfDate(d)' = OfDate(d) /\ CurrentOf(d)' = CurrentOf(d)
  BY <1>1 DEF OfDate, CurrentOf, findings
<1>3. \A v \in Recomputer, d \in Date : Busy(v, d)' => Busy(v, d)
  BY <1>1 DEF Busy
<1>4. \A v \in Recomputer : rp[v].date \in Date
  BY DEF TypeOK, Replacement
<1>5. ASSUME NEW v \in Recomputer \ {w} PROVE Alone(v) => Alone(v)'
  BY <1>1, <1>2, <1>3, <1>4 DEF Alone, findings
<1>6. ReplaceInv'
  BY <1>1, <1>2, <1>5 DEF ReplaceInv
<1>7. GenerationInv'
  BY <1>1, <1>2 DEF GenerationInv, Settled, findings
<1>. QED BY <1>6, <1>7

LEMMA GenerationCommit ==
  ASSUME TypeOK, ReplaceInv, GenerationInv, NEW w \in Recomputer, CommitReplace(w)
  PROVE  ReplaceInv' /\ GenerationInv'
<1> SUFFICES ASSUME NEW d \in Date, d = rp[w].date
             PROVE  ReplaceInv' /\ GenerationInv'
  BY DEF TypeOK, Replacement
<1>0. rp[w].gen \in Gen /\ \A v \in Recomputer : rp[v].date \in Date
  BY DEF TypeOK, Replacement
<1>1. /\ rp[w].pc = "insert"
      /\ rp[w].rows \subseteq OfDate(d) /\ rp[w].seen \subseteq OfDate(d)
      /\ \A k, l \in rp[w].rows : k[1] = l[1] => k = l
      /\ rp[w].clash => d \in unsettled
      /\ ~rp[w].clash => Alone(w)
  BY DEF CommitReplace, ReplaceInv
<1>2. /\ finding' = [k \in FindingKey |->
                       IF k \in rp[w].rows THEN rp[w].gen ELSE finding[k]]
      /\ current' = [k \in FindingKey |->
                       k \in rp[w].rows \/ (current[k] /\ k \notin rp[w].seen)]
      /\ generation' = [generation EXCEPT ![d] = (@ \ rp[w].old) \union {rp[w].gen}]
      /\ unsettled' = IF rp[w].clash THEN unsettled ELSE unsettled \ {d}
  BY DEF CommitReplace
<1>3. rp'[w].pc = "idle" /\ \A v \in Recomputer \ {w} : rp'[v] = rp[v]
  BY DEF CommitReplace, NoReplacement, TypeOK
<1>4. ASSUME NEW e \in Date, e # d
      PROVE  /\ generation'[e] = generation[e]
             /\ \A k \in OfDate(e) : current'[k] = current[k] /\ finding'[k] = finding[k]
             /\ CurrentOf(e)' = CurrentOf(e)
  <2>1. OfDate(e) \intersect OfDate(d) = {}
    BY <1>4 DEF OfDate
  <2>2. \A k \in OfDate(e) : k \in FindingKey /\ k \notin rp[w].rows /\ k \notin rp[w].seen
    BY <1>1, <2>1 DEF OfDate
  <2>3. \A k \in OfDate(e) : current'[k] = current[k] /\ finding'[k] = finding[k]
    BY <1>2, <2>2 DEF TypeOK
  <2>4. generation'[e] = generation[e]
    BY <1>0, <1>2, <1>4 DEF TypeOK
  <2>. QED BY <2>3, <2>4 DEF CurrentOf, OfDate
<1>5. ASSUME NEW v \in Recomputer \ {w}, rp[v].pc # "idle", ~rp[v].clash
      PROVE  Alone(v)' /\ rp[v].date # d
  <2>1. Alone(v)
    BY <1>5 DEF ReplaceInv
  <2>2. rp[v].date # d
    BY <1>1, <2>1 DEF Alone, Busy
  <2>3. \A u \in Recomputer \ {v} : ~Busy(u, rp[v].date)'
    BY <1>3, <1>5, <2>1 DEF Alone, Busy
  <2>. QED BY <1>0, <1>3, <1>4, <2>1, <2>2, <2>3 DEF Alone
<1>6. ASSUME NEW v \in Recomputer \ {w}, rp[v].pc # "idle", rp[v].clash
      PROVE  rp[v].date \in unsettled'
  <2>1. rp[v].date \in unsettled
    BY <1>6 DEF ReplaceInv
  <2>2. ~rp[w].clash => rp[v].date # d
    BY <1>1, <1>6 DEF Alone, Busy
  <2>. QED BY <1>2, <2>1, <2>2
<1>7. ReplaceInv'
  <2>1. \A e : OfDate(e)' = OfDate(e)
    BY DEF OfDate
  <2>. QED BY <1>3, <1>5, <1>6, <2>1 DEF ReplaceInv
<1>8. ASSUME ~rp[w].clash PROVE Settled(d)'
  <2>1. rp[w].seen = CurrentOf(d) /\ rp[w].old = generation[d]
    BY <1>1, <1>8 DEF Alone
  <2>2. generation'[d] = {rp[w].gen}
    BY <1>0, <1>2, <2>1 DEF TypeOK
  <2>3. CurrentOf(d)' = rp[w].rows
    <3>1. \A k \in OfDate(d) : current'[k] <=> k \in rp[w].rows
      BY <1>2, <2>1 DEF CurrentOf, OfDate
    <3>. QED BY <1>1, <3>1 DEF CurrentOf, OfDate
  <2>4. \A k \in rp[w].rows : finding'[k] = rp[w].gen
    BY <1>1, <1>2 DEF OfDate
  <2>. QED BY <1>0, <1>1, <2>2, <2>3, <2>4 DEF Settled
<1>9. GenerationInv'
  <2>1. ASSUME NEW e \in Date \ unsettled', e # d PROVE Settled(e)'
    <3>1. Settled(e)
      BY <1>2, <2>1 DEF GenerationInv
    <3>. QED BY <1>4, <2>1, <3>1, SettledStays
  <2>2. d \notin unsettled' => ~rp[w].clash
    BY <1>1, <1>2
  <2>. QED BY <1>8, <2>1, <2>2 DEF GenerationInv
<1>. QED BY <1>7, <1>9

LEMMA GenerationPurge ==
  ASSUME TypeOK, ReplaceInv, GenerationInv, NEW cutoff \in Date,
         PurgeFindings(cutoff)
  PROVE  ReplaceInv' /\ GenerationInv'
<1>1. /\ UNCHANGED <<generation, rp, unsettled>>
      /\ \A v \in Recomputer, d \in Date : d < cutoff => ~Busy(v, d)
      /\ \A k \in FindingKey :
           /\ current'[k] = (current[k] /\ ~(DateOf[k[1]] < cutoff))
           /\ ~(DateOf[k[1]] < cutoff) => finding'[k] = finding[k]
  BY DEF PurgeFindings, history
<1>2. ASSUME NEW d \in Date PROVE Settled(d) => Settled(d)'
  <2>1. \A k \in OfDate(d) : /\ current'[k] => current[k]
                             /\ current'[k] => finding'[k] = finding[k]
    BY <1>1 DEF OfDate
  <2>. QED BY <1>1, <2>1, SettledStays
<1>3. GenerationInv'
  BY <1>1, <1>2 DEF GenerationInv
<1>4. ASSUME NEW d \in Date, ~(d < cutoff) PROVE CurrentOf(d)' = CurrentOf(d)
  <2>1. \A k \in OfDate(d) : current'[k] <=> current[k]
    BY <1>1, <1>4 DEF OfDate
  <2>. QED BY <2>1 DEF CurrentOf, OfDate
<1>5. ReplaceInv'
  <2>1. \A v \in Recomputer : rp[v].date \in Date
    BY DEF TypeOK, Replacement
  <2>2. ASSUME NEW v \in Recomputer, rp[v].pc # "idle"
        PROVE  CurrentOf(rp[v].date)' = CurrentOf(rp[v].date)
    BY <1>1, <1>4, <2>1, <2>2 DEF Busy
  <2>3. \A e : OfDate(e)' = OfDate(e)
    BY DEF OfDate
  <2>. QED BY <1>1, <2>2, <2>3 DEF ReplaceInv, Alone, Busy
<1>. QED BY <1>3, <1>5

LEMMA GenerationStep ==
  TypeOK /\ ReplaceInv /\ GenerationInv /\ [Next]_vars
    => ReplaceInv' /\ GenerationInv'
<1> SUFFICES ASSUME TypeOK, ReplaceInv, GenerationInv, [Next]_vars
             PROVE  ReplaceInv' /\ GenerationInv'
  OBVIOUS
<1>1. CASE UNCHANGED <<findings, rp, unsettled>>
  <2>1. \A d : OfDate(d)' = OfDate(d) /\ CurrentOf(d)' = CurrentOf(d)
    BY <1>1 DEF OfDate, CurrentOf, findings
  <2>. QED BY <1>1, <2>1
           DEF ReplaceInv, Alone, Busy, GenerationInv, Settled, findings
<1>2. ASSUME NEW a \in Admin, AdminStep(a) PROVE UNCHANGED <<findings, rp, unsettled>>
  BY <1>2 DEF AdminStep, Match, SelectRows, Lock, CommitReview, Rollback,
              AssignCases, history
<1>3. ASSUME NEW c \in Case, NEW t \in TaskType, NEW w \in {"open", "completed"},
             UpdateTask(c, t, w)
      PROVE  UNCHANGED <<findings, rp, unsettled>>
  BY <1>3 DEF UpdateTask
<1>4. CASE UNCHANGED vars
  BY <1>1, <1>4 DEF vars, history
<1>. QED BY <1>1, <1>2, <1>3, <1>4, GenerationBegin, GenerationRetire,
            GenerationCommit, GenerationFail, GenerationPurge
         DEF Next, ReplaceStep

LEMMA GenerationInvariant == Spec => [](ReplaceInv /\ GenerationInv)
<1>1. TypeOK /\ ReplaceInv /\ GenerationInv /\ [Next]_vars
        => (ReplaceInv /\ GenerationInv)'
  BY GenerationStep
<1>. QED BY <1>1, TypeCorrect, GenerationInit, PTL DEF Spec

(* For any number of recomputations, locked or not: on a date that none    *)
(* has recomputed without the lock beside another, or that one has         *)
(* recomputed alone since, one generation is current, the current findings *)
(* are its findings, and no case is listed twice.                          *)
THEOREM OneGeneration == Spec => []OneGenerationShown
<1>1. GenerationInv => OneGenerationShown
  <2>1. ASSUME NEW d \in Date, Settled(d) PROVE Cardinality(generation[d]) <= 1
    <3>1. CASE generation[d] = {}
      BY <3>1, FS_EmptySet
    <3>2. CASE \E g \in Gen : generation[d] = {g}
      <4>1. PICK g \in Gen : generation[d] = {g}
        BY <3>2
      <4>2. Cardinality({g}) = 1
        BY FS_Singleton
      <4>. QED BY <4>1, <4>2
    <3>. QED BY <2>1, <3>1, <3>2 DEF Settled
  <2>. QED BY <2>1 DEF GenerationInv, OneGenerationShown, Settled
<1>. QED BY <1>1, GenerationInvariant, PTL
-----------------------------------------------------------------------------
(* The history of a case.  The requests are ordered by their stamps; those *)
(* of one case that do not overlap commit in that order.                   *)

StampInv ==
  /\ \A c \in Case : \A e \in events[c] : e.stamp <= clock
  /\ \A a \in Admin : ap[a].stamp <= clock

(* What a review acts on is what it named. *)
NamedInv ==
  \A a \in Admin : ap[a].pc = "locking" =>
    \A k \in ap[a].rows : Reviewing(a, k[1])

Explained(c) ==
  /\ state[c] = None <=> events[c] = {}
  /\ \A e \in events[c] : /\ e.stamp <= state[c].stamp
                          /\ e.stamp = state[c].stamp => e.status = state[c].status

OrderInv ==
  \A c \in Case \ raced :
    /\ \A a, b \in Admin : Reviewing(a, c) /\ Reviewing(b, c) => a = b
    /\ \A a \in Admin : Reviewing(a, c) => \A e \in events[c] : e.stamp < ap[a].stamp
    /\ Explained(c)

HistoryInv == StampInv /\ NamedInv /\ OrderInv

LEMMA HistoryInit == Init => HistoryInv
BY DEF Init, HistoryInv, StampInv, NamedInv, OrderInv, Explained, Reviewing, NoRequest

LEMMA HistoryTypes ==
  ASSUME TypeOK
  PROVE  /\ clock \in Nat
         /\ \A a \in Admin : /\ ap[a] \in Request
                             /\ ap[a].stamp \in Nat /\ ap[a].op \in Status
         /\ \A c \in Case : \A e \in events[c] : e.stamp \in Nat
BY BoundAssumption DEF TypeOK, Request, Event, Stamp

LEMMA HistoryMatch ==
  ASSUME TypeOK, HistoryInv, NEW a \in Admin, NEW s \in Decisions, NEW K,
         Match(a, s, K), ap' \in [Admin -> Request]
  PROVE  HistoryInv'
<1>1. /\ ap'[a].stamp = clock + 1 /\ ap'[a].pc = "matched" /\ ap'[a].keys = K
      /\ \A b \in Admin \ {a} : ap'[b] = ap[b]
      /\ clock' = clock + 1
      /\ raced \subseteq raced'
      /\ UNCHANGED <<state, events>>
  BY DEF Match, TypeOK, NoRequest, reviews
<1>2. StampInv'
  BY <1>1, HistoryTypes DEF HistoryInv, StampInv
<1>3. \A b \in Admin \ {a}, c \in Case : Reviewing(b, c)' <=> Reviewing(b, c)
  BY <1>1 DEF Reviewing
<1>4. NamedInv'
  <2>1. \A b \in Admin \ {a} : ap[b].pc = "locking" =>
          \A k \in ap[b].rows : Reviewing(b, k[1])'
    BY <1>1 DEF HistoryInv, NamedInv, Reviewing
  <2>. QED BY <1>1, <2>1 DEF NamedInv
<1>5. ASSUME NEW c \in Case \ raced', Reviewing(a, c)'
      PROVE  \A b \in Admin \ {a} : ~Reviewing(b, c)
  BY <1>1, <1>5 DEF Match, Reviewing
<1>6. ASSUME NEW c \in Case \ raced'
      PROVE  /\ \A d, b \in Admin : Reviewing(d, c)' /\ Reviewing(b, c)' => d = b
             /\ \A b \in Admin : Reviewing(b, c)' =>
                  \A e \in events'[c] : e.stamp < ap'[b].stamp
             /\ Explained(c)'
  <2>1. c \in Case \ raced
    BY <1>1
  <2>2. \A d, b \in Admin : Reviewing(d, c)' /\ Reviewing(b, c)' => d = b
    BY <1>3, <1>5, <2>1 DEF HistoryInv, OrderInv
  <2>3. \A b \in Admin \ {a} : Reviewing(b, c)' =>
          \A e \in events'[c] : e.stamp < ap'[b].stamp
    BY <1>1, <1>3, <2>1 DEF HistoryInv, OrderInv
  <2>4. \A e \in events'[c] : e.stamp < ap'[a].stamp
    BY <1>1, HistoryTypes DEF HistoryInv, StampInv
  <2>5. Explained(c)'
    BY <1>1, <2>1 DEF HistoryInv, OrderInv, Explained
  <2>. QED BY <2>2, <2>3, <2>4, <2>5
<1>7. OrderInv'
  BY <1>6 DEF OrderInv
<1>. QED BY <1>2, <1>4, <1>7 DEF HistoryInv

(* Steps that change no history, and after which nobody reviews a case who *)
(* did not before.                                                         *)
LEMMA HistoryStays ==
  ASSUME TypeOK, HistoryInv, UNCHANGED <<state, events, raced>>,
         clock' \in Nat, clock <= clock',
         \A b \in Admin : /\ ap'[b].stamp \in {0, ap[b].stamp}
                          /\ ap'[b].pc # "idle" => /\ ap[b].pc # "idle"
                                                   /\ ap'[b].stamp = ap[b].stamp
                                                   /\ ap'[b].keys = ap[b].keys,
         NamedInv'
  PROVE  HistoryInv'
<1>1. StampInv'
  BY HistoryTypes DEF HistoryInv, StampInv
<1>2. \A b \in Admin, c \in Case : Reviewing(b, c)' =>
        Reviewing(b, c) /\ ap'[b].stamp = ap[b].stamp
  BY DEF Reviewing, TypeOK, Request
<1>3. \A c \in Case : Explained(c) => Explained(c)'
  BY DEF Explained
<1>4. OrderInv'
  BY <1>2, <1>3 DEF HistoryInv, OrderInv
<1>. QED BY <1>1, <1>4 DEF HistoryInv

LEMMA HistorySelect ==
  ASSUME TypeOK, HistoryInv, NEW a \in Admin, SelectRows(a)
  PROVE  HistoryInv'
<1>1. /\ ap[a].pc = "matched"
      /\ \A b \in Admin \ {a} : ap'[b] = ap[b]
      /\ UNCHANGED <<state, events, raced, clock>>
  BY DEF SelectRows, TypeOK, reviews, history
<1>2. \/ ap'[a] = NoRequest
      \/ /\ ap'[a].pc = "locking" /\ ap'[a].rows = Matching(ap[a].keys)
         /\ ap'[a].keys = ap[a].keys /\ ap'[a].stamp = ap[a].stamp
  BY HistoryTypes DEF SelectRows, TypeOK, Request
<1>3. NamedInv'
  <2>1. \A b \in Admin \ {a} : ap[b].pc = "locking" =>
          \A k \in ap[b].rows : Reviewing(b, k[1])'
    BY <1>1 DEF HistoryInv, NamedInv, Reviewing
  <2>2. ap'[a].pc = "locking" => \A k \in ap'[a].rows : Reviewing(a, k[1])'
    BY <1>2 DEF NoRequest, Matching, Reviewing
  <2>. QED BY <1>1, <2>1, <2>2 DEF NamedInv
<1>. QED BY <1>1, <1>2, <1>3, HistoryTypes, HistoryStays DEF NoRequest

LEMMA HistoryLock ==
  ASSUME TypeOK, HistoryInv, NEW a \in Admin, NEW c \in Case, Lock(a, c)
  PROVE  HistoryInv'
<1>1. /\ \A b \in Admin : /\ ap'[b].pc = ap[b].pc /\ ap'[b].rows = ap[b].rows
                          /\ ap'[b].keys = ap[b].keys /\ ap'[b].stamp = ap[b].stamp
      /\ UNCHANGED <<state, events, raced, clock>>
  BY HistoryTypes DEF Lock, TypeOK, Request, reviews, history
<1>2. NamedInv'
  BY <1>1 DEF HistoryInv, NamedInv, Reviewing
<1>. QED BY <1>1, <1>2, HistoryTypes, HistoryStays

LEMMA HistoryRollback ==
  ASSUME TypeOK, HistoryInv, NEW a \in Admin, Rollback(a)
  PROVE  HistoryInv'
<1>1. /\ ap'[a] = NoRequest
      /\ \A b \in Admin \ {a} : ap'[b] = ap[b]
      /\ UNCHANGED <<state, events, raced, clock>>
  BY DEF Rollback, TypeOK, reviews, history
<1>2. NamedInv'
  BY <1>1 DEF HistoryInv, NamedInv, Reviewing, NoRequest
<1>. QED BY <1>1, <1>2, HistoryTypes, HistoryStays DEF NoRequest

LEMMA HistoryCommit ==
  ASSUME TypeOK, HistoryInv, NEW a \in Admin, CommitReview(a)
  PROVE  HistoryInv'
<1> DEFINE x == ap[a]
           S == CasesOf(x.rows)
<1>1. /\ x.pc = "locking" /\ ap'[a] = NoRequest
      /\ \A b \in Admin \ {a} : ap'[b] = ap[b]
      /\ UNCHANGED <<raced, clock>>
      /\ \A c \in Case : c \in S => state'[c] = [status |-> x.op, stamp |-> x.stamp]
      /\ \A c \in Case : c \notin S => state'[c] = state[c]
      /\ \A c \in Case : events'[c] = events[c] \union
           {[status |-> x.op, stamp |-> x.stamp, finding |-> k] :
              k \in {k \in x.rows : k[1] = c}}
  BY DEF CommitReview, TypeOK
<1>2. StampInv'
  <2>1. ASSUME NEW c \in Case, NEW e \in events'[c] PROVE e.stamp <= clock
    BY <1>1, <2>1 DEF HistoryInv, StampInv
  <2>. QED BY <1>1, <2>1, HistoryTypes DEF HistoryInv, StampInv, NoRequest
<1>3. NamedInv'
  BY <1>1 DEF HistoryInv, NamedInv, Reviewing, NoRequest
<1>4. \A b \in Admin, c \in Case : Reviewing(b, c)' =>
        b # a /\ Reviewing(b, c) /\ ap'[b].stamp = ap[b].stamp
  BY <1>1 DEF Reviewing, NoRequest
<1>5. ASSUME NEW c \in Case \ raced, c \notin S
      PROVE  /\ \A b \in Admin : Reviewing(b, c)' =>
                  \A e \in events'[c] : e.stamp < ap'[b].stamp
             /\ Explained(c)'
  <2>1. \A k \in x.rows : k[1] # c
    BY <1>5 DEF CasesOf
  <2>2. {k \in x.rows : k[1] = c} = {}
    BY <2>1
  <2>3. {[status |-> x.op, stamp |-> x.stamp, finding |-> k] :
           k \in {k \in x.rows : k[1] = c}} = {}
    BY <2>2
  <2>4. events'[c] = events[c]
    BY <1>1, <2>3
  <2>5. state'[c] = state[c]
    BY <1>1, <1>5
  <2>. QED BY <1>4, <2>4, <2>5 DEF HistoryInv, OrderInv, Explained
<1>6. ASSUME NEW c \in Case \ raced, c \in S
      PROVE  /\ \A b \in Admin : ~Reviewing(b, c)'
             /\ Explained(c)'
  <2>1. PICK k \in x.rows : k[1] = c
    BY <1>6 DEF CasesOf
  <2>2. Reviewing(a, c)
    BY <1>1, <2>1 DEF HistoryInv, NamedInv
  <2>3. \A b \in Admin : ~Reviewing(b, c)'
    BY <1>4, <2>2 DEF HistoryInv, OrderInv
  <2>4. state'[c] # None /\ state'[c].stamp = x.stamp /\ state'[c].status = x.op
    BY <1>1, <1>6, HistoryTypes, NoneAssumption
  <2>5. events'[c] # {}
    <3>1. k \in {l \in x.rows : l[1] = c}
      BY <2>1
    <3>2. [status |-> x.op, stamp |-> x.stamp, finding |-> k] \in events'[c]
      BY <1>1, <3>1
    <3>. QED BY <3>2
  <2>6. ASSUME NEW e \in events[c] PROVE e.stamp < x.stamp
    BY <2>2, <2>6 DEF HistoryInv, OrderInv
  <2>7. ASSUME NEW e \in events'[c]
        PROVE  e.stamp <= x.stamp /\ (e.stamp = x.stamp => e.status = x.op)
    <3>1. CASE e \in events[c]
      BY <2>6, <3>1, HistoryTypes
    <3>2. CASE e.stamp = x.stamp /\ e.status = x.op
      BY <3>2, HistoryTypes
    <3>. QED BY <1>1, <2>7, <3>1, <3>2
  <2>. QED BY <2>3, <2>4, <2>5, <2>7 DEF Explained
<1>7. OrderInv'
  <2>1. \A c \in Case \ raced : \A d, b \in Admin :
          Reviewing(d, c)' /\ Reviewing(b, c)' => d = b
    BY <1>4 DEF HistoryInv, OrderInv
  <2>. QED BY <1>1, <1>5, <1>6, <2>1 DEF OrderInv
<1>. QED BY <1>2, <1>3, <1>7 DEF HistoryInv

LEMMA HistoryElsewhere ==
  ASSUME TypeOK, HistoryInv, UNCHANGED <<state, events, ap, raced>>,
         clock' \in {clock, clock + 1}
  PROVE  HistoryInv'
<1>1. NamedInv'
  BY DEF HistoryInv, NamedInv, Reviewing
<1>. QED BY <1>1, HistoryTypes, HistoryStays

LEMMA HistoryStep == TypeOK /\ TypeOK' /\ HistoryInv /\ [Next]_vars => HistoryInv'
<1> SUFFICES ASSUME TypeOK, TypeOK', HistoryInv, [Next]_vars PROVE HistoryInv'
  OBVIOUS
<1>1. ASSUME NEW w \in Recomputer, ReplaceStep(w)
      PROVE  UNCHANGED <<state, events, ap, raced, clock>>
  BY <1>1 DEF ReplaceStep, BeginReplace, Retire, CommitReplace, FailReplace,
              reviews, history
<1>2. ASSUME NEW d \in Date, PurgeFindings(d)
      PROVE  UNCHANGED <<state, events, ap, raced, clock>>
  BY <1>2 DEF PurgeFindings, reviews, history
<1>3. ASSUME NEW c \in Case, NEW t \in TaskType, NEW w \in {"open", "completed"},
             UpdateTask(c, t, w)
      PROVE  UNCHANGED <<state, events, ap, raced>> /\ clock' = clock + 1
  BY <1>3 DEF UpdateTask
<1>4. ASSUME NEW a \in Admin, NEW o, NEW K, AssignCases(a, o, K)
      PROVE  UNCHANGED <<state, events, ap, raced>> /\ clock' = clock + 1
  BY <1>4 DEF AssignCases, history
<1>5. CASE UNCHANGED vars
  BY <1>5, HistoryElsewhere DEF vars, reviews, history
<1>6. ap' \in [Admin -> Request]
  BY DEF TypeOK
<1>7. ASSUME NEW a \in Admin, AdminStep(a) PROVE HistoryInv'
  BY <1>4, <1>6, <1>7, HistoryElsewhere, HistoryMatch, HistorySelect, HistoryLock,
     HistoryCommit, HistoryRollback DEF AdminStep
<1>. QED BY <1>1, <1>2, <1>3, <1>5, <1>7, HistoryElsewhere DEF Next

LEMMA HistoryInvariant == Spec => []HistoryInv
BY TypeCorrect, HistoryInit, HistoryStep, PTL DEF Spec

(* For any number of administrators and any interleaving of their          *)
(* transactions: on a case no two reviews of which overlapped the latest   *)
(* entry of the history is the one the status comes from.                  *)
THEOREM HistoryIsTrue == Spec => []HistoryExplainsStatus
<1>1. HistoryInv => HistoryExplainsStatus
  BY DEF HistoryInv, OrderInv, Explained, HistoryExplainsStatus
<1>. QED BY <1>1, HistoryInvariant, PTL
-----------------------------------------------------------------------------
(* The entries of one review.                                              *)

(* A request that is under way has a stamp of its own, and what it acts on *)
(* is one finding of a case.                                               *)
OwnStamp(a) ==
  /\ \A b \in Admin \ {a} : ap[b].pc # "idle" => ap[b].stamp # ap[a].stamp
  /\ \A c \in Case : \A e \in events[c] : e.stamp # ap[a].stamp
OneOfACase(a) ==
  \A k, l \in ap[a].rows : k[1] = l[1] /\ DateOf[k[1]] \notin clashed => k = l

EntryInv ==
  /\ \A a \in Admin : ap[a].pc # "idle" => OwnStamp(a)
  /\ \A a \in Admin : ap[a].pc = "locking" => OneOfACase(a)
  /\ OneEventPerReview

LEMMA EntryInit == Init => EntryInv
BY DEF Init, EntryInv, OneEventPerReview, NoRequest

LEMMA EntryMatch ==
  ASSUME TypeOK, HistoryInv, EntryInv, NEW a \in Admin, NEW s \in Decisions, NEW K,
         Match(a, s, K)
  PROVE  EntryInv'
<1>1. /\ ap'[a].stamp = clock + 1 /\ ap'[a].pc = "matched"
      /\ \A b \in Admin \ {a} : ap'[b] = ap[b]
      /\ UNCHANGED <<events, clashed>>
  BY DEF Match, TypeOK, NoRequest, reviews
<1>2. OwnStamp(a)'
  BY <1>1, HistoryTypes DEF OwnStamp, HistoryInv, StampInv
<1>3. ASSUME NEW b \in Admin \ {a}, ap[b].pc # "idle" PROVE OwnStamp(b)'
  <2>1. ap[b].stamp # clock + 1
    BY HistoryTypes DEF HistoryInv, StampInv
  <2>. QED BY <1>1, <1>3, <2>1 DEF EntryInv, OwnStamp
<1>4. \A b \in Admin : ap'[b].pc = "locking" => OneOfACase(b)'
  BY <1>1 DEF EntryInv, OneOfACase
<1>5. OneEventPerReview'
  BY <1>1 DEF EntryInv, OneEventPerReview
<1>. QED BY <1>1, <1>2, <1>3, <1>4, <1>5 DEF EntryInv

(* Steps that add no entry and leave stamps alone. *)
LEMMA EntryStays ==
  ASSUME EntryInv, UNCHANGED events, clashed \subseteq clashed',
         \A b \in Admin : ap'[b].pc # "idle" => /\ ap[b].pc # "idle"
                                                /\ ap'[b].stamp = ap[b].stamp,
         \A b \in Admin : ap'[b].pc = "locking" => OneOfACase(b)'
  PROVE  EntryInv'
<1>1. ASSUME NEW a \in Admin, ap'[a].pc # "idle" PROVE OwnStamp(a)'
  BY <1>1 DEF EntryInv, OwnStamp
<1>2. OneEventPerReview'
  BY DEF EntryInv, OneEventPerReview
<1>. QED BY <1>1, <1>2 DEF EntryInv

LEMMA EntrySelect ==
  ASSUME TypeOK, GenerationInv, EntryInv, NEW a \in Admin, SelectRows(a)
  PROVE  EntryInv'
<1>1. /\ ap[a].pc = "matched"
      /\ \A b \in Admin \ {a} : ap'[b] = ap[b]
      /\ UNCHANGED <<events, clashed>>
  BY DEF SelectRows, TypeOK, reviews, history
<1>2. \/ ap'[a] = NoRequest
      \/ /\ ap'[a].pc = "locking" /\ ap'[a].rows = Matching(ap[a].keys)
         /\ ap'[a].stamp = ap[a].stamp
  BY HistoryTypes DEF SelectRows, TypeOK, Request
<1>3. ASSUME NEW k \in Matching(ap[a].keys), NEW l \in Matching(ap[a].keys),
             k[1] = l[1], DateOf[k[1]] \notin clashed
      PROVE  k = l
  <2>1. PICK d \in Date : d = DateOf[k[1]]
    BY CaseAssumption DEF Matching, FindingKey
  <2>2. k \in CurrentOf(d) /\ l \in CurrentOf(d)
    BY <1>3, <2>1 DEF Matching, CurrentOf, OfDate
  <2>3. Settled(d)
    BY <1>3, <2>1 DEF GenerationInv, TypeOK
  <2>. QED BY <1>3, <2>2, <2>3 DEF Settled
<1>4. ap'[a].pc = "locking" => OneOfACase(a)'
  BY <1>1, <1>2, <1>3 DEF OneOfACase, NoRequest
<1>5. \A b \in Admin \ {a} : ap'[b].pc = "locking" => OneOfACase(b)'
  BY <1>1 DEF EntryInv, OneOfACase
<1>. QED BY <1>1, <1>2, <1>4, <1>5, EntryStays DEF NoRequest

LEMMA EntryLock ==
  ASSUME TypeOK, EntryInv, NEW a \in Admin, NEW c \in Case, Lock(a, c)
  PROVE  EntryInv'
<1>1. /\ \A b \in Admin : /\ ap'[b].pc = ap[b].pc /\ ap'[b].rows = ap[b].rows
                          /\ ap'[b].stamp = ap[b].stamp
      /\ UNCHANGED <<events, clashed>>
  BY HistoryTypes DEF Lock, TypeOK, Request, reviews, history
<1>2. \A b \in Admin : ap'[b].pc = "locking" => OneOfACase(b)'
  BY <1>1 DEF EntryInv, OneOfACase
<1>. QED BY <1>1, <1>2, EntryStays

LEMMA EntryRollback ==
  ASSUME TypeOK, EntryInv, NEW a \in Admin, Rollback(a)
  PROVE  EntryInv'
<1>1. /\ ap'[a] = NoRequest
      /\ \A b \in Admin \ {a} : ap'[b] = ap[b]
      /\ UNCHANGED <<events, clashed>>
  BY DEF Rollback, TypeOK, reviews, history
<1>2. \A b \in Admin : ap'[b].pc = "locking" => OneOfACase(b)'
  BY <1>1 DEF EntryInv, OneOfACase, NoRequest
<1>. QED BY <1>1, <1>2, EntryStays DEF NoRequest

LEMMA EntryCommit ==
  ASSUME TypeOK, EntryInv, NEW a \in Admin, CommitReview(a)
  PROVE  EntryInv'
<1> DEFINE x == ap[a]
           entry(k) == [status |-> x.op, stamp |-> x.stamp, finding |-> k]
<1>1. /\ x.pc = "locking" /\ ap'[a] = NoRequest
      /\ \A b \in Admin \ {a} : ap'[b] = ap[b]
      /\ UNCHANGED clashed
      /\ \A c \in Case : events'[c] = events[c] \union
           {entry(k) : k \in {k \in x.rows : k[1] = c}}
  BY DEF CommitReview, TypeOK
<1>2. OwnStamp(a) /\ OneOfACase(a)
  BY <1>1 DEF EntryInv
<1>3. ASSUME NEW c \in Case, NEW e \in events'[c], e \notin events[c]
      PROVE  \E k \in x.rows : k[1] = c /\ e = entry(k)
  BY <1>1, <1>3
<1>4. \A c \in Case : \A e \in events'[c] : e \in events[c] \/ e.stamp = x.stamp
  BY <1>3
<1>5. ASSUME NEW b \in Admin, ap'[b].pc # "idle" PROVE OwnStamp(b)'
  <2>1. b # a /\ ap'[b] = ap[b] /\ ap[b].stamp # x.stamp /\ OwnStamp(b)
    BY <1>1, <1>2, <1>5 DEF OwnStamp, EntryInv, NoRequest
  <2>2. \A c \in Case : \A e \in events'[c] : e.stamp # ap[b].stamp
    BY <1>4, <2>1 DEF OwnStamp
  <2>3. \A v \in Admin \ {b} : ap'[v].pc # "idle" => ap'[v].stamp # ap[b].stamp
    BY <1>1, <2>1 DEF OwnStamp, NoRequest
  <2>. QED BY <2>1, <2>2, <2>3 DEF OwnStamp
<1>6. \A b \in Admin : ap'[b].pc = "locking" => OneOfACase(b)'
  BY <1>1 DEF EntryInv, OneOfACase, NoRequest
<1>7. ASSUME NEW c \in Case, DateOf[c] \notin clashed,
             NEW e \in events'[c], NEW f \in events'[c], e.stamp = f.stamp
      PROVE  e = f
  <2>1. CASE e \in events[c] /\ f \in events[c]
    BY <1>7, <2>1 DEF EntryInv, OneEventPerReview
  <2>2. CASE e \notin events[c] /\ f \notin events[c]
    <3>1. PICK k \in x.rows, l \in x.rows :
            k[1] = c /\ e = entry(k) /\ l[1] = c /\ f = entry(l)
      BY <1>3, <2>2
    <3>2. k = l
      BY <1>2, <1>7, <3>1 DEF OneOfACase
    <3>. QED BY <3>1, <3>2
  <2>3. (e \in events[c]) <=> (f \in events[c])
    BY <1>2, <1>4, <1>7 DEF OwnStamp
  <2>. QED BY <2>1, <2>2, <2>3
<1>8. OneEventPerReview'
  BY <1>1, <1>7 DEF OneEventPerReview
<1>. QED BY <1>5, <1>6, <1>8 DEF EntryInv

LEMMA EntryElsewhere ==
  ASSUME EntryInv, UNCHANGED <<events, ap>>, clashed \subseteq clashed'
  PROVE  EntryInv'
<1>1. \A b \in Admin : ap'[b].pc = "locking" => OneOfACase(b)'
  BY DEF EntryInv, OneOfACase
<1>. QED BY <1>1, EntryStays

LEMMA EntryStep ==
  TypeOK /\ GenerationInv /\ HistoryInv /\ EntryInv /\ [Next]_vars => EntryInv'
<1> SUFFICES ASSUME TypeOK, GenerationInv, HistoryInv, EntryInv, [Next]_vars
             PROVE  EntryInv'
  OBVIOUS
<1>1. ASSUME NEW w \in Recomputer, ReplaceStep(w)
      PROVE  UNCHANGED <<events, ap>> /\ clashed \subseteq clashed'
  <2>1. ASSUME NEW d \in Date, NEW R, BeginReplace(w, d, R)
        PROVE  UNCHANGED <<events, ap>> /\ clashed \subseteq clashed'
    BY <2>1 DEF BeginReplace, reviews
  <2>. QED BY <1>1, <2>1 DEF ReplaceStep, Retire, CommitReplace, FailReplace,
                              reviews, history
<1>2. ASSUME NEW d \in Date, PurgeFindings(d)
      PROVE  UNCHANGED <<events, ap, clashed>>
  BY <1>2 DEF PurgeFindings, reviews, history
<1>3. ASSUME NEW c \in Case, NEW t \in TaskType, NEW w \in {"open", "completed"},
             UpdateTask(c, t, w)
      PROVE  UNCHANGED <<events, ap, clashed>>
  BY <1>3 DEF UpdateTask
<1>4. ASSUME NEW a \in Admin, NEW o, NEW K, AssignCases(a, o, K)
      PROVE  UNCHANGED <<events, ap, clashed>>
  BY <1>4 DEF AssignCases, history
<1>5. CASE UNCHANGED vars
  BY <1>5, EntryElsewhere DEF vars, reviews, history
<1>6. ASSUME NEW a \in Admin, AdminStep(a) PROVE EntryInv'
  BY <1>4, <1>6, EntryElsewhere, EntryMatch, EntrySelect, EntryLock, EntryCommit,
     EntryRollback DEF AdminStep
<1>. QED BY <1>1, <1>2, <1>3, <1>5, <1>6, EntryElsewhere DEF Next

(* For any number of reviews and recomputations: a review leaves one entry *)
(* in the history of a case, on every date that had one current finding of *)
(* a case throughout.                                                      *)
THEOREM OneEntryPerReview == Spec => []OneEventPerReview
<1>1. TypeOK /\ ReplaceInv /\ GenerationInv /\ HistoryInv /\ EntryInv /\ [Next]_vars
        => EntryInv'
  BY EntryStep
<1>2. EntryInv => OneEventPerReview
  BY DEF EntryInv
<1>. QED BY <1>1, <1>2, EntryInit, TypeCorrect, GenerationInvariant,
            HistoryInvariant, PTL DEF Spec
=============================================================================
