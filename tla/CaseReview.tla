------------------------------ MODULE CaseReview ------------------------------
(***************************************************************************)
(* The review workflow of the console and the replacement of the findings  *)
(* it works on (repositories/suspicious_findings_write.py,                 *)
(* services/console.py).                                                   *)
(*                                                                         *)
(* A case is a date, an IP and a user agent; a finding is a case judged by *)
(* the rules of one version of the settings, so its key changes with them  *)
(* while the case, its reviews, its claim and its tasks stay.  Recomputa-  *)
(* tions replace the current findings of a date; those of the workers hold *)
(* the date-write lock (MutualExclusion of JobQueue), the command line's   *)
(* do not.  The transactions run at READ COMMITTED: a statement sees what  *)
(* had been committed when it began, waits for rows another transaction    *)
(* has written, and then applies to them as that one left them.            *)
(***************************************************************************)
EXTENDS Naturals, FiniteSets

CONSTANTS
  Case,       \* case keys
  Rule,       \* versions of the rules (rule_version)
  Date,
  DateOf,     \* DateOf[c]: date of case c
  TaskType,   \* types of follow-up tasks
  Admin,      \* administrators, one request at a time each
  Recomputer, \* processes that recompute findings
  Locked,     \* those that hold the date-write lock meanwhile: the workers
  Outcomes,   \* findings a recomputation may arrive at, one of a case
  Inputs,     \* keys a request may name: sets of case and finding keys
  Decisions,  \* statuses a review may give, of the four there are
  None,
  MaxClock,   \* bound on the requests of the administrators
  MaxGen,     \* bound on the recomputations
  MaxCalls,   \* bound on both together
  Hazards     \* what may happen besides, a subset of HazardKinds

(***************************************************************************)
(* error - a transaction fails and is rolled back                          *)
(* purge - retention deletes the findings of a date (365 days)             *)
(***************************************************************************)
HazardKinds == {"error", "purge"}

FindingKey == Case \X Rule

Status == {"unhandled", "investigating", "confirmed_fraud", "white"}

ASSUME CaseAssumption ==
  Date \subseteq Nat /\ Date # {} /\ DateOf \in [Case -> Date]
ASSUME NoneAssumption ==
  None \notin Admin /\ None \notin [status : Status, stamp : Nat]
ASSUME LockedAssumption == Locked \subseteq Recomputer
ASSUME InputsAssumption ==
  /\ Outcomes \subseteq SUBSET FindingKey
  /\ \A R \in Outcomes : \A k, l \in R : k[1] = l[1] => k = l
  /\ Inputs \subseteq SUBSET (Case \union FindingKey)
  /\ Decisions \subseteq Status
ASSUME BoundAssumption == MaxClock \in Nat /\ MaxGen \in Nat /\ MaxCalls \in Nat
ASSUME HazardsAssumption == Hazards \subseteq HazardKinds

VARIABLES
  \* the database
  finding,    \* finding[k]: its generation, 0 if there is no such row
  current,    \* current[k]: is_current of that row
  generation, \* generation[d]: the findings_generations of d with is_current
  state,      \* fraud_alert_review_states
  events,     \* fraud_alert_review_events
  tasks,      \* fraud_alert_followup_tasks
  assignee,   \* fraud_alert_case_assignments
  \* processes
  clock,      \* now_local(), as far as the requests take it
  computed,   \* recomputations begun
  ap,         \* requests of the administrators
  rp,         \* replacements of findings
  \* history
  clashed,    \* dates two replacements of which have overlapped, one unlocked
  unsettled,  \* those not recomputed since without overlap
  raced,      \* cases two reviews of which have overlapped
  byHand      \* open tasks taken up by hand since the last review

findings == <<finding, current, generation>>
reviews  == <<state, events, tasks, assignee>>
history  == <<clashed, unsettled, raced, byHand>>
vars == <<findings, reviews, clock, computed, ap, rp, history>>

Stamp == 0..MaxClock
Gen == 0..MaxGen

ReviewState == [status : Status, stamp : Stamp]
Event == [status : Status, stamp : Stamp, finding : FindingKey]

(* Of a review: the status it gives, the keys it names, the findings it    *)
(* acts on, the rows of state it has locked so far, its reviewed_at.       *)
Request == [pc : {"idle", "matched", "locking"}, op : Status,
            keys : SUBSET (Case \union FindingKey),
            rows : SUBSET FindingKey, held : SUBSET Case, stamp : Stamp]

(* Of a replacement: its date and generation, the rows to insert, the      *)
(* findings and generations its updates found to be current.               *)
Replacement == [pc : {"idle", "retire", "insert"}, date : Date, gen : Gen,
                rows : SUBSET FindingKey, seen : SUBSET FindingKey,
                old : SUBSET Gen, clash : BOOLEAN]

NoRequest == [pc |-> "idle", op |-> "unhandled", keys |-> {},
              rows |-> {}, held |-> {}, stamp |-> 0]

NoReplacement == [pc |-> "idle", date |-> CHOOSE d \in Date : TRUE, gen |-> 0,
                  rows |-> {}, seen |-> {}, old |-> {}, clash |-> FALSE]

TypeOK ==
  /\ finding \in [FindingKey -> Gen]
  /\ current \in [FindingKey -> BOOLEAN]
  /\ generation \in [Date -> SUBSET Gen]
  /\ state \in [Case -> ReviewState \union {None}]
  /\ events \in [Case -> SUBSET Event]
  /\ tasks \in [Case -> [TaskType -> {"none", "open", "completed", "cancelled"}]]
  /\ assignee \in [Case -> Admin \union {None}]
  /\ clock \in Stamp /\ computed \in Gen
  /\ ap \in [Admin -> Request]
  /\ rp \in [Recomputer -> Replacement]
  /\ clashed \subseteq Date /\ unsettled \subseteq clashed
  /\ raced \subseteq Case /\ byHand \subseteq Case \X TaskType

Init ==
  /\ finding = [k \in FindingKey |-> 0]
  /\ current = [k \in FindingKey |-> FALSE]
  /\ generation = [d \in Date |-> {}]
  /\ state = [c \in Case |-> None]
  /\ events = [c \in Case |-> {}]
  /\ tasks = [c \in Case |-> [t \in TaskType |-> "none"]]
  /\ assignee = [c \in Case |-> None]
  /\ clock = 0
  /\ computed = 0
  /\ ap = [a \in Admin |-> NoRequest]
  /\ rp = [w \in Recomputer |-> NoReplacement]
  /\ clashed = {}
  /\ unsettled = {}
  /\ raced = {}
  /\ byHand = {}

-----------------------------------------------------------------------------
(* replace_conversion_findings *)

OfDate(d) == {k \in FindingKey : DateOf[k[1]] = d}
CurrentOf(d) == {k \in OfDate(d) : current[k]}

Busy(w, d) == rp[w].pc # "idle" /\ rp[w].date = d

(* Fault seeded by the mutants: the workers do not take the lock either.   *)
UnlockedBeginReplace(w, d, R) ==
  /\ rp[w].pc = "idle"
  /\ computed < MaxGen /\ clock + computed < MaxCalls
  /\ rp' = [rp EXCEPT ![w] = [pc |-> "retire", date |-> d, gen |-> computed + 1,
                              rows |-> R, seen |-> CurrentOf(d), old |-> {},
                              clash |-> FALSE]]
  /\ computed' = computed + 1
  /\ UNCHANGED <<findings, reviews, clock, ap, history>>

(* R is what the data and the rules in effect come to.  The first update   *)
(* finds the current rows of the date.                                     *)
BeginReplace(w, d, R) ==
  /\ rp[w].pc = "idle"
  /\ computed < MaxGen /\ clock + computed < MaxCalls
  /\ w \in Locked => \A v \in Locked : ~Busy(v, d)
  /\ LET clash == \E v \in Recomputer : Busy(v, d) /\ ~({v, w} \subseteq Locked) IN
       /\ rp' = [v \in Recomputer |->
                   IF v = w
                   THEN [pc |-> "retire", date |-> d, gen |-> computed + 1,
                         rows |-> R, seen |-> CurrentOf(d), old |-> {},
                         clash |-> clash]
                   ELSE IF clash /\ Busy(v, d) THEN [rp[v] EXCEPT !.clash = TRUE]
                                               ELSE rp[v]]
       /\ clashed' = IF clash THEN clashed \union {d} ELSE clashed
       /\ unsettled' = IF clash THEN unsettled \union {d} ELSE unsettled
  /\ computed' = computed + 1
  /\ UNCHANGED <<findings, reviews, clock, ap, raced, byHand>>

(* Findings another replacement has updated and not committed. *)
LockedByOthers(w) ==
  UNION {rp[v].seen : v \in {v \in Recomputer \ {w} : rp[v].pc = "insert"}}

(* The update of the findings is over and that of the generations begins.  *)
(* A row another replacement retired meanwhile is left alone.              *)
Retire(w) ==
  /\ rp[w].pc = "retire"
  /\ rp[w].seen \intersect LockedByOthers(w) = {}
  /\ rp' = [rp EXCEPT ![w].pc = "insert",
                      ![w].seen = {k \in @ : current[k]},
                      ![w].old = generation[rp[w].date]]
  /\ UNCHANGED <<findings, reviews, clock, computed, ap, history>>

(* A finding that exists under the same key is overwritten.  Everything    *)
(* becomes visible at once.                                                *)
CommitReplace(w) ==
  /\ rp[w].pc = "insert"
  /\ rp[w].rows \intersect LockedByOthers(w) = {}
  /\ LET x == rp[w] IN
       /\ finding' = [k \in FindingKey |-> IF k \in x.rows THEN x.gen ELSE finding[k]]
       /\ current' = [k \in FindingKey |->
                        k \in x.rows \/ (current[k] /\ k \notin x.seen)]
       /\ generation' = [generation EXCEPT ![x.date] = (@ \ x.old) \union {x.gen}]
       /\ unsettled' = IF x.clash THEN unsettled ELSE unsettled \ {x.date}
  /\ rp' = [rp EXCEPT ![w] = NoReplacement]
  /\ UNCHANGED <<reviews, clock, computed, ap, clashed, raced, byHand>>

(* The transaction fails or its process dies: nothing was changed. *)
FailReplace(w) ==
  /\ "error" \in Hazards
  /\ rp[w].pc # "idle"
  /\ rp' = [rp EXCEPT ![w] = NoReplacement]
  /\ UNCHANGED <<findings, reviews, clock, computed, ap, history>>

(* Fault seeded by the mutants: the tasks of the cases are purged as well. *)
CascadingPurgeFindings(cutoff) ==
  LET P == {k \in FindingKey : DateOf[k[1]] < cutoff} IN
  /\ "purge" \in Hazards
  /\ \E k \in P : finding[k] > 0
  /\ \A w \in Recomputer, d \in Date : d < cutoff => ~Busy(w, d)
  /\ finding' = [k \in FindingKey |-> IF k \in P THEN 0 ELSE finding[k]]
  /\ current' = [k \in FindingKey |-> current[k] /\ k \notin P]
  /\ tasks' = [c \in Case |-> IF DateOf[c] < cutoff THEN [t \in TaskType |-> "none"]
                                                   ELSE tasks[c]]
  /\ UNCHANGED <<generation, state, events, assignee, clock, computed, ap, rp, history>>

(* purge_findings_before: the findings go, their generation stays, and so  *)
(* do the reviews, claims and tasks of the cases.  Old dates only, which   *)
(* are not being recomputed.                                               *)
PurgeFindings(cutoff) ==
  LET P == {k \in FindingKey : DateOf[k[1]] < cutoff} IN
  /\ "purge" \in Hazards
  /\ \E k \in P : finding[k] > 0
  /\ \A w \in Recomputer, d \in Date : d < cutoff => ~Busy(w, d)
  /\ finding' = [k \in FindingKey |-> IF k \in P THEN 0 ELSE finding[k]]
  /\ current' = [k \in FindingKey |-> current[k] /\ k \notin P]
  /\ UNCHANGED <<generation, reviews, clock, computed, ap, rp, history>>

-----------------------------------------------------------------------------
(* Reviews.  A request names cases or findings, or leaves it to filters.   *)

StatusOf(c) == IF state[c] = None THEN "unhandled" ELSE state[c].status

(* Fault seeded by the mutants: findings of earlier generations count too. *)
MatchingAny(K) == {k \in FindingKey : finding[k] > 0 /\ (k \in K \/ k[1] \in K)}

Matching(K) == {k \in FindingKey : current[k] /\ (k \in K \/ k[1] \in K)}
CasesOf(R) == {k[1] : k \in R}

(* _resolve_review_case_keys with a status filter ("all" for any). *)
FilteredCases(f) ==
  CasesOf({k \in FindingKey : current[k] /\ f \in {"all", StatusOf(k[1])}})

Reviewing(b, c) ==
  /\ ap[b].pc \in {"matched", "locking"}
  /\ c \in ap[b].keys \/ \E k \in ap[b].keys \intersect FindingKey : k[1] = c

(* apply_review_action up to now_local(): the keys the request names or    *)
(* those its filters lead to.  _fetch_matching_case_keys only counts them. *)
Match(a, s, K) ==
  /\ ap[a].pc = "idle"
  /\ clock < MaxClock /\ clock + computed < MaxCalls
  /\ K # {}
  /\ clock' = clock + 1
  /\ ap' = [ap EXCEPT ![a] = [NoRequest EXCEPT !.pc = "matched", !.op = s,
                                !.keys = K, !.stamp = clock + 1]]
  /\ raced' = raced \union
       {c \in Case : /\ c \in K \/ \E k \in K \intersect FindingKey : k[1] = c
                     /\ \E b \in Admin \ {a} : Reviewing(b, c)}
  /\ UNCHANGED <<findings, reviews, computed, rp, clashed, unsettled, byHand>>

(* apply_alert_reviews begins: it matches once more. *)
SelectRows(a) ==
  /\ ap[a].pc = "matched"
  /\ LET R == Matching(ap[a].keys) IN
       ap' = [ap EXCEPT ![a] = IF R = {} THEN NoRequest
                               ELSE [@ EXCEPT !.pc = "locking", !.rows = R]]
  /\ UNCHANGED <<findings, reviews, clock, computed, rp, history>>

(* One row of state is written per case and stays locked until the commit. *)
(* The rows come from SELECT DISTINCT in no particular order.              *)
Remaining(a) == IF ap[a].pc = "locking" THEN CasesOf(ap[a].rows) \ ap[a].held ELSE {}

Blocks(b, a, c) == b # a /\ ap[b].pc = "locking" /\ c \in ap[b].held

Lock(a, c) ==
  /\ c \in Remaining(a)
  /\ \A b \in Admin : ~Blocks(b, a, c)
  /\ ap' = [ap EXCEPT ![a].held = @ \union {c}]
  /\ UNCHANGED <<findings, reviews, clock, computed, rp, history>>

(* Transactions that wait for each other; PostgreSQL ends one of them. *)
Deadlocked(a) ==
  \E D \in SUBSET Admin :
    /\ a \in D
    /\ \A x \in D : /\ Remaining(x) # {}
                    /\ \A c \in Remaining(x) : \E b \in D : Blocks(b, x, c)

Rollback(a) ==
  /\ ap[a].pc = "locking"
  /\ Deadlocked(a) \/ "error" \in Hazards
  /\ ap' = [ap EXCEPT ![a] = NoRequest]
  /\ UNCHANGED <<findings, reviews, clock, computed, rp, history>>

(* Faults seeded by the mutants: a task is reopened under a status of its  *)
(* own; a task once called off stays so; nothing is called off.            *)
RelabellingSynced(s, w) ==
  CASE s = "confirmed_fraud" -> IF w = "cancelled" THEN "reopened" ELSE "open"
    [] s \in {"white", "unhandled"} -> IF w = "none" THEN w ELSE "cancelled"
    [] OTHER -> w
StayingSynced(s, w) ==
  CASE s = "confirmed_fraud" -> IF w = "none" THEN "open" ELSE w
    [] s \in {"white", "unhandled"} -> IF w \in {"none", "completed"} THEN w
                                                                  ELSE "cancelled"
    [] OTHER -> w
KeepingSynced(s, w) ==
  IF s = "confirmed_fraud" /\ w # "completed" THEN "open" ELSE w

(* _sync_followup_tasks *)
Synced(s, w) ==
  CASE s = "confirmed_fraud" -> IF w = "completed" THEN w ELSE "open"
    [] s \in {"white", "unhandled"} -> IF w \in {"none", "completed"} THEN w
                                                                  ELSE "cancelled"
    [] OTHER -> w

(* Fault seeded by the mutants: the first status of a case is kept (ON     *)
(* CONFLICT DO NOTHING).                                                   *)
FirstWinsCommitReview(a) ==
  /\ ap[a].pc = "locking" /\ Remaining(a) = {}
  /\ LET x == ap[a]
         S == CasesOf(x.rows) IN
       /\ state' = [c \in Case |-> IF c \in S /\ state[c] = None
                                   THEN [status |-> x.op, stamp |-> x.stamp]
                                   ELSE state[c]]
       /\ events' = [c \in Case |-> events[c] \union
                       {[status |-> x.op, stamp |-> x.stamp, finding |-> k] :
                          k \in {k \in x.rows : k[1] = c}}]
  /\ ap' = [ap EXCEPT ![a] = NoRequest]
  /\ UNCHANGED <<findings, tasks, assignee, clock, computed, rp, history>>

CommitReview(a) ==
  /\ ap[a].pc = "locking" /\ Remaining(a) = {}
  /\ LET x == ap[a]
         S == CasesOf(x.rows) IN
       /\ state' = [c \in Case |-> IF c \in S
                                   THEN [status |-> x.op, stamp |-> x.stamp]
                                   ELSE state[c]]
       /\ events' = [c \in Case |-> events[c] \union
                       {[status |-> x.op, stamp |-> x.stamp, finding |-> k] :
                          k \in {k \in x.rows : k[1] = c}}]
       /\ tasks' = [c \in Case |->
                      IF c \in S THEN [t \in TaskType |-> Synced(x.op, tasks[c][t])]
                                 ELSE tasks[c]]
       /\ byHand' = IF x.op = "investigating" THEN byHand
                    ELSE {p \in byHand : p[1] \notin S}
  /\ ap' = [ap EXCEPT ![a] = NoRequest]
  /\ UNCHANGED <<findings, assignee, clock, computed, rp, clashed, unsettled, raced>>

(* assign_alert_cases.  A claim overwrites, a release deletes, whoever     *)
(* holds the case.  A replacement that commits between its two statements  *)
(* is as good as one that commits after it.                                *)
AssignCases(a, owner, K) ==
  /\ clock < MaxClock /\ clock + computed < MaxCalls
  /\ Matching(K) # {}
  /\ owner \in {a, None}
  /\ assignee' = [c \in Case |-> IF c \in CasesOf(Matching(K)) THEN owner
                                                            ELSE assignee[c]]
  /\ clock' = clock + 1
  /\ UNCHANGED <<findings, state, events, tasks, computed, ap, rp, history>>

(* update_followup_task_status: one update by id, whatever became of the   *)
(* case.                                                                   *)
UpdateTask(c, t, w) ==
  /\ clock < MaxClock /\ clock + computed < MaxCalls
  /\ tasks[c][t] \notin {"none", w}
  /\ tasks' = [tasks EXCEPT ![c][t] = w]
  /\ byHand' = IF w = "open" THEN byHand \union {<<c, t>>} ELSE byHand \ {<<c, t>>}
  /\ clock' = clock + 1
  /\ UNCHANGED <<findings, state, events, assignee, computed, ap, rp, clashed,
                 unsettled, raced>>

-----------------------------------------------------------------------------
ReplaceStep(w) ==
  \/ \E d \in Date, R \in Outcomes : BeginReplace(w, d, R \intersect OfDate(d))
  \/ Retire(w) \/ CommitReplace(w) \/ FailReplace(w)

AdminStep(a) ==
  \/ \E s \in Decisions :
       \/ \E K \in Inputs : Match(a, s, K)
       \/ \E f \in {"all", "unhandled"} : Match(a, s, FilteredCases(f))
  \/ SelectRows(a) \/ \E c \in Case : Lock(a, c)
  \/ CommitReview(a) \/ Rollback(a)
  \/ \E owner \in {a, None}, K \in Inputs : AssignCases(a, owner, K)

Next ==
  \/ \E w \in Recomputer : ReplaceStep(w)
  \/ \E d \in Date : PurgeFindings(d)
  \/ \E a \in Admin : AdminStep(a)
  \/ \E c \in Case, t \in TaskType, w \in {"open", "completed"} : UpdateTask(c, t, w)

Spec == Init /\ [][Next]_vars

-----------------------------------------------------------------------------
(* Properties. *)

(* The two readers of findings agree: the console takes every current row, *)
(* the other API (suspicious_findings_read.py) only rows of a current      *)
(* generation.  They differ, and a case is listed twice, only on a date    *)
(* two replacements of which overlapped without the date-write lock, until *)
(* the next one that has the date to itself.                               *)
OneGenerationShown ==
  \A d \in Date \ unsettled :
    /\ Cardinality(generation[d]) <= 1
    /\ \A k \in CurrentOf(d) : finding[k] \in generation[d]
    /\ \A k, l \in CurrentOf(d) : k[1] = l[1] => k = l

(* A confirmed case has all its follow-up tasks, to do or done: also when  *)
(* they had been called off before, by any sequence of reviews.            *)
ConfirmedHasTasks ==
  \A c \in Case : StatusOf(c) = "confirmed_fraud" =>
    \A t \in TaskType : tasks[c][t] \in {"open", "completed"}

(* A case found to be legitimate leaves nothing to do, but for a task      *)
(* somebody has reopened since.                                            *)
ClearedHasNoOpenTask ==
  \A c \in Case : StatusOf(c) \in {"white", "unhandled"} =>
    \A t \in TaskType : tasks[c][t] = "open" => <<c, t>> \in byHand

(* The review a case shows first in its history (by reviewed_at, taken     *)
(* before the transaction) is the one its status comes from, unless two    *)
(* reviews of the case overlapped.                                         *)
HistoryExplainsStatus ==
  \A c \in Case \ raced :
    /\ state[c] = None <=> events[c] = {}
    /\ \A e \in events[c] : /\ e.stamp <= state[c].stamp
                            /\ e.stamp = state[c].stamp => e.status = state[c].status

(* A review leaves one entry in the history of a case, which holds for as  *)
(* long as the case had one current finding.                               *)
OneEventPerReview ==
  \A c \in Case : DateOf[c] \notin clashed =>
    \A e, f \in events[c] : e.stamp = f.stamp => e = f

(* The workflow implements CaseLifecycle. *)
Lifecycle == INSTANCE CaseLifecycle WITH
               status <- [c \in Case |-> StatusOf(c)],
               tasks <- tasks,
               assignee <- assignee
LifecycleSpec == Lifecycle!Spec
=============================================================================
