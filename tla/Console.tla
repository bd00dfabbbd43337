------------------------------- MODULE Console -------------------------------
(***************************************************************************)
(* What the console and the findings API read from the tables CaseReview   *)
(* changes: the list of alerts with its filters, order and pages, the      *)
(* counts beside it, the dashboard, a case and the cases related to it,    *)
(* the review of everything a filter selects (services/console.py), and    *)
(* the findings of a date (repositories/suspicious_findings_read.py).      *)
(* Each operator is one query on the committed rows.                       *)
(***************************************************************************)
EXTENDS CaseReview, Integers, Sequences

CONSTANTS
  ScoreOf,    \* risk_score of a finding
  DamageOf,   \* estimated_damage_yen of a finding, or None
  RankOf,     \* place of the finding keys in their order
  EntityOf,   \* IP and user agent of a case
  Selections, \* sets of findings a risk level and a search text may select
  Filters,    \* the lists asked for
  Today       \* now_local(), in days

(* Both kinds of key are digests of texts that differ (_case_key). *)
ASSUME ConsoleAssumption ==
  /\ IsFiniteSet(FindingKey)
  /\ None \notin Nat
  /\ Case \intersect FindingKey = {}
  /\ ScoreOf \in [FindingKey -> Nat]
  /\ DamageOf \in [FindingKey -> Nat \union {None}]
  /\ RankOf \in [FindingKey -> Nat]
  /\ \A k, l \in FindingKey : RankOf[k] = RankOf[l] => k = l
  /\ Case \subseteq DOMAIN EntityOf
  /\ \A c, e \in Case : DateOf[c] = DateOf[e] /\ EntityOf[c] = EntityOf[e] => c = e
  /\ Selections \subseteq SUBSET FindingKey
  /\ Today \in Nat

Sort == {"risk_desc", "risk_asc", "damage_desc", "damage_asc",
         "detected_desc", "detected_asc"}

(* A request: review status or "all", first and last date or None, the     *)
(* findings its risk level and search text select, order and page size.    *)
Filter == [status : Status \union {"all"}, start : Date \union {None},
           end : Date \union {None}, among : Selections, sort : Sort, size : Int]

ASSUME FiltersAssumption == Filters \subseteq Filter

DateOfKey(k) == DateOf[k[1]]
StatusOfKey(k) == StatusOf(k[1])

-----------------------------------------------------------------------------
(* The list *)

(* _resolve_alert_window: one date alone means that day. *)
Window(f) ==
  [f EXCEPT !.start = IF @ = None THEN f.end ELSE @,
            !.end = IF @ = None THEN f.start ELSE @]

(* _build_alert_conditions *)
Selected(f) ==
  {k \in f.among : /\ current[k]
                   /\ f.start # None => DateOfKey(k) >= f.start
                   /\ f.end # None => DateOfKey(k) <= f.end
                   /\ f.status \in {"all", StatusOfKey(k)}}

Damage(k) == IF DamageOf[k] = None THEN 0 ELSE DamageOf[k]

(* Fault seeded by the mutants: no finding key to break ties. *)
UntiedOrderBy(s, k) ==
  CASE s = "risk_desc" -> <<-ScoreOf[k], -finding[k]>>
    [] s = "risk_asc"  -> <<ScoreOf[k], -finding[k]>>
    [] OTHER           -> <<finding[k], -ScoreOf[k]>>

(* ORDER BY; computed_at grows with the generation. *)
OrderBy(s, k) ==
  LET newest == -finding[k]
      gravest == -ScoreOf[k]
  IN Append(CASE s = "risk_desc"     -> <<gravest, newest>>
              [] s = "risk_asc"      -> <<ScoreOf[k], newest>>
              [] s = "damage_desc"   -> <<-Damage(k), gravest, newest>>
              [] s = "damage_asc"    -> <<Damage(k), gravest, newest>>
              [] s = "detected_desc" -> <<newest, gravest>>
              [] s = "detected_asc"  -> <<finding[k], gravest>>,
            RankOf[k])

Precedes(s, k, l) ==
  LET x == OrderBy(s, k)
      y == OrderBy(s, l)
  IN \E i \in DOMAIN x : x[i] < y[i] /\ \A j \in 1..(i - 1) : x[j] = y[j]

(* Number of rows before k among R. *)
Place(s, R, k) == Cardinality({l \in R : Precedes(s, l, k)})

PageSize(f) == IF f.size < 1 THEN 1 ELSE IF f.size > 200 THEN 200 ELSE f.size
Offset(f, p) == (IF p < 1 THEN 0 ELSE p - 1) * PageSize(f)

(* LIMIT and OFFSET *)
Page(f, p) ==
  LET R == Selected(Window(f)) IN
    {k \in R : Place(f.sort, R, k) \in Offset(f, p)..(Offset(f, p) + PageSize(f) - 1)}

(* What export_alerts_csv writes, _count_alert_rows, and                   *)
(* _fetch_alert_status_counts, whatever the status filter is.              *)
Export(f) == Selected(Window(f))
Total(f) == Cardinality(Selected(Window(f)))
StatusCount(f, s) ==
  Cardinality({k \in Selected([Window(f) EXCEPT !.status = "all"]) : StatusOfKey(k) = s})

(* list_alerts *)
AlertList(f, p) ==
  LET items == Page(f, p) IN
    [items |-> items, total |-> Total(f),
     counts |-> [s \in Status |-> StatusCount(f, s)],
     has_next |-> Offset(f, p) + Cardinality(items) < Total(f)]

-----------------------------------------------------------------------------
(* The review of a filter *)

(* Fault seeded by the mutants: the status filter is not applied. *)
ReviewKeysOfAnyStatus(f) == CasesOf(Selected([f EXCEPT !.status = "all"]))

(* _resolve_review_case_keys: the filters as they came, without Window. *)
ReviewKeys(f) == CasesOf(Selected(f))

-----------------------------------------------------------------------------
(* A case *)

(* _fetch_alert_detail_row: by case or finding key; the newest finding.    *)
Detail(key) ==
  LET R == Matching({key}) IN
    {k \in R : \A l \in R \ {k} : \/ finding[l] < finding[k]
                                  \/ finding[l] = finding[k] /\ RankOf[k] < RankOf[l]}

(* Fault seeded by the mutants: only earlier days. *)
EarlierRelated(k) ==
  {l \in FindingKey : /\ current[l]
                      /\ EntityOf[l[1]] = EntityOf[k[1]]
                      /\ DateOfKey(k) - DateOfKey(l) \in 1..30}

(* _fetch_related_cases: the same entity on other days, 30 days back; the  *)
(* latest five.                                                            *)
Related(k) ==
  LET R == {l \in FindingKey : /\ current[l]
                               /\ EntityOf[l[1]] = EntityOf[k[1]]
                               /\ DateOfKey(l) # DateOfKey(k)
                               /\ DateOfKey(l) >= DateOfKey(k) - 30}
      later(l) == {m \in R : \/ DateOfKey(m) > DateOfKey(l)
                             \/ DateOfKey(m) = DateOfKey(l) /\ finding[m] > finding[l]}
  IN {l \in R : Cardinality(later(l)) < 5}

(* follow_up_open_count of _attach_case_context. *)
OpenTasks(c) == {t \in TaskType : tasks[c][t] = "open"}

(* _fetch_review_history: newest first; the reviews shown at the top. *)
LatestEvents(c) == {e \in events[c] : \A g \in events[c] : g.stamp <= e.stamp}

(* get_alert_detail *)
CasePage(c) ==
  [findings |-> Detail(c), status |-> StatusOf(c), latest |-> LatestEvents(c),
   open |-> OpenTasks(c), assignee |-> assignee[c],
   related |-> UNION {Related(k) : k \in Detail(c)}]

-----------------------------------------------------------------------------
(* The dashboard *)

Backlog == [status |-> "all", start |-> None, end |-> None, among |-> FindingKey,
            sort |-> "risk_desc", size |-> 50]

WithStatus(R, s) == {k \in R : StatusOfKey(k) = s}

(* _build_review_outcomes *)
ReviewedTotal(R) ==
  Cardinality(WithStatus(R, "confirmed_fraud")) + Cardinality(WithStatus(R, "white"))

(* _build_operational_insights *)
Age(k) == Today - DateOfKey(k)
StaleUnhandled(R) == {k \in WithStatus(R, "unhandled") : Age(k) >= 3}

-----------------------------------------------------------------------------
(* The findings API *)

(* Fault seeded by the mutants: the join takes any generation of the date, *)
(* current or not.                                                         *)
ApiRowsOfAny(d) == {k \in OfDate(d) : finding[k] > 0}

(* _generation_join_sql: current rows of a current generation. *)
ApiRows(d) == {k \in OfDate(d) : current[k] /\ finding[k] \in generation[d]}

(* get_daily_finding_counts, the trend of the dashboard, and               *)
(* count_current_conversion_findings of the summary.                       *)
DailyCount(d) == Cardinality(ApiRows(d))

(* get_dashboard; the amounts are left out. *)
Dashboard ==
  LET R == Selected(Backlog) IN
    [unhandled |-> Cardinality(WithStatus(R, "unhandled")),
     investigating |-> Cardinality(WithStatus(R, "investigating")),
     reviewed |-> ReviewedTotal(R), stale |-> Cardinality(StaleUnhandled(R)),
     trend |-> [d \in Date |-> DailyCount(d)]]

-----------------------------------------------------------------------------
(* Properties. *)

(* Turning the pages of a list while has_next says so shows what the       *)
(* export of the same filters holds, every finding once: whatever the      *)
(* order and the page size, also when findings tie in every column they    *)
(* are sorted by.                                                          *)
PagesPartition ==
  \A f \in Filters :
    /\ UNION {Page(f, p) : p \in 1..(Total(f) + 1)} = Export(f)
    /\ \A p \in 1..(Total(f) + 1) :
         LET this == AlertList(f, p)
             next == Page(f, p + 1)
         IN /\ Cardinality(this.items) <= PageSize(f)
            /\ this.has_next <=> next # {}
            /\ this.items \intersect next = {}

(* The review of a filter reaches the cases its list exports, all of them  *)
(* and no other.  The two resolve the dates differently, and agree unless  *)
(* only one date is given, which the console never does.                   *)
ReviewReachesListed ==
  /\ \A f \in Filters : (f.start = None <=> f.end = None) =>
       ReviewKeys(f) = CasesOf(Export(f))
  /\ \A x \in Status \union {"all"} :
       FilteredCases(x) = ReviewKeys([Backlog EXCEPT !.status = x])

(* The numbers on the dashboard are those of the lists it leads to: the    *)
(* unhandled alerts, those three days old, the tabs and their total, and   *)
(* for every date not recomputed by two at once the trend, which is read   *)
(* through the other API.                                                  *)
DashboardMatchesList ==
  LET all == AlertList(Backlog, 1)
      unhandled == [Backlog EXCEPT !.status = "unhandled"]
  IN /\ Dashboard.unhandled = Total(unhandled)
     /\ Dashboard.unhandled = all.counts["unhandled"]
     /\ Dashboard.stale =
          Cardinality({k \in Export(unhandled) : DateOfKey(k) <= Today - 3})
     /\ Dashboard.unhandled + Dashboard.investigating + Dashboard.reviewed = all.total
     /\ \A d \in Date \ unsettled :
          /\ ApiRows(d) = CurrentOf(d)
          /\ Dashboard.trend[d] = Total([Backlog EXCEPT !.start = d])

(* The page of a case that has findings shows the newest of them.  Unless  *)
(* two reviews of it overlapped the status it shows is that of the latest  *)
(* review it shows; a confirmed case that shows no open task has them all  *)
(* done.  The cases related to it lead back to it, when they are at most   *)
(* 30 days apart and the list is not cut off.                              *)
CasePageAgrees ==
  \A c \in CasesOf(Selected(Backlog)) :
    LET page == CasePage(c) IN
      /\ Cardinality(page.findings) = 1
      /\ c \notin raced => \A e \in page.latest : e.status = page.status
      /\ page.status = "confirmed_fraud" /\ page.open = {} =>
           \A t \in TaskType : tasks[c][t] = "completed"
      /\ \A k \in page.findings, l \in page.related :
           \/ k \in CasePage(l[1]).related
           \/ Age(k) - Age(l) \notin -30..30
           \/ Cardinality(CasePage(l[1]).related) = 5
=============================================================================
