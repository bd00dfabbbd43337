SPECIFICATION Spec
CONSTANTS
  c1 = c1 c2 = c2 c3 = c3 r1 = r1 r2 = r2 t1 = t1 a1 = a1 a2 = a2 w1 = w1 w2 = w2 w3 = w3
  e1 = e1 e2 = e2
  None = None
  Case = {c1, c2, c3}
  Rule = {r1, r2}
  Date = {1, 2}
  TaskType = {t1}
  Admin = {a1, a2}
  Recomputer = {w1, w2, w3}
  Locked = {w1, w2}
  MaxClock = 3
  MaxGen = 3
  MaxCalls = 4
  Today = 4
  Hazards = {"error", "purge"}
  Decisions = {"confirmed_fraud", "white"}
  DateOf <- MCDateOf
  Inputs <- MCInputs
  Outcomes <- MCOutcomes
  ScoreOf <- MCScoreOf
  DamageOf <- MCDamageOf
  RankOf <- MCRankOf
  EntityOf <- MCEntityOf
  Selections <- MCSelections
  Filters <- MCFilters
SYMMETRY Sym
INVARIANTS
  TypeOK
  OneGenerationShown
  ConfirmedHasTasks
  ClearedHasNoOpenTask
  HistoryExplainsStatus
  OneEventPerReview
  PagesPartition
  
  DashboardMatchesList
  CasePageAgrees
PROPERTIES LifecycleSpec
\* The bounds on the requests and the recomputations stop the model.
CHECK_DEADLOCK FALSE
