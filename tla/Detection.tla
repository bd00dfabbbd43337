------------------------------ MODULE Detection ------------------------------
(***************************************************************************)
(* What a recomputation makes of a date's conversions: which clients (IP   *)
(* and user agent) it finds suspicious, for which reasons, at which risk   *)
(* and for how much damage (suspicious.py, reporting_read.py,              *)
(* services/findings.py, calculate_risk_level, services/console.py).       *)
(*                                                                         *)
(* The detector works in two phases: SQL selects candidates from the daily *)
(* aggregates, Python gathers the evidence of each and gives the reasons.  *)
(* Dates are those whose raw rows retention has not deleted.               *)
(***************************************************************************)
EXTENDS Ingestion, Integers, FiniteSetsExt

CONSTANTS
  Client,               \* pairs of IP and user agent
  Browsers, Datacenter, \* those _is_browser_useragent / is_datacenter_ip accept
  ClientOf, MediaOf, ProgramOf, \* of an aggregate key
  At,                   \* time of a click or a conversion
  ClickAt, NoTime,      \* the click time ACS gives with a conversion, or NoTime
  Links,                \* <<click, conversion>>: by action log id or by cid
  AffiliateOf,          \* the affiliate a click or a conversion is paid to
  Automated,            \* clicks whose user agent is not a browser's
  RewardOf,             \* what a conversion's payload says it pays, or the default
  ClickDay,             \* the click date of the same day as a conversion date
  RuleSets,             \* rules the settings may hold
  DefaultReward,        \* DEFAULT_REWARD_YEN
  PaddingWindow,        \* CLICK_PADDING_EXTRA_WINDOW_SECONDS
  LinkedRatio,          \* CLICK_PADDING_LINKED_RATIO_THRESHOLD
  ExtraClicks,          \* CLICK_PADDING_EXTRA_WINDOW_THRESHOLD
  NonBrowserPercent     \* CLICK_PADDING_NON_BROWSER_RATIO_THRESHOLD

ASSUME RewardAssumption ==
  /\ DefaultReward \in Nat \ {0}
  /\ RewardOf \in [Rec -> Nat \ {0}]
ASSUME RulesAssumption ==
  \A r \in RuleSets : {r.conversions, r.media, r.programs, r.burst} \subseteq Int

When(holds, kind) == IF holds THEN {kind} ELSE {}

(* The sum of the numbers a function gives its arguments, without          *)
(* recursion: how many units they have.                                    *)
Units(f) == UNION {{x} \X (1..f[x]) : x \in DOMAIN f}

Total(f) == Cardinality(Units(f))

-----------------------------------------------------------------------------
(* The evidence. *)

(* The aggregate rows of client x, and the raw rows behind them.           *)
Rows(x, d) == {b \in Bucket : DateOf[b] = d /\ ClientOf[b] = x /\ agg[b] > 0}

Stored(x, d) == {c \in raw \intersect Counted : BucketOf[c] \in Rows(x, d)}

Seen(d) == {x \in Client : Rows(x, d) # {}}

(* Fault seeded by the mutants: only the last conversion's gap is kept.    *)
LatestGap(C) ==
  {At[c] - ClickAt[c] : c \in {e \in C : /\ ClickAt[e] # NoTime
                                        /\ \A o \in C : At[o] <= At[e]}}

(* fetch_click_to_conversion_gaps *)
Gaps(C) == {At[c] - ClickAt[c] : c \in {e \in C : ClickAt[e] # NoTime}}

(* fetch_conversion_click_padding_metrics: the clicks that led to the      *)
(* conversions C of day d, and the others of the same affiliate and        *)
(* program around them.                                                    *)
Linked(C) ==
  {k \in raw : DayOf(k) \in Split /\ \E c \in C : <<k, c>> \in Links}

Nearby(C, d) ==
  LET times == {At[c] : c \in C}
  IN  {k \in On(raw, ClickDay[d]) \ Linked(C) :
         /\ At[k] \in Min(times) - PaddingWindow .. Max(times) + PaddingWindow
         /\ \E c \in C : /\ AffiliateOf[k] = AffiliateOf[c]
                        /\ ProgramOf[BucketOf[k]] = ProgramOf[BucketOf[c]]}

(* fetch_conversion_rollups, with the gaps and the padding metrics.        *)
Evidence(x, d) ==
  LET rows == Rows(x, d)
      C == Stored(x, d)
      times == {At[c] : c \in C}
      nearby == Nearby(C, d)
  IN  [count     |-> Total([b \in rows |-> agg[b]]),
       media     |-> Cardinality({MediaOf[b] : b \in rows}),
       programs  |-> Cardinality({ProgramOf[b] : b \in rows}),
       lasted    |-> Max(times) - Min(times),
       gaps      |-> Gaps(C),
       linked    |-> Cardinality(Linked(C)),
       nearby    |-> Cardinality(nearby),
       automated |-> Cardinality(nearby \intersect Automated)]

-----------------------------------------------------------------------------
(* _reasons_for_rollup: the reasons rules r find in evidence e. *)

DirectReasons(r, e) ==
  UNION { When(e.count >= r.conversions, "count"),
          When(e.media >= r.media, "media"),
          When(e.programs >= r.programs, "program"),
          When(e.count >= r.burst /\ e.lasted <= r.window, "burst"),
          When(r.min # NoTime /\ \E g \in e.gaps : g < r.min, "fast"),
          When(r.max # NoTime /\ \E g \in e.gaps : g > r.max, "slow") }

PaddingReasons(e) ==
  LET many == e.nearby >= ExtraClicks
  IN  UNION { When(e.linked >= LinkedRatio * e.count, "linked"),
              When(many, "extra"),
              When(many /\ 100 * e.automated >= NonBrowserPercent * e.nearby,
                   "automated") }

PaddingKinds == {"linked", "extra", "automated"}

Reasons(r, e) == DirectReasons(r, e) \union PaddingReasons(e)

(* _passes_filters, and the WHERE clause of the query. *)
Passes(r, x) ==
  /\ r.browserOnly => x \in Browsers
  /\ r.excludeDatacenter => x \notin Datacenter

(* Fault seeded by the mutants: the query does not know of bursts. *)
SelectedNoBurst(r, e) ==
  \/ e.count >= r.conversions
  \/ e.media >= r.media
  \/ e.programs >= r.programs

(* fetch_suspicious_conversion_rollups, HAVING: a burst is selected by its *)
(* count, how long it took is checked later.                               *)
SelectedBySql(r, e) ==
  \/ e.count >= r.conversions
  \/ e.media >= r.media
  \/ e.programs >= r.programs
  \/ e.count >= r.burst

SelectedByGap(r, e) == (r.min # NoTime \/ r.max # NoTime) /\ e.gaps # {}

(* find_for_date *)
Found(r, x, e) ==
  /\ Passes(r, x)
  /\ SelectedBySql(r, e) \/ SelectedByGap(r, e)
  /\ Reasons(r, e) # {}

-----------------------------------------------------------------------------
(* calculate_risk_level *)

CountScore(n) ==
  CASE n >= 10 -> 40
    [] n >= 5 /\ n < 10 -> 20
    [] n >= 3 /\ n < 5 -> 10
    [] OTHER -> 0

Points(holds, n) == IF holds THEN n ELSE 0

Score(R, n) ==
  25 * Cardinality(R)
    + Points("burst" \in R, 30)
    + Points("fast" \in R, 25)
    + Points("media" \in R, 15)
    + Points("program" \in R, 15)
    + Points(R \intersect PaddingKinds # {}, 25)
    + CountScore(n)

Level(R, n) ==
  CASE Score(R, n) >= 65 -> "high"
    [] Score(R, n) >= 30 /\ Score(R, n) < 65 -> "medium"
    [] OTHER -> "low"

-----------------------------------------------------------------------------
(* _estimate_damage_snapshot *)

(* get_program_unit_prices: the price paid most often, of those the        *)
(* highest; a program without a conversion of the date has none.           *)
Paid(p, d) == {c \in On(raw, d) : ProgramOf[BucketOf[c]] = p}

Times(p, d, price) == Cardinality({c \in Paid(p, d) : RewardOf[c] = price})

(* Fault seeded by the mutants: the highest price of all days is taken.    *)
UnitPriceHighest(p, d) == Max({RewardOf[c] : c \in raw} \union {DefaultReward})

UnitPrice(p, d) ==
  LET prices == {RewardOf[c] : c \in Paid(p, d)}
  IN  IF prices = {} THEN DefaultReward
      ELSE CHOOSE v \in prices :
             \A w \in prices : \/ Times(p, d, v) > Times(p, d, w)
                               \/ Times(p, d, v) = Times(p, d, w) /\ v >= w

(* The rows are read after the count they are to add up to: what is        *)
(* missing is priced at the default.                                       *)
Damage(x, d) ==
  LET rows == Rows(x, d)
      itemised == Total([b \in rows |-> agg[b]])
      missing == Max({Evidence(x, d).count - itemised, 0})
  IN  Total([b \in rows |-> agg[b] * UnitPrice(ProgramOf[b], d)])
        + missing * DefaultReward

(* _fetch_alert_transaction_summary: what the console works out for a      *)
(* finding stored without its damage.  It adds up what the conversions pay *)
(* and prices missing ones like most of those found, or of their programs, *)
(* any of the prices paid most often.                                      *)
MostPaid(C) ==
  LET paying(v) == Cardinality({c \in C : RewardOf[c] = v})
      prices == {RewardOf[c] : c \in C}
  IN  {v \in prices : \A w \in prices : paying(w) <= paying(v)}

Amounts(x, d) ==
  LET C == Stored(x, d)
      programs == {ProgramOf[b] : b \in Rows(x, d)}
      known == IF C # {} THEN MostPaid(C)
                         ELSE UNION {MostPaid(Paid(p, d)) : p \in programs}
      missing == Max({Evidence(x, d).count - Cardinality(C), 0})
  IN  {Total([c \in C |-> RewardOf[c]]) + missing * v :
         v \in IF known = {} THEN {DefaultReward} ELSE known}

-----------------------------------------------------------------------------
(* Properties. *)

ConversionDates == Date \ Split

(* The query selects every client the rules accuse: no threshold is        *)
(* checked more strictly in SQL than in Python.  Only click padding is     *)
(* looked for among the selected clients alone, and nobody the filters     *)
(* exempt is accused.                                                      *)
DetectionIsComplete ==
  \A d \in ConversionDates : \A x \in Seen(d) :
    \A e \in {Evidence(x, d)}, r \in RuleSets :
      /\ Found(r, x, e) => Passes(r, x)
      /\ Passes(r, x) /\ ~Found(r, x, e) => Reasons(r, e) \subseteq PaddingKinds

Grows ==
  /\ raw \subseteq raw' /\ raw # raw'
  /\ \A b \in Bucket : agg[b] <= agg'[b]

NeverLess ==
  \A d \in ConversionDates : \A x \in Seen(d) :
    \A e \in {Evidence(x, d)}, f \in {Evidence(x, d)'}, r \in RuleSets :
      LET lost == Reasons(r, e) \ Reasons(r, f)
      IN  /\ lost \subseteq PaddingKinds \union {"burst"}
          /\ lost = {} => Score(Reasons(r, e), e.count)
                            <= Score(Reasons(r, f), f.count)

(* More conversions or clicks of a day never make a client look better,    *)
(* except that a burst may turn out to be part of a longer day, and that   *)
(* clicks count as padding in proportion to the conversions.               *)
MoreEvidenceNeverLessRisk == [][Grows => NeverLess]_vars

(* The damage of a client is what its stored conversions pay, none left    *)
(* out or paid twice: the amount the console works out, and, where each    *)
(* program pays one price, also the one a recomputation stores.            *)
DamageIsWhatWasPaid ==
  \A d \in ConversionDates \ tainted : \A x \in Seen(d) :
    LET paid == Total([c \in Stored(x, d) |-> RewardOf[c]])
        onePrice(p) == Cardinality({RewardOf[c] : c \in Paid(p, d)}) = 1
    IN  /\ Amounts(x, d) = {paid}
        /\ (\A b \in Rows(x, d) : onePrice(ProgramOf[b])) => Damage(x, d) = paid
=============================================================================
