-------------------------- MODULE FindingsPipeline --------------------------
(***************************************************************************)
(* How the findings of one date follow the data and the settings they are  *)
(* computed from: the triggers (refresh, ingestion, settings update,       *)
(* master sync), the deduplicated recompute job, the recomputation itself  *)
(* (services/findings.py), the versions and watermarks it records, and the *)
(* staleness the summary derives from them (services/reporting.py).        *)
(*                                                                         *)
(* The tasks of a date hold its date-write lock one at a time (MutualExclu- *)
(* sion of JobQueue); refreshes and settings updates take no lock.  Data   *)
(* and settings are version numbers and names: what matters is which ones  *)
(* a generation was computed from.                                         *)
(***************************************************************************)
EXTENDS Naturals, Sequences, FiniteSets

CONSTANTS
  Setting,   \* contents app_settings may have
  Default,   \* the settings of the environment, in effect until a save
  Refresh,   \* refresh jobs that may run at a time
  Admin,     \* callers of update_settings
  None,
  MaxClock,  \* bound on the transactions that write data
  MaxSaves,  \* bound on the settings updates
  Hazards    \* what may happen besides, a subset of HazardKinds

(***************************************************************************)
(* crash   - a worker or the API process dies between two transactions     *)
(* error   - a transaction of a settings update fails                      *)
(* giveUp  - a task fails for good                                         *)
(* revert  - settings that were in effect before are saved again           *)
(***************************************************************************)
HazardKinds == {"crash", "error", "giveUp", "revert"}

ASSUME HazardsAssumption == Hazards \subseteq HazardKinds
ASSUME SettingAssumption == Default \in Setting
ASSUME BoundAssumption == MaxClock \in Nat /\ MaxSaves \in Nat

Kind == {"click", "conv"}
(* "click" and "conv" ingest the date and recompute inline. *)
Task == Kind \union {"recompute"}

VARIABLES
  \* the database
  content,   \* content[k]: version of the date's rows of kind k, 0 if none
  mark,      \* mark[k]: MAX(updated_at) of those rows
  clock,     \* now_local()
  setting,   \* app_settings
  past,      \* settings that were in effect, setting included
  saves,     \* settings updates so far
  versions,  \* settings_versions by created_at, as fingerprints
  current,   \* the current findings generation of the date
  jobs,      \* tasks of the date with a queued or running job
  \* processes
  task,      \* the task whose worker holds the date-write lock
  pc,        \* where that worker is
  stamp,     \* updated_at of the rows it is about to commit
  read,      \* what its recomputation has read so far
  rp,        \* refreshes: where they are, updated_at, date affected
  ap,        \* settings updates: where they are, what they save
  \* history
  lost,      \* a change whose trigger is gone and that no queued job covers
  late       \* data committed with an updated_at below the watermark

data  == <<content, mark, clock>>
admin == <<setting, past, saves, versions, ap>>
work  == <<task, pc, stamp, read>>
vars  == <<data, admin, current, jobs, work, rp, lost, late>>

(* What a generation records: the settings it is labelled with, the rules  *)
(* it applied, the watermarks it saw and the rows it was computed from.    *)
Generation == [label : Setting, rules : Setting,
               mark : [Kind -> Nat], content : [Kind -> Nat]]

ASSUME NoneAssumption == None \notin Task \union Generation

Blank == [label |-> Default, rules |-> Default,
          mark |-> [k \in Kind |-> 0], content |-> [k \in Kind |-> 0]]

RefreshState == [at : {"idle", "click", "conv", "merged"},
                 stamp : 0..MaxClock, affected : BOOLEAN]
UpdateState  == [at : {"idle", "saved", "versioned"}, value : Setting]

TypeOK ==
  /\ content \in [Kind -> Nat] /\ mark \in [Kind -> 0..MaxClock]
  /\ clock \in 0..MaxClock
  /\ setting \in past /\ past \subseteq Setting /\ saves \in 0..MaxSaves
  /\ versions \in Seq(Setting)
  /\ current \in Generation \union {None}
  /\ jobs \subseteq Task /\ task \in jobs \union {None}
  /\ pc \in {"idle", "write", "commit", "settings", "rules", "version",
             "marks", "conversions", "clicks", "replace", "done"}
  /\ stamp \in 0..MaxClock /\ read \in Generation
  /\ rp \in [Refresh -> RefreshState] /\ ap \in [Admin -> UpdateState]
  /\ lost \in BOOLEAN /\ late \in BOOLEAN

Init ==
  /\ content = [k \in Kind |-> 0]
  /\ mark = [k \in Kind |-> 0]
  /\ clock = 0
  /\ setting = Default
  /\ past = {Default}
  /\ saves = 0
  /\ versions = <<>>
  /\ current = None
  /\ jobs = {}
  /\ task = None
  /\ pc = "idle"
  /\ stamp = 0
  /\ read = Blank
  /\ rp = [r \in Refresh |-> [at |-> "idle", stamp |-> 0, affected |-> FALSE]]
  /\ ap = [a \in Admin |-> [at |-> "idle", value |-> Default]]
  /\ lost = FALSE
  /\ late = FALSE

-----------------------------------------------------------------------------
HasData == \E k \in Kind : content[k] > 0

Latest == versions[Len(versions)]

(* ensure_settings_version: a known fingerprint keeps its old row. *)
Registered(s) ==
  IF \E i \in DOMAIN versions : versions[i] = s THEN versions
                                                ELSE Append(versions, s)

(* _build_findings_freshness.  It asks for the conversion watermark and    *)
(* the latest settings version, never for the click watermark.             *)
Stale ==
  /\ content["conv"] > 0
  /\ \/ current = None
     \/ current.mark["conv"] # mark["conv"]
     \/ versions # <<>> /\ current.label # Latest

(* enqueue_recompute_findings_job: deduplicated by date, also against a    *)
(* recomputation that is already running.                                  *)
Trigger ==
  /\ jobs' = jobs \union {"recompute"}
  /\ lost' = (task = "recompute")

-----------------------------------------------------------------------------
(* Refresh: clicks, then conversions, then the triggers. *)

StartRefresh(r) ==
  /\ rp[r].at = "idle"
  /\ rp' = [rp EXCEPT ![r].at = "click"]
  /\ UNCHANGED <<data, admin, current, jobs, work, lost, late>>

(* The rows of the merge are written, with the present time; they become   *)
(* visible when the transaction commits.                                   *)
OpenMerge(r) ==
  /\ rp[r].at \in Kind /\ rp[r].stamp = 0
  /\ clock < MaxClock
  /\ clock' = clock + 1
  /\ rp' = [rp EXCEPT ![r].stamp = clock + 1]
  /\ UNCHANGED <<content, mark, admin, current, jobs, work, lost, late>>

AfterMerge(r) == IF rp[r].at = "click" THEN "conv" ELSE "merged"

CommitMerge(r) ==
  /\ rp[r].stamp > 0
  /\ LET k == rp[r].at IN
       /\ content' = [content EXCEPT ![k] = @ + 1]
       /\ mark' = [mark EXCEPT ![k] = IF rp[r].stamp > @ THEN rp[r].stamp ELSE @]
       /\ late' = (late \/ (k = "conv" /\ rp[r].stamp < mark[k]))
  /\ rp' = [rp EXCEPT ![r] = [at |-> AfterMerge(r), stamp |-> 0,
                              affected |-> TRUE]]
  /\ UNCHANGED <<clock, admin, current, jobs, work, lost>>

(* Not asked for, or nothing new on this date. *)
SkipMerge(r) ==
  /\ rp[r].at \in Kind /\ rp[r].stamp = 0
  /\ rp' = [rp EXCEPT ![r].at = AfterMerge(r)]
  /\ UNCHANGED <<data, admin, current, jobs, work, lost, late>>

Reset(r) == rp' = [rp EXCEPT ![r] = [at |-> "idle", stamp |-> 0,
                                     affected |-> FALSE]]

FinishRefresh(r) ==
  /\ rp[r].at = "merged"
  /\ IF rp[r].affected THEN Trigger ELSE UNCHANGED <<jobs, lost>>
  /\ Reset(r)
  /\ UNCHANGED <<data, admin, current, work, late>>

(* The next attempt finds the merged rows and reports no affected date.    *)
CrashRefresh(r) ==
  /\ "crash" \in Hazards
  /\ rp[r].at # "idle"
  /\ lost' = (lost \/ rp[r].affected)
  /\ Reset(r)
  /\ UNCHANGED <<data, admin, current, jobs, work, late>>

-----------------------------------------------------------------------------
(* update_settings: the rows and the version are two transactions, the     *)
(* recompute job is a third.                                               *)

SaveRows(a, s) ==
  /\ ap[a].at = "idle"
  /\ saves < MaxSaves
  /\ s \in past => "revert" \in Hazards
  /\ setting' = s
  /\ past' = past \union {s}
  /\ saves' = saves + 1
  /\ ap' = [ap EXCEPT ![a] = [at |-> "saved", value |-> s]]
  /\ UNCHANGED <<data, versions, current, jobs, work, rp, lost, late>>

SaveVersion(a) ==
  /\ ap[a].at = "saved"
  /\ versions' = Registered(ap[a].value)
  /\ ap' = [ap EXCEPT ![a].at = "versioned"]
  /\ UNCHANGED <<data, setting, past, saves, current, jobs, work, rp, lost, late>>

Leave(a) == ap' = [ap EXCEPT ![a] = [at |-> "idle", value |-> Default]]

SaveTriggers(a) ==
  /\ ap[a].at = "versioned"
  /\ IF HasData THEN Trigger ELSE UNCHANGED <<jobs, lost>>
  /\ Leave(a)
  /\ UNCHANGED <<data, setting, past, saves, versions, current, work, rp, late>>

(* "persisted": false although the rows are, or no job enqueued. *)
SaveFails(a) ==
  /\ Hazards \intersect {"crash", "error"} # {}
  /\ ap[a].at # "idle"
  /\ lost' = (lost \/ HasData)
  /\ Leave(a)
  /\ UNCHANGED <<data, setting, past, saves, versions, current, jobs, work, rp, late>>

(* External requests: an ingestion of the date; a master sync, which asks  *)
(* for a recomputation of every date that has data.                        *)
RequestIngestion(k) ==
  /\ k \notin jobs
  /\ clock < MaxClock
  /\ jobs' = jobs \union {k}
  /\ UNCHANGED <<data, admin, current, work, rp, lost, late>>

SyncMasters ==
  /\ HasData
  /\ Trigger
  /\ UNCHANGED <<data, admin, current, work, rp, late>>

-----------------------------------------------------------------------------
(* The task that holds the date-write lock. *)

Acquire(t) ==
  /\ task = None
  /\ t \in jobs
  /\ task' = t
  /\ pc' = IF t = "recompute" THEN "settings" ELSE "write"
  /\ UNCHANGED <<data, admin, current, jobs, stamp, read, rp, lost, late>>

WriteRows ==
  /\ pc = "write"
  /\ clock < MaxClock
  /\ clock' = clock + 1
  /\ stamp' = clock + 1
  /\ pc' = "commit"
  /\ UNCHANGED <<content, mark, admin, current, jobs, task, read, rp, lost, late>>

(* The date was deleted and stored anew: its watermark is this write's.    *)
CommitRows ==
  /\ pc = "commit"
  /\ content' = [content EXCEPT ![task] = @ + 1]
  /\ mark' = [mark EXCEPT ![task] = stamp]
  /\ stamp' = 0
  /\ pc' = "settings"
  /\ UNCHANGED <<clock, admin, current, jobs, task, read, rp, lost, late>>

(* recompute_findings_for_dates *)

Goto(l) == pc' = l /\ UNCHANGED <<data, admin, current, jobs, task, stamp, rp, lost, late>>

GetSettings ==
  /\ pc = "settings"
  /\ read' = [read EXCEPT !.label = setting]
  /\ Goto("rules")

(* build_rule_sets asks for the settings once more. *)
BuildRuleSets ==
  /\ pc = "rules"
  /\ read' = [read EXCEPT !.rules = setting]
  /\ Goto("version")

EnsureVersion ==
  /\ pc = "version"
  /\ versions' = Registered(read.label)
  /\ pc' = "marks"
  /\ UNCHANGED <<data, setting, past, saves, ap, current, jobs, task, stamp, read,
                 rp, lost, late>>

ReadWatermarks ==
  /\ pc = "marks"
  /\ read' = [read EXCEPT !.mark = mark]
  /\ Goto("conversions")

(* The detector reads the conversions, then the clicks linked to them.  It *)
(* asks several times for each; the first answer stands for all, since a   *)
(* later one is no older.                                                  *)
ReadConversions ==
  /\ pc = "conversions"
  /\ read' = [read EXCEPT !.content["conv"] = content["conv"]]
  /\ Goto("clicks")

ReadClicks ==
  /\ pc = "clicks"
  /\ read' = [read EXCEPT !.content["click"] = content["click"]]
  /\ Goto("replace")

(* Fault seeded by the mutants: the watermarks are taken at the end. *)
ReplaceRestamped ==
  /\ pc = "replace"
  /\ current' = [read EXCEPT !.mark = mark]
  /\ late' = (late /\ read.content["conv"] # content["conv"])
  /\ pc' = "done"
  /\ UNCHANGED <<data, admin, jobs, task, stamp, read, rp, lost>>

Replace ==
  /\ pc = "replace"
  /\ current' = read
  /\ late' = (late /\ read.content["conv"] # content["conv"])
  /\ pc' = "done"
  /\ UNCHANGED <<data, admin, jobs, task, stamp, read, rp, lost>>

Release == task' = None /\ pc' = "idle" /\ stamp' = 0 /\ read' = Blank

(* Fault seeded by the mutants: an ingestion takes the queued recomputation *)
(* with it, having recomputed itself.                                      *)
FinishBoth ==
  /\ pc = "done"
  /\ jobs' = jobs \ {task, "recompute"}
  /\ Release
  /\ UNCHANGED <<data, admin, current, rp, lost, late>>

Finish ==
  /\ pc = "done"
  /\ jobs' = jobs \ {task}
  /\ Release
  /\ UNCHANGED <<data, admin, current, rp, lost, late>>

(* Lease recovery or the retry runs the task again from the start.         *)
Restart ==
  /\ "crash" \in Hazards
  /\ task # None
  /\ lost' = (lost /\ task # "recompute")
  /\ Release
  /\ UNCHANGED <<data, admin, current, jobs, rp, late>>

(* Fault seeded by the mutants: the lock outlives the job. *)
GiveUpHolding ==
  /\ "giveUp" \in Hazards
  /\ task # None
  /\ jobs' = jobs \ {task}
  /\ lost' = TRUE
  /\ UNCHANGED <<data, admin, current, work, rp, late>>

GiveUp ==
  /\ "giveUp" \in Hazards
  /\ task # None
  /\ jobs' = jobs \ {task}
  /\ lost' = TRUE
  /\ Release
  /\ UNCHANGED <<data, admin, current, rp, late>>

-----------------------------------------------------------------------------
RefreshStep(r) ==
  \/ StartRefresh(r) \/ OpenMerge(r) \/ CommitMerge(r) \/ SkipMerge(r)
  \/ FinishRefresh(r) \/ CrashRefresh(r)

AdminStep(a) ==
  \/ \E s \in Setting : SaveRows(a, s)
  \/ SaveVersion(a) \/ SaveTriggers(a) \/ SaveFails(a)

TaskStep ==
  \/ \E t \in Task : Acquire(t)
  \/ WriteRows \/ CommitRows
  \/ GetSettings \/ BuildRuleSets \/ EnsureVersion \/ ReadWatermarks
  \/ ReadConversions \/ ReadClicks \/ Replace \/ Finish \/ Restart \/ GiveUp

Next ==
  \/ \E r \in Refresh : RefreshStep(r)
  \/ \E a \in Admin : AdminStep(a)
  \/ \E k \in Kind : RequestIngestion(k)
  \/ SyncMasters
  \/ TaskStep

Spec == Init /\ [][Next]_vars
-----------------------------------------------------------------------------
(* Properties. *)

(* Nothing is queued or under way that could still change the findings.    *)
Quiet ==
  /\ jobs = {}
  /\ \A r \in Refresh : rp[r].at = "idle"
  /\ \A a \in Admin : ap[a].at = "idle"

Reflects(g) == g.content = content /\ g.rules = setting

(* When everything has settled, the findings are those of the data and the *)
(* settings of the moment, unless a trigger was lost: dropped because a    *)
(* recomputation was already running, or gone with a process that died or  *)
(* a task that failed for good.  Racing refreshes, ingestions, settings    *)
(* updates and crashed workers cannot leave outdated findings otherwise.   *)
SettledIsCurrent ==
  Quiet /\ HasData /\ ~lost => current # None /\ Reflects(current)

(* Findings that are not marked stale were computed from the conversions   *)
(* of the moment and with the settings of the moment, in every state and   *)
(* whatever was lost, provided that data did not commit behind the         *)
(* watermark and that the latest version is that of the settings.          *)
FreshMeansCurrent ==
  /\ content["conv"] > 0 /\ ~Stale
  /\ ~late
  /\ versions # <<>> /\ Latest = setting
  => /\ current.rules = setting
     /\ current.content["conv"] = content["conv"]

(* A generation names the settings it was computed with. *)
GenerationNamesItsSettings == current # None => current.rules = current.label

(* Findings that no longer match their data are marked stale, at the       *)
(* latest when everything has settled.                                     *)
OutdatedIsMarked ==
  Quiet /\ content["conv"] > 0 /\ current # None /\ ~Reflects(current) => Stale

(* A recomputation that was not lost ends the staleness it was made for.   *)
SettledIsFresh == Quiet /\ HasData /\ ~lost => ~Stale
=============================================================================
