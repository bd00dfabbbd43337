------------------------ MODULE FindingsPipelineProofs ------------------------
(***************************************************************************)
(* Proofs about FindingsPipeline for every number of refreshes and         *)
(* administrators, every set of settings and every bound.                  *)
(***************************************************************************)
EXTENDS FindingsPipeline, TLAPS

LEMMA BlankType == Blank \in Generation
BY SettingAssumption DEF Blank, Generation

LEMMA RegisteredType ==
  ASSUME versions \in Seq(Setting), NEW s \in Setting
  PROVE  Registered(s) \in Seq(Setting)
BY DEF Registered

LEMMA TypeInit == Init => TypeOK
<1>1. [at |-> "idle", stamp |-> 0, affected |-> FALSE] \in RefreshState
  BY BoundAssumption DEF RefreshState
<1>2. [at |-> "idle", value |-> Default] \in UpdateState
  BY SettingAssumption DEF UpdateState
<1>3. 0 \in 0..MaxClock /\ 0 \in 0..MaxSaves
  BY BoundAssumption
<1>4. ASSUME Init PROVE TypeOK
  <2>1. /\ content \in [Kind -> Nat] /\ mark \in [Kind -> 0..MaxClock]
        /\ rp \in [Refresh -> RefreshState] /\ ap \in [Admin -> UpdateState]
    BY <1>1, <1>2, <1>3, <1>4 DEF Init
  <2>2. versions \in Seq(Setting)
    BY <1>4 DEF Init
  <2>. QED BY <1>3, <1>4, <2>1, <2>2, BlankType, SettingAssumption
           DEF Init, TypeOK
<1>. QED BY <1>4

LEMMA TypeRefresh ==
  ASSUME TypeOK, NEW r \in Refresh, RefreshStep(r) PROVE TypeOK'
<1> USE DEF TypeOK, data, admin, work
<1>0. rp[r] \in RefreshState /\ clock \in Nat
  BY BoundAssumption
<1>1. [at |-> "idle", stamp |-> 0, affected |-> FALSE] \in RefreshState
  BY BoundAssumption DEF RefreshState
<1>2. CASE StartRefresh(r) \/ SkipMerge(r)
  <2>1. /\ [rp[r] EXCEPT !.at = "click"] \in RefreshState
        /\ [rp[r] EXCEPT !.at = AfterMerge(r)] \in RefreshState
    BY <1>0 DEF RefreshState, AfterMerge
  <2>2. rp' \in [Refresh -> RefreshState]
    BY <1>2, <2>1 DEF StartRefresh, SkipMerge
  <2>. QED BY <1>2, <2>2 DEF StartRefresh, SkipMerge
<1>3. CASE OpenMerge(r)
  <2>1. clock + 1 \in 0..MaxClock
    BY <1>0, <1>3, BoundAssumption DEF OpenMerge
  <2>2. [rp[r] EXCEPT !.stamp = clock + 1] \in RefreshState
    BY <1>0, <2>1 DEF RefreshState
  <2>3. rp' \in [Refresh -> RefreshState]
    BY <1>3, <2>2 DEF OpenMerge
  <2>. QED BY <1>3, <2>1, <2>3 DEF OpenMerge
<1>4. CASE CommitMerge(r)
  <2>1. [at |-> AfterMerge(r), stamp |-> 0, affected |-> TRUE] \in RefreshState
    BY BoundAssumption DEF RefreshState, AfterMerge
  <2>2. rp' \in [Refresh -> RefreshState]
    BY <1>4, <2>1 DEF CommitMerge
  <2>3. rp[r].stamp \in 0..MaxClock
    BY <1>0 DEF RefreshState
  <2>4. content' \in [Kind -> Nat]
    <3>1. \A k \in Kind : content[k] + 1 \in Nat
      OBVIOUS
    <3>2. content' = [content EXCEPT ![rp[r].at] = content[rp[r].at] + 1]
      BY <1>4 DEF CommitMerge
    <3>. QED BY <3>1, <3>2
  <2>5. mark' \in [Kind -> 0..MaxClock]
    BY <1>4, <2>3 DEF CommitMerge
  <2>6. late' \in BOOLEAN
    BY <1>4 DEF CommitMerge
  <2>. QED BY <1>4, <2>2, <2>4, <2>5, <2>6 DEF CommitMerge
<1>5. CASE FinishRefresh(r) \/ CrashRefresh(r)
  <2>1. rp' \in [Refresh -> RefreshState]
    BY <1>1, <1>5 DEF FinishRefresh, CrashRefresh, Reset
  <2>2. jobs' \subseteq Task /\ task' \in jobs' \union {None}
    BY <1>5 DEF FinishRefresh, CrashRefresh, Trigger, Task
  <2>3. lost' \in BOOLEAN
    BY <1>5 DEF FinishRefresh, CrashRefresh, Trigger
  <2>. QED BY <1>5, <2>1, <2>2, <2>3 DEF FinishRefresh, CrashRefresh
<1>. QED BY <1>2, <1>3, <1>4, <1>5 DEF RefreshStep

LEMMA TypeAdmin ==
  ASSUME TypeOK, NEW a \in Admin, AdminStep(a) PROVE TypeOK'
<1> USE DEF TypeOK, data, admin, work
<1>0. /\ ap[a] \in UpdateState
      /\ [at |-> "idle", value |-> Default] \in UpdateState
  BY SettingAssumption DEF UpdateState
<1>1. ASSUME NEW s \in Setting, SaveRows(a, s) PROVE TypeOK'
  <2>1. [at |-> "saved", value |-> s] \in UpdateState
    BY DEF UpdateState
  <2>2. ap' \in [Admin -> UpdateState] /\ saves' \in 0..MaxSaves
    BY <1>1, <2>1, BoundAssumption DEF SaveRows
  <2>. QED BY <1>1, <2>2 DEF SaveRows
<1>2. CASE SaveVersion(a)
  <2>1. [ap[a] EXCEPT !.at = "versioned"] \in UpdateState
    BY <1>0 DEF UpdateState
  <2>2. ap' \in [Admin -> UpdateState]
    BY <1>2, <2>1 DEF SaveVersion
  <2>3. versions' \in Seq(Setting)
    BY <1>0, <1>2, RegisteredType DEF SaveVersion, UpdateState
  <2>. QED BY <1>2, <2>2, <2>3 DEF SaveVersion
<1>3. CASE SaveTriggers(a) \/ SaveFails(a)
  <2>1. ap' \in [Admin -> UpdateState]
    BY <1>0, <1>3 DEF SaveTriggers, SaveFails, Leave
  <2>2. jobs' \subseteq Task /\ task' \in jobs' \union {None}
    BY <1>3 DEF SaveTriggers, SaveFails, Trigger, Task
  <2>3. lost' \in BOOLEAN
    BY <1>3 DEF SaveTriggers, SaveFails, Trigger, HasData
  <2>. QED BY <1>3, <2>1, <2>2, <2>3 DEF SaveTriggers, SaveFails
<1>. QED BY <1>1, <1>2, <1>3 DEF AdminStep

LEMMA TypeTask == ASSUME TypeOK, TaskStep PROVE TypeOK'
<1> USE DEF TypeOK, data, admin, work
<1>1. CASE \E t \in Task : Acquire(t)
  BY <1>1 DEF Acquire
<1>2. CASE WriteRows
  BY <1>2, BoundAssumption DEF WriteRows
<1>3. CASE CommitRows
  <2>1. content' \in [Kind -> Nat]
    <3>1. \A k \in Kind : content[k] + 1 \in Nat
      OBVIOUS
    <3>2. content' = [content EXCEPT ![task] = content[task] + 1]
      BY <1>3 DEF CommitRows
    <3>. QED BY <3>1, <3>2
  <2>2. mark' \in [Kind -> 0..MaxClock] /\ stamp' \in 0..MaxClock
    <3>1. mark' = [mark EXCEPT ![task] = stamp] /\ stamp' = 0
      BY <1>3 DEF CommitRows
    <3>2. 0 \in 0..MaxClock
      BY BoundAssumption
    <3>3. mark' \in [Kind -> 0..MaxClock]
      BY <3>1
    <3>. QED BY <3>1, <3>2, <3>3
  <2>. QED BY <1>3, <2>1, <2>2 DEF CommitRows
<1>4. CASE GetSettings \/ BuildRuleSets \/ ReadWatermarks \/ ReadConversions
           \/ ReadClicks
  <2>1. /\ setting \in Setting
        /\ mark \in [Kind -> Nat] /\ content \in [Kind -> Nat]
        /\ content["conv"] \in Nat /\ content["click"] \in Nat
    BY BoundAssumption DEF Kind
  <2>2. CASE GetSettings
    <3>1. [read EXCEPT !.label = setting] \in Generation
      BY <2>1 DEF Generation
    <3>. QED BY <2>2, <3>1 DEF GetSettings, Goto
  <2>3. CASE BuildRuleSets
    <3>1. [read EXCEPT !.rules = setting] \in Generation
      BY <2>1 DEF Generation
    <3>. QED BY <2>3, <3>1 DEF BuildRuleSets, Goto
  <2>4. CASE ReadWatermarks
    <3>1. [read EXCEPT !.mark = mark] \in Generation
      BY <2>1 DEF Generation
    <3>. QED BY <2>4, <3>1 DEF ReadWatermarks, Goto
  <2>5. ASSUME NEW k \in Kind, read' = [read EXCEPT !.content[k] = content[k]]
        PROVE  read' \in Generation
    <3>1. [read.content EXCEPT ![k] = content[k]] \in [Kind -> Nat]
      BY <2>1 DEF Generation
    <3>. QED BY <2>5, <3>1 DEF Generation
  <2>6. CASE ReadConversions
    BY <2>5, <2>6 DEF ReadConversions, Goto, Kind
  <2>7. CASE ReadClicks
    BY <2>5, <2>7 DEF ReadClicks, Goto, Kind
  <2>. QED BY <1>4, <2>2, <2>3, <2>4, <2>6, <2>7
<1>5. CASE EnsureVersion
  <2>1. versions' \in Seq(Setting)
    BY <1>5, RegisteredType DEF EnsureVersion, Generation
  <2>. QED BY <1>5, <2>1 DEF EnsureVersion
<1>6. CASE Replace
  BY <1>6 DEF Replace
<1>7. CASE Finish \/ Restart \/ GiveUp
  <2>1. 0 \in 0..MaxClock
    BY BoundAssumption
  <2>2. read' = Blank /\ stamp' = 0 /\ task' = None /\ pc' = "idle"
    BY <1>7 DEF Finish, Restart, GiveUp, Release
  <2>3. jobs' \subseteq Task /\ lost' \in BOOLEAN
    BY <1>7 DEF Finish, Restart, GiveUp
  <2>. QED BY <1>7, <2>1, <2>2, <2>3, BlankType DEF Finish, Restart, GiveUp
<1>. QED BY <1>1, <1>2, <1>3, <1>4, <1>5, <1>6, <1>7 DEF TaskStep

LEMMA TypeStep == TypeOK /\ [Next]_vars => TypeOK'
<1>1. ASSUME TypeOK, NEW k \in Kind, RequestIngestion(k) PROVE TypeOK'
  BY <1>1 DEF TypeOK, RequestIngestion, Task, data, admin, work
<1>2. ASSUME TypeOK, SyncMasters PROVE TypeOK'
  BY <1>2 DEF TypeOK, SyncMasters, Trigger, Task, data, admin, work
<1>3. ASSUME TypeOK, UNCHANGED vars PROVE TypeOK'
  BY <1>3 DEF TypeOK, vars, data, admin, work
<1>. QED BY <1>1, <1>2, <1>3, TypeRefresh, TypeAdmin, TypeTask DEF Next

(* Every table, watermark and process variable keeps its type: the task    *)
(* that holds the lock of the date is one of its jobs, and what a          *)
(* recomputation has read so far is always a well-formed generation.       *)
THEOREM TypeCorrect == Spec => []TypeOK
BY TypeInit, TypeStep, PTL DEF Spec

-----------------------------------------------------------------------------
(* The recomputation that is still to come. *)

(* Somebody besides the task that holds the lock will bring the findings   *)
(* up to date: a queued job, or a trigger that is still to be sent.        *)
Others ==
  \/ \E j \in jobs : j # task
  \/ \E r \in Refresh : rp[r].affected
  \/ \E a \in Admin : ap[a].at # "idle"

(* What the task has read so far is what the database holds now. *)
OnTrack ==
  /\ pc \in {"version", "marks", "conversions", "clicks", "replace"}
       => read.rules = setting
  /\ pc \in {"clicks", "replace"} => read.content["conv"] = content["conv"]
  /\ pc = "replace" => read.content["click"] = content["click"]
  /\ pc \in {"idle", "done"} => current # None /\ Reflects(current)

(* Who is under way: a refresh that has merged rows has not finished, and  *)
(* the task that holds the lock is at work.                                *)
UnderwayInv ==
  /\ \A r \in Refresh : rp[r].affected => rp[r].at # "idle"
  /\ task = None <=> pc = "idle"

CoverInv == HasData /\ ~lost => Others \/ OnTrack

LEMMA UnderwayInit == Init => UnderwayInv
BY DEF Init, UnderwayInv

LEMMA CoverInit == Init => CoverInv
BY DEF Init, CoverInv, HasData

LEMMA UnderwayRefresh ==
  ASSUME TypeOK, UnderwayInv, NEW r \in Refresh, RefreshStep(r)
  PROVE  UnderwayInv'
<1> USE DEF TypeOK, RefreshState, UnderwayInv, work
<1>1. UNCHANGED <<task, pc>>
  BY DEF RefreshStep, StartRefresh, OpenMerge, CommitMerge, SkipMerge,
         FinishRefresh, CrashRefresh
<1>2. CASE StartRefresh(r) \/ OpenMerge(r) \/ SkipMerge(r)
  <2>1. rp' = [rp EXCEPT ![r] = rp'[r]]
    BY <1>2 DEF StartRefresh, OpenMerge, SkipMerge
  <2>2. rp'[r].at # "idle"
    BY <1>2 DEF StartRefresh, OpenMerge, SkipMerge, AfterMerge, Kind
  <2>. QED BY <1>1, <2>1, <2>2
<1>3. CASE CommitMerge(r)
  BY <1>1, <1>3 DEF CommitMerge, AfterMerge
<1>4. CASE FinishRefresh(r) \/ CrashRefresh(r)
  <2>1. Reset(r)
    BY <1>4 DEF FinishRefresh, CrashRefresh
  <2>2. /\ \A q \in Refresh \ {r} : rp'[q] = rp[q]
        /\ ~rp'[r].affected
    BY <2>1 DEF Reset
  <2>. QED BY <1>1, <2>2
<1>. QED BY <1>2, <1>3, <1>4 DEF RefreshStep

LEMMA UnderwayStep == TypeOK /\ UnderwayInv /\ [Next]_vars => UnderwayInv'
<1>1. ASSUME UnderwayInv, UNCHANGED <<rp, task, pc>> PROVE UnderwayInv'
  BY <1>1 DEF UnderwayInv
<1>2. ASSUME UnderwayInv, NEW a \in Admin, AdminStep(a) PROVE UnderwayInv'
  BY <1>1, <1>2
     DEF AdminStep, SaveRows, SaveVersion, SaveTriggers, SaveFails, work
<1>3. ASSUME UnderwayInv, (\E k \in Kind : RequestIngestion(k)) \/ SyncMasters
      PROVE  UnderwayInv'
  BY <1>1, <1>3 DEF RequestIngestion, SyncMasters, work
<1>4. ASSUME UnderwayInv, TaskStep PROVE UnderwayInv'
  <2>1. rp' = rp
    BY <1>4 DEF TaskStep, Acquire, WriteRows, CommitRows, GetSettings,
                BuildRuleSets, EnsureVersion, ReadWatermarks, ReadConversions,
                ReadClicks, Replace, Finish, Restart, GiveUp, Goto
  <2>2. task' = None <=> pc' = "idle"
    BY <1>4, NoneAssumption
       DEF UnderwayInv, TaskStep, Acquire, WriteRows, CommitRows, GetSettings,
           BuildRuleSets, EnsureVersion, ReadWatermarks, ReadConversions,
           ReadClicks, Replace, Finish, Restart, GiveUp, Goto, Release
  <2>. QED BY <1>4, <2>1, <2>2 DEF UnderwayInv
<1>5. ASSUME UnderwayInv, UNCHANGED vars PROVE UnderwayInv'
  BY <1>1, <1>5 DEF vars, work
<1>. QED BY <1>2, <1>3, <1>4, <1>5, UnderwayRefresh DEF Next

LEMMA TriggerCovers ==
  ASSUME TypeOK, Trigger, task' = task PROVE ~lost' => Others'
BY NoneAssumption DEF Trigger, Others, TypeOK, Task

LEMMA CoverRefresh ==
  ASSUME TypeOK, CoverInv, NEW r \in Refresh, RefreshStep(r) PROVE CoverInv'
<1> USE DEF TypeOK, RefreshState, data, admin, work
<1>1. ASSUME UNCHANGED <<content, setting, current, jobs, task, pc, read, ap>>,
             ~lost' => ~lost,
             ~lost' => \A q \in Refresh : rp[q].affected => rp'[q].affected
      PROVE  CoverInv'
  <2>1. HasData' = HasData /\ OnTrack' = OnTrack
    BY <1>1 DEF HasData, OnTrack, Reflects
  <2>2. ~lost' /\ Others => Others'
    BY <1>1 DEF Others
  <2>. QED BY <1>1, <2>1, <2>2 DEF CoverInv
<1>2. CASE StartRefresh(r) \/ OpenMerge(r) \/ SkipMerge(r)
  <2>1. \A q \in Refresh : rp[q].affected => rp'[q].affected
    BY <1>2 DEF StartRefresh, OpenMerge, SkipMerge
  <2>. QED BY <1>1, <1>2, <2>1 DEF StartRefresh, OpenMerge, SkipMerge
<1>3. CASE CommitMerge(r)
  <2>1. rp'[r].affected
    BY <1>3 DEF CommitMerge
  <2>. QED BY <2>1 DEF CoverInv, Others
<1>4. CASE FinishRefresh(r)
  <2>1. CASE rp[r].affected
    BY <1>4, <2>1, TriggerCovers DEF FinishRefresh, CoverInv
  <2>2. CASE ~rp[r].affected
    <3>1. \A q \in Refresh : rp[q].affected => rp'[q].affected
      BY <1>4, <2>2 DEF FinishRefresh, Reset
    <3>. QED BY <1>1, <1>4, <2>2, <3>1 DEF FinishRefresh
  <2>. QED BY <2>1, <2>2
<1>5. CASE CrashRefresh(r)
  <2>1. lost' = (lost \/ rp[r].affected)
    BY <1>5 DEF CrashRefresh
  <2>2. ~lost' => \A q \in Refresh : rp[q].affected => rp'[q].affected
    BY <1>5, <2>1 DEF CrashRefresh, Reset
  <2>. QED BY <1>1, <1>5, <2>1, <2>2 DEF CrashRefresh
<1>. QED BY <1>2, <1>3, <1>4, <1>5 DEF RefreshStep

LEMMA CoverAdmin ==
  ASSUME TypeOK, CoverInv, NEW a \in Admin, AdminStep(a) PROVE CoverInv'
<1> USE DEF TypeOK, UpdateState, data, admin, work
<1>1. CASE (\E s \in Setting : SaveRows(a, s)) \/ SaveVersion(a)
  <2>1. ap'[a].at # "idle"
    BY <1>1 DEF SaveRows, SaveVersion
  <2>. QED BY <2>1 DEF CoverInv, Others
<1>2. CASE SaveTriggers(a)
  <2>1. CASE HasData
    BY <1>2, <2>1, TriggerCovers DEF SaveTriggers, CoverInv
  <2>2. CASE ~HasData
    BY <1>2, <2>2 DEF SaveTriggers, CoverInv, HasData
  <2>. QED BY <2>1, <2>2
<1>3. CASE SaveFails(a)
  BY <1>3 DEF SaveFails, CoverInv, HasData
<1>. QED BY <1>1, <1>2, <1>3 DEF AdminStep

LEMMA CoverTask ==
  ASSUME TypeOK, UnderwayInv, CoverInv, TaskStep PROVE CoverInv'
<1> USE DEF TypeOK, data, admin, work
<1>1. ASSUME UNCHANGED <<jobs, task, rp, ap, lost>>, OnTrack => OnTrack',
             HasData' => HasData
      PROVE  CoverInv'
  BY <1>1 DEF CoverInv, Others
<1>2. CASE \E t \in Task : Acquire(t)
  BY <1>2, NoneAssumption DEF Acquire, CoverInv, OnTrack
<1>3. CASE WriteRows
  BY <1>1, <1>3 DEF WriteRows, CoverInv, OnTrack, HasData
<1>4. CASE CommitRows
  BY <1>4 DEF CommitRows, CoverInv, OnTrack
<1>5. CASE GetSettings \/ BuildRuleSets
  BY <1>1, <1>5
     DEF GetSettings, BuildRuleSets, Goto, CoverInv, OnTrack, HasData, Generation
<1>6. CASE EnsureVersion
  BY <1>1, <1>6 DEF EnsureVersion, CoverInv, OnTrack, HasData
<1>7. CASE ReadWatermarks
  BY <1>1, <1>7 DEF ReadWatermarks, Goto, CoverInv, OnTrack, HasData, Generation
<1>8. CASE ReadConversions
  BY <1>1, <1>8
     DEF ReadConversions, Goto, CoverInv, OnTrack, HasData, Generation, Kind
<1>9. CASE ReadClicks
  BY <1>1, <1>9
     DEF ReadClicks, Goto, CoverInv, OnTrack, HasData, Generation, Kind
<1>10. CASE Replace
  <2>1. OnTrack => current' # None /\ Reflects(current)'
    <3>1. ASSUME OnTrack PROVE read.content = content
      BY <1>10, <3>1 DEF Replace, OnTrack, Generation, Kind
    <3>. QED BY <1>10, <3>1, NoneAssumption
             DEF Replace, OnTrack, Reflects
  <2>. QED BY <1>1, <1>10, <2>1 DEF Replace, CoverInv, OnTrack, HasData
<1>11. CASE Finish
  BY <1>11, NoneAssumption
     DEF Finish, Release, UnderwayInv, CoverInv, OnTrack, Others, HasData, Reflects
<1>12. CASE Restart
  <2>1. task \in jobs' /\ task' = None /\ pc' = "idle"
    BY <1>12 DEF Restart, Release
  <2>. QED BY <1>12, <2>1 DEF Restart, CoverInv, Others
<1>13. CASE GiveUp
  BY <1>13 DEF GiveUp, Release, CoverInv
<1>. QED BY <1>2, <1>3, <1>4, <1>5, <1>6, <1>7, <1>8, <1>9, <1>10, <1>11,
            <1>12, <1>13 DEF TaskStep

LEMMA CoverStep ==
  TypeOK /\ UnderwayInv /\ CoverInv /\ [Next]_vars => CoverInv'
<1>1. ASSUME TypeOK, CoverInv, NEW k \in Kind, RequestIngestion(k)
      PROVE  CoverInv'
  <2>1. k \in jobs' /\ k # task'
    BY <1>1, NoneAssumption DEF RequestIngestion, TypeOK, Task, work
  <2>. QED BY <1>1, <2>1 DEF CoverInv, Others
<1>2. ASSUME TypeOK, CoverInv, SyncMasters PROVE CoverInv'
  BY <1>2, TriggerCovers DEF SyncMasters, CoverInv, work
<1>3. ASSUME CoverInv, UNCHANGED vars PROVE CoverInv'
  BY <1>3
     DEF CoverInv, Others, OnTrack, HasData, Reflects, vars, data, admin, work
<1>. QED BY <1>1, <1>2, <1>3, CoverRefresh, CoverAdmin, CoverTask DEF Next

(* Whatever refreshes, ingestions, settings updates, master syncs, crashes *)
(* and failures of the date interleave: once everything has settled, the   *)
(* findings are those of the data and the settings, unless a trigger was   *)
(* lost.                                                                   *)
THEOREM FindingsSettle == Spec => []SettledIsCurrent
<1>1. TypeOK /\ UnderwayInv /\ CoverInv => SettledIsCurrent
  <2>1. SUFFICES ASSUME TypeOK, UnderwayInv, CoverInv, Quiet, HasData, ~lost
                 PROVE  current # None /\ Reflects(current)
    BY DEF SettledIsCurrent
  <2>2. task = None
    BY <2>1 DEF TypeOK, Quiet
  <2>3. ~Others
    BY <2>1 DEF Others, Quiet, UnderwayInv
  <2>. QED BY <2>1, <2>2, <2>3 DEF CoverInv, OnTrack, UnderwayInv
<1>. QED BY <1>1, TypeCorrect, UnderwayInit, UnderwayStep, CoverInit, CoverStep, PTL DEF Spec

-----------------------------------------------------------------------------
(* The watermarks and the labels of a generation. *)

(* Settings that are no longer in effect do not come back, so rules read   *)
(* after the label are those of the label while it is still in effect.     *)
RuleInv ==
  /\ Default \in past /\ read.label \in past
  /\ current # None => current.label \in past
  /\ pc \in {"version", "marks", "conversions", "clicks", "replace"}
       /\ read.label = setting => read.rules = setting
  /\ current # None /\ current.label = setting => current.rules = setting

LEMMA RuleInit == Init => RuleInv
BY DEF Init, RuleInv, Blank

LEMMA RuleStep ==
  ASSUME "revert" \notin Hazards, TypeOK, RuleInv, [Next]_vars
  PROVE  RuleInv'
<1> USE DEF data, admin, work
<1>1. ASSUME UNCHANGED <<setting, past, current, pc, read>> PROVE RuleInv'
  BY <1>1 DEF RuleInv
<1>2. ASSUME NEW r \in Refresh, RefreshStep(r) PROVE RuleInv'
  BY <1>1, <1>2 DEF RefreshStep, StartRefresh, OpenMerge, CommitMerge, SkipMerge,
                    FinishRefresh, CrashRefresh
<1>3. ASSUME NEW a \in Admin, AdminStep(a) PROVE RuleInv'
  <2>1. ASSUME NEW s \in Setting, SaveRows(a, s) PROVE RuleInv'
    <3>1. s \notin past
      BY <2>1 DEF SaveRows
    <3>2. setting' = s /\ past' = past \union {s} /\ UNCHANGED <<current, pc, read>>
      BY <2>1 DEF SaveRows
    <3>. QED BY <3>1, <3>2 DEF RuleInv
  <2>2. CASE SaveVersion(a) \/ SaveTriggers(a) \/ SaveFails(a)
    BY <1>1, <2>2 DEF SaveVersion, SaveTriggers, SaveFails
  <2>. QED BY <1>3, <2>1, <2>2 DEF AdminStep
<1>4. CASE TaskStep
  <2>1. UNCHANGED <<setting, past>>
    BY <1>4 DEF TaskStep, Acquire, WriteRows, CommitRows, GetSettings,
                BuildRuleSets, EnsureVersion, ReadWatermarks, ReadConversions,
                ReadClicks, Replace, Finish, Restart, GiveUp, Goto
  <2>2. CASE (\E t \in Task : Acquire(t)) \/ WriteRows \/ CommitRows
             \/ EnsureVersion
    BY <2>1, <2>2 DEF RuleInv, Acquire, WriteRows, CommitRows, EnsureVersion
  <2>3. CASE GetSettings \/ BuildRuleSets
    BY <2>1, <2>3 DEF RuleInv, TypeOK, Generation, GetSettings, BuildRuleSets, Goto
  <2>4. CASE ReadWatermarks \/ ReadConversions \/ ReadClicks
    <3>1. read'.label = read.label /\ read'.rules = read.rules
      BY <2>4 DEF TypeOK, Generation, ReadWatermarks, ReadConversions, ReadClicks
    <3>. QED BY <2>1, <2>4, <3>1
             DEF RuleInv, ReadWatermarks, ReadConversions, ReadClicks, Goto
  <2>5. CASE Replace
    BY <2>1, <2>5 DEF RuleInv, Replace
  <2>6. CASE Finish \/ Restart \/ GiveUp
    BY <2>1, <2>6 DEF RuleInv, Finish, Restart, GiveUp, Release, Blank
  <2>. QED BY <1>4, <2>2, <2>3, <2>4, <2>5, <2>6 DEF TaskStep
<1>5. CASE (\E k \in Kind : RequestIngestion(k)) \/ SyncMasters \/ UNCHANGED vars
  BY <1>1, <1>5 DEF RequestIngestion, SyncMasters, vars
<1>. QED BY <1>2, <1>3, <1>4, <1>5 DEF Next

(* A write that has not committed carries a time no watermark has shown.   *)
Unseen(s) ==
  /\ s # mark["conv"] /\ s # read.mark["conv"]
  /\ current # None => s # current.mark["conv"]

StampInv ==
  /\ mark["conv"] <= clock /\ read.mark["conv"] <= clock
  /\ current # None => current.mark["conv"] <= clock
  /\ stamp <= clock /\ \A r \in Refresh : rp[r].stamp <= clock
  /\ pc = "commit" => stamp > 0
  /\ stamp > 0 => Unseen(stamp)
  /\ \A r \in Refresh : rp[r].stamp > 0 =>
       /\ Unseen(rp[r].stamp)
       /\ rp[r].stamp # stamp
       /\ \A q \in Refresh \ {r} : rp[q].stamp # rp[r].stamp

(* One watermark, one content: as long as nothing committed behind it.     *)
MarkInv ==
  /\ pc \in {"clicks", "replace"} /\ ~late /\ read.mark["conv"] = mark["conv"]
       => read.content["conv"] = content["conv"]
  /\ current # None /\ ~late /\ current.mark["conv"] = mark["conv"]
       => current.content["conv"] = content["conv"]

LEMMA StampInit == Init => StampInv /\ MarkInv
BY DEF Init, StampInv, Unseen, MarkInv, Blank, Kind

LEMMA Numbers ==
  ASSUME TypeOK
  PROVE  /\ clock \in Nat /\ stamp \in Nat /\ mark["conv"] \in Nat
         /\ read.mark["conv"] \in Nat
         /\ current # None => current.mark["conv"] \in Nat
         /\ \A r \in Refresh : rp[r].stamp \in Nat
BY BoundAssumption DEF TypeOK, Generation, Kind, RefreshState

LEMMA StampRefresh ==
  ASSUME TypeOK, StampInv, MarkInv, NEW r \in Refresh, RefreshStep(r)
  PROVE  StampInv' /\ MarkInv'
<1> USE Numbers DEF admin, work
<1>0. UNCHANGED <<current, read, pc, stamp>>
  BY DEF RefreshStep, StartRefresh, OpenMerge, CommitMerge, SkipMerge,
         FinishRefresh, CrashRefresh
<1>1. ASSUME UNCHANGED <<content, mark, clock, late>>,
             \A q \in Refresh : rp'[q].stamp \in {0, rp[q].stamp}
      PROVE  StampInv' /\ MarkInv'
  BY <1>0, <1>1 DEF StampInv, Unseen, MarkInv
<1>2. CASE StartRefresh(r) \/ SkipMerge(r)
  <2>1. \A q \in Refresh \ {r} : rp'[q] = rp[q]
    BY <1>2 DEF StartRefresh, SkipMerge, TypeOK
  <2>2. rp'[r].stamp = rp[r].stamp
    BY <1>2 DEF StartRefresh, SkipMerge, TypeOK, RefreshState
  <2>. QED BY <1>1, <1>2, <2>1, <2>2 DEF StartRefresh, SkipMerge, data
<1>3. CASE FinishRefresh(r) \/ CrashRefresh(r)
  <2>1. Reset(r)
    BY <1>3 DEF FinishRefresh, CrashRefresh
  <2>2. \A q \in Refresh \ {r} : rp'[q] = rp[q]
    BY <2>1 DEF Reset, TypeOK
  <2>3. rp'[r].stamp = 0
    BY <2>1 DEF Reset, TypeOK
  <2>. QED BY <1>1, <1>3, <2>2, <2>3 DEF FinishRefresh, CrashRefresh, data
<1>4. CASE OpenMerge(r)
  <2>1. /\ rp'[r].stamp = clock + 1
        /\ \A q \in Refresh \ {r} : rp'[q].stamp = rp[q].stamp
        /\ clock' = clock + 1 /\ UNCHANGED <<content, mark, late>>
    BY <1>4 DEF OpenMerge, TypeOK, RefreshState
  <2>. QED BY <1>0, <2>1 DEF StampInv, Unseen, MarkInv
<1>5. CASE CommitMerge(r)
  <2>1. /\ rp'[r].stamp = 0 /\ rp[r].stamp > 0
        /\ \A q \in Refresh \ {r} : rp'[q].stamp = rp[q].stamp
        /\ clock' = clock
    BY <1>5 DEF CommitMerge, TypeOK
  <2>2. CASE rp[r].at = "conv"
    <3>1. /\ mark'["conv"] = IF rp[r].stamp > mark["conv"] THEN rp[r].stamp
                                                           ELSE mark["conv"]
          /\ late' = (late \/ rp[r].stamp < mark["conv"])
      BY <1>5, <2>2 DEF CommitMerge, TypeOK, Kind
    <3>2. StampInv'
      <4>1. mark'["conv"] \in {mark["conv"], rp[r].stamp}
        BY <3>1
      <4>2. stamp > 0 => stamp # rp[r].stamp
        BY <2>1 DEF StampInv
      <4>3. stamp > 0 => Unseen(stamp)'
        BY <1>0, <4>1, <4>2 DEF StampInv, Unseen
      <4>4. ASSUME NEW q \in Refresh, rp'[q].stamp > 0
            PROVE  /\ Unseen(rp[q].stamp)' /\ rp'[q].stamp # stamp
                   /\ \A o \in Refresh \ {q} : rp'[o].stamp # rp'[q].stamp
        BY <1>0, <2>1, <4>1, <4>4 DEF StampInv, Unseen
      <4>. QED BY <1>0, <2>1, <4>1, <4>3, <4>4 DEF StampInv
    <3>3. ~late' => mark'["conv"] = rp[r].stamp /\ Unseen(rp[r].stamp)
      <4>1. Unseen(rp[r].stamp) /\ rp[r].stamp # mark["conv"]
        BY <2>1 DEF StampInv, Unseen
      <4>2. rp[r].stamp < mark["conv"] => late'
        BY <3>1, Zenon
      <4>3. ~late' => rp[r].stamp > mark["conv"]
        BY <4>1, <4>2
      <4>. QED BY <3>1, <4>1, <4>3
    <3>. QED BY <1>0, <3>2, <3>3 DEF MarkInv, Unseen
  <2>3. CASE rp[r].at # "conv"
    <3>1. /\ mark'["conv"] = mark["conv"] /\ content'["conv"] = content["conv"]
          /\ late' = late
      BY <1>5, <2>3 DEF CommitMerge, TypeOK, Kind
    <3>. QED BY <1>0, <2>1, <3>1 DEF StampInv, Unseen, MarkInv
  <2>. QED BY <2>2, <2>3
<1>. QED BY <1>2, <1>3, <1>4, <1>5 DEF RefreshStep

LEMMA StampTask ==
  ASSUME TypeOK, StampInv, MarkInv, TaskStep PROVE StampInv' /\ MarkInv'
<1> USE Numbers DEF admin, work, data
<1>0. rp' = rp
  BY DEF TaskStep, Acquire, WriteRows, CommitRows, GetSettings, BuildRuleSets,
         EnsureVersion, ReadWatermarks, ReadConversions, ReadClicks, Replace,
         Finish, Restart, GiveUp, Goto
<1>1. ASSUME UNCHANGED <<content, mark, clock, late, current, stamp>>,
             read'.mark["conv"] \in {read.mark["conv"], mark["conv"]},
             pc' # "commit",
             pc' \in {"clicks", "replace"} =>
               \/ read'.content["conv"] = content["conv"]
               \/ /\ pc \in {"clicks", "replace"}
                  /\ read'.content["conv"] = read.content["conv"]
                  /\ read'.mark = read.mark
      PROVE  StampInv' /\ MarkInv'
  BY <1>0, <1>1 DEF StampInv, Unseen, MarkInv
<1>2. CASE (\E t \in Task : Acquire(t)) \/ EnsureVersion
  BY <1>1, <1>2 DEF Acquire, EnsureVersion
<1>3. CASE WriteRows
  BY <1>0, <1>3 DEF WriteRows, StampInv, Unseen, MarkInv
<1>4. CASE CommitRows
  <2>1. /\ stamp > 0 /\ stamp' = 0 /\ pc' = "settings"
        /\ UNCHANGED <<clock, late, current, read>>
    BY <1>4 DEF CommitRows, StampInv
  <2>2. CASE task = "conv"
    <3>1. mark'["conv"] = stamp
      BY <1>4, <2>2 DEF CommitRows, TypeOK, Kind
    <3>. QED BY <1>0, <2>1, <3>1 DEF StampInv, Unseen, MarkInv
  <2>3. CASE task # "conv"
    <3>1. mark'["conv"] = mark["conv"] /\ content'["conv"] = content["conv"]
      BY <1>4, <2>3 DEF CommitRows, TypeOK, Kind
    <3>. QED BY <1>0, <2>1, <3>1 DEF StampInv, Unseen, MarkInv
  <2>. QED BY <2>2, <2>3
<1>5. CASE GetSettings \/ BuildRuleSets
  <2>1. read'.mark = read.mark
    BY <1>5 DEF GetSettings, BuildRuleSets, TypeOK, Generation
  <2>. QED BY <1>1, <1>5, <2>1 DEF GetSettings, BuildRuleSets, Goto
<1>6. CASE ReadWatermarks
  <2>1. read'.mark = mark
    BY <1>6 DEF ReadWatermarks, TypeOK, Generation
  <2>. QED BY <1>1, <1>6, <2>1 DEF ReadWatermarks, Goto
<1>7. CASE ReadConversions
  <2>1. read'.mark = read.mark /\ read'.content["conv"] = content["conv"]
    BY <1>7 DEF ReadConversions, TypeOK, Generation, Kind
  <2>. QED BY <1>1, <1>7, <2>1 DEF ReadConversions, Goto
<1>8. CASE ReadClicks
  <2>1. read'.mark = read.mark /\ read'.content["conv"] = read.content["conv"]
    BY <1>8 DEF ReadClicks, TypeOK, Generation, Kind
  <2>. QED BY <1>1, <1>8, <2>1 DEF ReadClicks, Goto
<1>9. CASE Replace
  BY <1>0, <1>9 DEF Replace, StampInv, Unseen, MarkInv
<1>10. CASE Finish \/ Restart \/ GiveUp
  <2>1. /\ stamp' = 0 /\ pc' = "idle" /\ read'.mark["conv"] = 0
        /\ UNCHANGED <<content, mark, clock, late, current>>
    BY <1>10 DEF Finish, Restart, GiveUp, Release, Blank, Kind
  <2>. QED BY <1>0, <2>1 DEF StampInv, Unseen, MarkInv
<1>. QED BY <1>2, <1>3, <1>4, <1>5, <1>6, <1>7, <1>8, <1>9, <1>10 DEF TaskStep

LEMMA StampStep ==
  TypeOK /\ StampInv /\ MarkInv /\ [Next]_vars => StampInv' /\ MarkInv'
<1>1. ASSUME StampInv, MarkInv,
             UNCHANGED <<content, mark, clock, late, current, stamp, read, pc, rp>>
      PROVE  StampInv' /\ MarkInv'
  BY <1>1 DEF StampInv, Unseen, MarkInv
<1>2. ASSUME StampInv, MarkInv, NEW a \in Admin, AdminStep(a)
      PROVE  StampInv' /\ MarkInv'
  BY <1>1, <1>2
     DEF AdminStep, SaveRows, SaveVersion, SaveTriggers, SaveFails, data, work
<1>3. ASSUME StampInv, MarkInv,
             (\E k \in Kind : RequestIngestion(k)) \/ SyncMasters
      PROVE  StampInv' /\ MarkInv'
  BY <1>1, <1>3 DEF RequestIngestion, SyncMasters, data, work
<1>4. ASSUME StampInv, MarkInv, UNCHANGED vars PROVE StampInv' /\ MarkInv'
  BY <1>1, <1>4 DEF vars, data, work
<1>. QED BY <1>2, <1>3, <1>4, StampRefresh, StampTask DEF Next

(* As long as no earlier settings are saved again, findings that the       *)
(* summary does not mark stale are those of the conversions and the        *)
(* settings of the moment, whatever was lost on the way.                   *)
THEOREM FreshIsCurrent ==
  ASSUME "revert" \notin Hazards PROVE Spec => []FreshMeansCurrent
<1>1. TypeOK /\ RuleInv /\ [Next]_vars => RuleInv'
  BY RuleStep, "revert" \notin Hazards
<1>2. RuleInv /\ MarkInv => FreshMeansCurrent
  BY DEF RuleInv, MarkInv, FreshMeansCurrent, Stale
<1>. QED BY <1>1, <1>2, TypeCorrect, RuleInit, StampInit, StampStep, PTL DEF Spec
=============================================================================
