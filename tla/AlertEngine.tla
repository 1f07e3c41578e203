---------------------------- MODULE AlertEngine -----------------------------
(***************************************************************************)
(* The alert engine (internal/alerts), the alert and threshold tables it   *)
(* writes (internal/storage), the collector pass that drives it            *)
(* (runCollector in cmd/server), and the three other goroutines that touch *)
(* the same state: PUT /api/thresholds, POST /api/alerts/{id}/acknowledge  *)
(* and the purge job.  The process may crash anywhere and is restarted     *)
(* with the database it left behind; the engine's maps are rebuilt by      *)
(* LoadThresholds.                                                         *)
(*                                                                         *)
(* The collector knows of a URL only the LastResult of its summary, which  *)
(* goroutines and requests of the checker write: UrlChecker has when they  *)
(* do, here a result may come at any time or never again, be false, and    *)
(* the summary may go and come back.                                       *)
(*                                                                         *)
(* Percentages, thresholds and the 0/1 value of a URL are small levels.    *)
(* Messages and time stamps are left out, so Purge may take any set of     *)
(* resolved rows: which of them are 14 days old is the clock's business.   *)
(***************************************************************************)
EXTENDS Naturals, Sequences, FiniteSets

CONSTANTS
  SysKinds,        \* cpu_pct, ram_pct, swap_pct: measured in every pass
  DiskKinds,       \* one per mount point, all under the threshold disk_pct
  URLKinds,        \* one per URL check id, under the fixed threshold 1
  MaxLevel,        \* levels are 0..MaxLevel; a threshold of 0 disables a check
  DefaultLevel,    \* the threshold the schema seeds
  Putters,         \* handler goroutines serving PUT /api/thresholds
  Faults,          \* the database calls that may fail: "insert", "resolve", "load";
                   \* "probe": a result may differ from what the URL answers
  MaxFaults,       \* bound: failing database calls and false results
  MaxChanges,      \* bound: changes of metrics, disks, URL summaries and thresholds
  MaxCrashes       \* bound: crashes of the process

Kinds == SysKinds \cup DiskKinds \cup URLKinds
Sources == DiskKinds \cup URLKinds
Levels == 0..MaxLevel
DiskKey == "disk_pct"
Keys == SysKinds \cup {DiskKey}

ASSUME ConstantsAssumption ==
  /\ "none" \notin Keys
  /\ SysKinds \cap Sources = {} /\ DiskKinds \cap URLKinds = {}
  /\ MaxLevel \in Nat \ {0}
  /\ DefaultLevel \in 1..MaxLevel
  /\ Faults \subseteq {"insert", "resolve", "load", "probe"}
  /\ MaxFaults \in Nat /\ MaxChanges \in Nat /\ MaxCrashes \in Nat

VARIABLES
  alerts,          \* table alerts: id -> [kind, resolved, ack]
  nextId,          \* the table's AUTOINCREMENT counter
  dbThr,           \* table thresholds
  thr,             \* Engine.thresholds; a missing key reads as 0
  active,          \* Engine.activeAlerts: kind -> alert id, 0 when absent
  proc,            \* "up" or "down"
  pc,              \* runCollector: "idle", "collected", "eval" (holding Engine.mu) or "publish"
  todo,            \* the measurements of this tick Evaluate has not looked at yet
  fired,           \* the ids Evaluate has fired in this pass, oldest first
  announced,       \* history: ids broadcast as "alert" since boot
  bootId,          \* history: value of nextId at boot
  put,             \* per putter: the update written to the table but not to memory
  doubtful,        \* history: keys whose last PUT overlapped another of the same key, or
                   \* whose load at boot failed
  level,           \* environment: what a read of each metric returns (0 when the read of a
                   \* system metric fails); a URL itself is 0 (up) or 1 (down)
  present,         \* mounted disks, and URL checks that have a summary
  lastDown,        \* the URL checks whose LastResult is there and is not Up
  outages,         \* history: how often each URL went down
  falls,           \* history: how often a DOWN result replaced another one or none
  changes, faults, crashes  \* budgets spent

db == <<alerts, nextId>>
env == <<level, present, lastDown, outages, falls>>
puts == <<put, doubtful>>
budgets == <<changes, faults, crashes>>
collector == <<pc, todo, fired, announced>>
vars == <<alerts, nextId, dbThr, thr, active, proc, pc, todo, fired,
          announced, bootId, put, doubtful, level, present, lastDown, outages, falls,
          changes, faults, crashes>>

Row == [kind : Kinds, resolved : BOOLEAN, ack : BOOLEAN]
Check == [kind : Kinds, value : Levels]
NoPut == [key |-> "none", value |-> 0]
Put == [key : Keys, value : Levels] \cup {NoPut}

Unresolved(k) == {i \in DOMAIN alerts : alerts[i].kind = k /\ ~alerts[i].resolved}

-----------------------------------------------------------------------------
(* The database (storage/sqlite.go). *)

(* Mutant: the AUTOINCREMENT counter does not move. *)
InsertAlertReusesId(k) ==
  /\ alerts' = [i \in DOMAIN alerts \cup {nextId} |->
                  IF i = nextId
                  THEN [kind |-> k, resolved |-> FALSE, ack |-> FALSE]
                  ELSE alerts[i]]
  /\ UNCHANGED nextId

InsertAlert(k) ==
  /\ alerts' = [i \in DOMAIN alerts \cup {nextId} |->
                  IF i = nextId
                  THEN [kind |-> k, resolved |-> FALSE, ack |-> FALSE]
                  ELSE alerts[i]]
  /\ nextId' = nextId + 1

ResolveAlert(id) ==
  /\ alerts' = [i \in DOMAIN alerts |->
                  IF i = id THEN [alerts[i] EXCEPT !.resolved = TRUE] ELSE alerts[i]]
  /\ UNCHANGED nextId

(* A database call fails: the disk is full, the file is locked, ... *)
Fail(call) ==
  /\ call \in Faults
  /\ faults < MaxFaults
  /\ faults' = faults + 1

-----------------------------------------------------------------------------
(* Boot, restart and crash. *)

Init ==
  /\ alerts = [i \in {} |-> 0] /\ nextId = 1
  /\ dbThr = [k \in Keys |-> DefaultLevel]
  /\ thr = [k \in Keys |-> 0] /\ active = [k \in Kinds |-> 0]
  /\ proc = "down" /\ pc = "idle"
  /\ todo = {} /\ fired = <<>> /\ announced = <<>> /\ bootId = 1
  /\ put = [p \in Putters |-> NoPut] /\ doubtful = {}
  /\ level = [k \in Kinds |-> 0]
  /\ present \in SUBSET DiskKinds /\ lastDown = {}
  /\ outages = [k \in URLKinds |-> 0] /\ falls = [k \in URLKinds |-> 0]
  /\ changes = 0 /\ faults = 0 /\ crashes = 0

(* Mutant: the alert map is not restored after a restart. *)
RestoredEmpty(m) == \A k \in Kinds : m[k] = 0

(* LoadThresholds walks the active rows newest first (ORDER BY fired_at    *)
(* DESC) and lets each one overwrite the map, so the oldest row of a kind  *)
(* is the one remembered.                                                  *)
Restored(m) ==
  \A k \in Kinds :
    \/ Unresolved(k) = {} /\ m[k] = 0
    \/ m[k] \in Unresolved(k) /\ \A i \in Unresolved(k) : m[k] <= i

(* checker.Start: a summary without a result for every enabled row; none *)
(* when the rows cannot be listed.                                       *)
Start ==
  /\ \E listed \in SUBSET URLKinds : present' = present \cup listed
  /\ UNCHANGED <<level, lastDown, outages, falls>>

(* main: LoadThresholds and checker.Start run before any other goroutine *)
(* exists.                                                               *)
LoadThresholds ==
  /\ proc = "down"
  /\ proc' = "up"
  /\ bootId' = nextId
  /\ thr' = dbThr
  /\ active' \in [Kinds -> 0..nextId]
  /\ Restored(active')
  /\ Start
  /\ UNCHANGED <<db, dbThr, collector, puts, budgets>>

(* A failing LoadThresholds is logged and the server starts all the same, *)
(* with an empty alert map and, when the first query failed, no           *)
(* thresholds.                                                            *)
LoadThresholdsFails ==
  /\ proc = "down"
  /\ Fail("load")
  /\ proc' = "up"
  /\ bootId' = nextId
  /\ \/ thr' = dbThr /\ UNCHANGED doubtful
     \/ thr' = [k \in Keys |-> 0] /\ doubtful' = Keys
  /\ active' = [k \in Kinds |-> 0]
  /\ Start
  /\ UNCHANGED <<db, dbThr, collector, put, changes, crashes>>

(* The process dies; what it held in memory and its requests are gone. *)
Crash ==
  /\ proc = "up"
  /\ crashes < MaxCrashes
  /\ crashes' = crashes + 1
  /\ proc' = "down" /\ pc' = "idle"
  /\ thr' = [k \in Keys |-> 0] /\ active' = [k \in Kinds |-> 0]
  /\ todo' = {} /\ fired' = <<>> /\ announced' = <<>>
  /\ put' = [p \in Putters |-> NoPut] /\ doubtful' = {}
  /\ present' = present \ URLKinds /\ lastDown' = {}
  /\ UNCHANGED <<db, dbThr, bootId, level, outages, falls, changes, faults>>

-----------------------------------------------------------------------------
(* The collector: one Evaluate per fast tick, then the broadcasts. *)

(* The threshold Evaluate compares a kind with. *)
Threshold(k) ==
  CASE k \in SysKinds  -> thr[k]
    [] k \in DiskKinds -> thr[DiskKey]
    [] k \in URLKinds  -> 1

(* What a tick measures.  Of a URL it is the stored result, however old;   *)
(* a summary without a result, because it is new or the process has just   *)
(* started, counts as up.                                                  *)
Measurement(k) ==
  IF k \in URLKinds THEN (IF k \in lastDown THEN 1 ELSE 0) ELSE level[k]

(* A fast tick: the collector reads the system, the disks and the URL *)
(* summaries, without Engine.mu.                                      *)
Collect ==
  /\ proc = "up" /\ pc = "idle"
  /\ pc' = "collected"
  /\ todo' = {[kind |-> k, value |-> Measurement(k)] : k \in SysKinds \cup present}
  /\ UNCHANGED <<db, dbThr, thr, active, proc, fired, announced, bootId, puts, env, budgets>>

(* Evaluate takes Engine.mu: from here to EvalReturn no threshold changes. *)
EvalStart ==
  /\ pc = "collected"
  /\ pc' = "eval"
  /\ UNCHANGED <<db, dbThr, thr, active, proc, todo, fired, announced, bootId, puts, env, budgets>>

(* System kinds come first, then disks, then URL checks (in map order). *)
Phase(k) == IF k \in SysKinds THEN 0 ELSE IF k \in DiskKinds THEN 1 ELSE 2

NextCheck(c) ==
  /\ pc = "eval"
  /\ c \in todo
  /\ \A d \in todo : Phase(c.kind) <= Phase(d.kind)
  /\ UNCHANGED <<dbThr, thr, proc, announced, bootId, puts, env, changes, crashes>>

(* Mutant: a value just below the threshold does not count as recovered. *)
RecoveredTooLate(c) == Threshold(c.kind) > 0 /\ c.value + 1 < Threshold(c.kind)

Breached(c) == Threshold(c.kind) > 0 /\ c.value >= Threshold(c.kind)
Recovered(c) == Threshold(c.kind) > 0 /\ c.value < Threshold(c.kind)

(* Check disabled, breach already recorded, or nothing to resolve. *)
EvalSkip(c) ==
  /\ NextCheck(c)
  /\ ~(Breached(c) /\ active[c.kind] = 0)
  /\ ~(Recovered(c) /\ active[c.kind] # 0)
  /\ todo' = todo \ {c}
  /\ UNCHANGED <<db, active, pc, fired, faults>>

(* Mutant: the new alert is not remembered. *)
EvalFireForgets(c) ==
  /\ NextCheck(c)
  /\ Breached(c) /\ active[c.kind] = 0
  /\ InsertAlert(c.kind)
  /\ fired' = Append(fired, nextId)
  /\ todo' = todo \ {c}
  /\ UNCHANGED <<active, pc, faults>>

(* Mutant: only the last alert of a pass is returned. *)
EvalFireKeepsLast(c) ==
  /\ NextCheck(c)
  /\ Breached(c) /\ active[c.kind] = 0
  /\ InsertAlert(c.kind)
  /\ active' = [active EXCEPT ![c.kind] = nextId]
  /\ fired' = <<nextId>>
  /\ todo' = todo \ {c}
  /\ UNCHANGED <<pc, faults>>

(* A new breach: a row, an entry in the map, an alert to broadcast. *)
EvalFire(c) ==
  /\ NextCheck(c)
  /\ Breached(c) /\ active[c.kind] = 0
  /\ InsertAlert(c.kind)
  /\ active' = [active EXCEPT ![c.kind] = nextId]
  /\ fired' = Append(fired, nextId)
  /\ todo' = todo \ {c}
  /\ UNCHANGED <<pc, faults>>

(* Mutant: "return nil, err" loses what the pass has fired. *)
EvalFireFailsReturnsNil(c) ==
  /\ NextCheck(c)
  /\ Breached(c) /\ active[c.kind] = 0
  /\ Fail("insert")
  /\ todo' = {} /\ pc' = "publish"
  /\ fired' = <<>>
  /\ UNCHANGED <<db, active>>

(* InsertAlert fails: Evaluate returns at once with what it has fired, and *)
(* the checks behind this one are not looked at in this pass.              *)
EvalFireFails(c) ==
  /\ NextCheck(c)
  /\ Breached(c) /\ active[c.kind] = 0
  /\ Fail("insert")
  /\ todo' = {} /\ pc' = "publish"
  /\ UNCHANGED <<db, active, fired>>

(* Mutant: the entry stays in the map. *)
EvalResolveKeepsEntry(c) ==
  /\ NextCheck(c)
  /\ Recovered(c) /\ active[c.kind] # 0
  /\ \/ ResolveAlert(active[c.kind]) /\ UNCHANGED faults
     \/ Fail("resolve") /\ UNCHANGED db
  /\ todo' = todo \ {c}
  /\ UNCHANGED <<active, pc, fired>>

(* The metric is back below its threshold.  The entry leaves the map *)
(* whether or not the row could be updated.                          *)
EvalResolve(c) ==
  /\ NextCheck(c)
  /\ Recovered(c) /\ active[c.kind] # 0
  /\ \/ ResolveAlert(active[c.kind]) /\ UNCHANGED faults
     \/ Fail("resolve") /\ UNCHANGED db
  /\ active' = [active EXCEPT ![c.kind] = 0]
  /\ todo' = todo \ {c}
  /\ UNCHANGED <<pc, fired>>

(* Evaluate returns and releases Engine.mu. *)
EvalReturn ==
  /\ pc = "eval" /\ todo = {}
  /\ pc' = "publish"
  /\ UNCHANGED <<db, dbThr, thr, active, proc, todo, fired, announced, bootId, puts, env, budgets>>

(* runCollector broadcasts every fired alert, also after an error. *)
Publish ==
  /\ pc = "publish"
  /\ pc' = "idle"
  /\ announced' = announced \o fired
  /\ fired' = <<>>
  /\ UNCHANGED <<db, dbThr, thr, active, proc, todo, bootId, puts, env, budgets>>

Evaluate == \E c \in todo : EvalSkip(c) \/ EvalFire(c) \/ EvalFireFails(c) \/ EvalResolve(c)

-----------------------------------------------------------------------------
(* The HTTP handlers and the purge job, each in a goroutine of its own. *)

(* UpdateThreshold writes the table first, without Engine.mu ... *)
SetThreshold(p, k, v) ==
  /\ proc = "up" /\ put[p] = NoPut
  /\ changes < MaxChanges
  /\ changes' = changes + 1
  /\ dbThr' = [dbThr EXCEPT ![k] = v]
  /\ put' = [put EXCEPT ![p] = [key |-> k, value |-> v]]
  /\ doubtful' = IF \E q \in Putters \ {p} : put[q].key = k
                 THEN doubtful \cup {k} ELSE doubtful \ {k}
  /\ UNCHANGED <<db, thr, active, proc, collector, bootId, env, faults, crashes>>

(* Mutant: the map is not written. *)
UpdateThresholdTableOnly(p) ==
  /\ put[p] # NoPut
  /\ pc # "eval"
  /\ put' = [put EXCEPT ![p] = NoPut]
  /\ UNCHANGED <<db, dbThr, thr, active, proc, collector, bootId, doubtful, env, budgets>>

(* ... and then, with the mutex, the map. *)
UpdateThreshold(p) ==
  /\ put[p] # NoPut
  /\ pc # "eval"
  /\ thr' = [thr EXCEPT ![put[p].key] = put[p].value]
  /\ put' = [put EXCEPT ![p] = NoPut]
  /\ UNCHANGED <<db, dbThr, active, proc, collector, bootId, doubtful, env, budgets>>

AcknowledgeAlert(id) ==
  /\ proc = "up"
  /\ id \in DOMAIN alerts
  /\ alerts' = [alerts EXCEPT ![id].ack = TRUE]
  /\ UNCHANGED <<nextId, dbThr, thr, active, proc, collector, bootId, puts, env, budgets>>

(* Mutant: "resolved_at IS NOT NULL" is dropped. *)
PurgeableAny(i) == i \in DOMAIN alerts

(* The rows Purge may delete: an alert that is still active stays, however old. *)
Purgeable(i) == alerts[i].resolved

Purge(old) ==
  /\ proc = "up"
  /\ old # {}
  /\ alerts' = [i \in DOMAIN alerts \ old |-> alerts[i]]
  /\ UNCHANGED <<nextId, dbThr, thr, active, proc, collector, bootId, puts, env, budgets>>

-----------------------------------------------------------------------------
(* The environment: metrics move, disks come and go. *)

Change ==
  /\ changes < MaxChanges
  /\ changes' = changes + 1
  /\ UNCHANGED <<db, dbThr, thr, active, proc, collector, bootId, puts, faults, crashes>>

MetricMoves(k, v) ==
  /\ Change
  /\ k \in URLKinds => v \in {0, 1}
  /\ level' = [level EXCEPT ![k] = v]
  /\ outages' = [u \in URLKinds |->
                   IF u = k /\ level[k] < v THEN outages[u] + 1 ELSE outages[u]]
  /\ UNCHANGED <<present, lastDown, falls>>

Mount(k) ==
  /\ Change
  /\ present' = present \cup {k}
  /\ UNCHANGED <<level, lastDown, outages, falls>>

Unmount(k) ==
  /\ Change
  /\ present' = present \ {k}
  /\ UNCHANGED <<level, lastDown, outages, falls>>

-----------------------------------------------------------------------------
(* The URL checker, as far as runCollector sees it.  Nothing makes it store  *)
(* a result: a check may be paused, or its goroutine have ended with the     *)
(* request it was started by.                                                *)

(* A probe comes back.  Its result is false when the context it ran under   *)
(* was done, or the URL has changed since.                                  *)
StoreResult(k, v) ==
  /\ proc = "up" /\ k \in present
  /\ IF v = level[k] THEN UNCHANGED faults ELSE Fail("probe")
  /\ lastDown' = IF v = 1 THEN lastDown \cup {k} ELSE lastDown \ {k}
  /\ falls' = [falls EXCEPT ![k] = IF v = 1 /\ k \notin lastDown THEN @ + 1 ELSE @]
  /\ UNCHANGED <<db, dbThr, thr, active, proc, collector, bootId, puts, level, present,
                 outages, changes, crashes>>

(* Add and startCheck: a summary without a result, of a new check or of one *)
(* that is deleted at the same time.                                        *)
NewSummary(k) ==
  /\ proc = "up" /\ k \notin present
  /\ Change
  /\ present' = present \cup {k} /\ lastDown' = lastDown \ {k}
  /\ UNCHANGED <<level, outages, falls>>

(* Remove.  The engine is not told. *)
RemoveSummary(k) ==
  /\ proc = "up"
  /\ Change
  /\ present' = present \ {k} /\ lastDown' = lastDown \ {k}
  /\ UNCHANGED <<level, outages, falls>>

-----------------------------------------------------------------------------
Next ==
  \/ LoadThresholds
  \/ LoadThresholdsFails
  \/ Crash
  \/ Collect
  \/ EvalStart
  \/ Evaluate
  \/ EvalReturn
  \/ Publish
  \/ \E p \in Putters, k \in Keys, v \in Levels : SetThreshold(p, k, v)
  \/ \E p \in Putters : UpdateThreshold(p)
  \/ \E id \in DOMAIN alerts : AcknowledgeAlert(id)
  \/ \E old \in SUBSET {i \in DOMAIN alerts : Purgeable(i)} : Purge(old)
  \/ \E k \in Kinds, v \in Levels : MetricMoves(k, v)
  \/ \E k \in DiskKinds : Mount(k) \/ Unmount(k)
  \/ \E k \in URLKinds, v \in {0, 1} : StoreResult(k, v)
  \/ \E k \in URLKinds : NewSummary(k) \/ RemoveSummary(k)

Spec == Init /\ [][Next]_vars

(* The ticker keeps firing, a handler that started finishes, and systemd    *)
(* restarts a process that died (monitoring24.service: Restart=always).     *)
(* Users, the purge job, the URL checker and the environment owe nothing.   *)
Fairness ==
  /\ WF_vars(LoadThresholds)
  /\ WF_vars(Collect) /\ WF_vars(EvalStart) /\ WF_vars(Evaluate)
  /\ WF_vars(EvalReturn) /\ WF_vars(Publish)
  /\ \A p \in Putters : WF_vars(UpdateThreshold(p))

FairSpec == Spec /\ Fairness

-----------------------------------------------------------------------------
TypeTable ==
  /\ nextId \in Nat \ {0}
  /\ DOMAIN alerts \subseteq 1..(nextId - 1)
  /\ alerts \in [DOMAIN alerts -> Row]

TypeEngine ==
  /\ dbThr \in [Keys -> Levels] /\ thr \in [Keys -> Levels]
  /\ active \in [Kinds -> Nat]
  /\ proc \in {"up", "down"}
  /\ put \in [Putters -> Put] /\ doubtful \subseteq Keys

TypeCollector ==
  /\ pc \in {"idle", "collected", "eval", "publish"}
  /\ todo \subseteq Check
  /\ fired \in Seq(Nat) /\ announced \in Seq(Nat)
  /\ bootId \in 1..nextId

TypeEnv ==
  /\ level \in [Kinds -> Levels]
  /\ present \subseteq Sources /\ lastDown \subseteq URLKinds
  /\ outages \in [URLKinds -> Nat] /\ falls \in [URLKinds -> Nat]

TypeBudgets ==
  changes \in 0..MaxChanges /\ faults \in 0..MaxFaults /\ crashes \in 0..MaxCrashes

TypeOK == TypeTable /\ TypeEngine /\ TypeCollector /\ TypeEnv /\ TypeBudgets

(* The engine's map never points at a row that is resolved, purged or of     *)
(* another kind, whatever crashes, purges and failing writes came before: an *)
(* entry that does would suppress every later alert of its kind, because     *)
(* Evaluate only fires for a kind that has no entry.                         *)
ActiveSound ==
  \A k \in Kinds : active[k] # 0 => active[k] \in Unresolved(k)

(* No kind has two unresolved rows, across passes, restarts and purges       *)
(* ("survives restarts without duplicate rows", alerts.go:50).  Needs        *)
(* LoadThresholds and ResolveAlert to succeed.                               *)
OneActivePerKind ==
  \A k \in Kinds : \A i, j \in Unresolved(k) : i = j

(* Every alert recorded since boot is handed to the SSE broker exactly once  *)
(* and in the order of recording, also when Evaluate gives up half-way       *)
(* through a pass.                                                           *)
EveryAlertAnnounced ==
  proc = "up" =>
    /\ Len(announced) + Len(fired) = nextId - bootId
    /\ \A n \in 1..Len(announced) : announced[n] = bootId + n - 1
    /\ \A n \in 1..Len(fired) : fired[n] = bootId + Len(announced) + n - 1

(* A threshold no PUT is writing is the same in the engine as in the table a *)
(* restart would load, whatever PUTs of other keys overlap.  Only two PUTs   *)
(* of one key can leave the two apart (table and map are written under       *)
(* different locks, alerts.go:84), and the next PUT of that key mends it; or *)
(* a load at boot that failed.                                               *)
ThresholdsAgree ==
  proc = "up" =>
    \A k \in Keys \ doubtful : (\A p \in Putters : put[p].key # k) => thr[k] = dbThr[k]

(* Every outage of a URL is recorded by at most one row ("survives restarts  *)
(* without duplicate rows", alerts.go:50).                                   *)
OneRowPerOutage ==
  \A k \in URLKinds : Cardinality({i \in DOMAIN alerts : alerts[i].kind = k}) <= outages[k]

(* A URL has no more rows than DOWN results that replaced another result or  *)
(* none: however often passes look at one, however stale what they hold is,  *)
(* and whatever summaries, rows and processes go and come back.  A restart   *)
(* or a summary made again costs a row only with a DOWN result of its own.   *)
OneRowPerFall ==
  \A k \in URLKinds : Cardinality({i \in DOMAIN alerts : alerts[i].kind = k}) <= falls[k]

Measured(k) == k \in SysKinds \cup present
InBreach(k) == Measured(k) /\ Threshold(k) > 0 /\ Measurement(k) >= Threshold(k)
BackBelow(k) == Measured(k) /\ Threshold(k) > 0 /\ Measurement(k) < Threshold(k)

(* A metric that stays at or over its threshold, or a URL whose last result  *)
(* stays DOWN, has an unresolved alert for good, in spite of crashes and of  *)
(* inserts that fail now and then.                                           *)
BreachIsAlerted ==
  \A k \in Kinds : <>[]InBreach(k) => <>[](Unresolved(k) # {})

(* An alert whose metric is still measured and stays below an enabled        *)
(* threshold, or whose URL is still listed and has no DOWN result any more,  *)
(* is resolved for good.                                                     *)
ResolvesWhileMeasured ==
  \A k \in Kinds : <>[]BackBelow(k) => <>[](Unresolved(k) = {})

(* The README's "auto-resolve" (README.md:19): an alert whose condition is   *)
(* gone for good does not stay active for good.                              *)
AutoResolve ==
  \A k \in Kinds : <>[]~InBreach(k) => <>[](Unresolved(k) = {})

-----------------------------------------------------------------------------
(* The rows implement the incidents of AlertIncidents. *)
Incidents == INSTANCE AlertIncidents
  WITH open <- {k \in Kinds : Unresolved(k) # {}}, total <- nextId - 1

(* Every step of the engine, the handlers, the purge job, a crash or a       *)
(* restart records or resolves at most one incident, and records one only    *)
(* of a kind that has none open.                                             *)
Refines == Incidents!Spec
=============================================================================
