------------------------- MODULE AlertEngineProofs --------------------------
(* Proofs about AlertEngine, for every value of its constants. *)
EXTENDS AlertEngine, TLAPS

-----------------------------------------------------------------------------
(* Type correctness.  The five parts of TypeOK are proved apart: an action *)
(* disturbs few of them.                                                   *)

LEMMA InitTypeOK == Init => TypeOK
  BY ConstantsAssumption DEF Init, TypeOK, TypeTable, TypeEngine, TypeCollector, TypeEnv,
     TypeBudgets, Keys, Levels, Kinds, Sources, Row, Put

LEMMA NextTypeTable == TypeOK /\ [Next]_vars => TypeTable'
<1> SUFFICES ASSUME TypeOK, [Next]_vars
             PROVE  TypeTable'
  OBVIOUS
<1> USE DEF TypeTable
<1>0. TypeTable
  BY DEF TypeOK
<1>1. ASSUME UNCHANGED <<alerts, nextId>>
      PROVE  TypeTable'
  BY <1>0, <1>1
<1>2. CASE Evaluate
  <2> PICK c \in todo : EvalSkip(c) \/ EvalFire(c) \/ EvalFireFails(c) \/ EvalResolve(c)
    BY <1>2 DEF Evaluate
  <2>0. c.kind \in Kinds
    BY DEF TypeOK, TypeCollector, Check
  <2>1. CASE EvalFire(c)
    <3>1. nextId' = nextId + 1
      BY <2>1 DEF EvalFire, InsertAlert
    <3>2. DOMAIN alerts' = DOMAIN alerts \cup {nextId}
      BY <2>1 DEF EvalFire, InsertAlert
    <3>3. alerts' \in [DOMAIN alerts' -> Row]
      BY <1>0, <2>0, <2>1 DEF EvalFire, InsertAlert, Row
    <3> QED BY <1>0, <3>1, <3>2, <3>3
  <2>2. CASE EvalResolve(c) /\ ResolveAlert(active[c.kind])
    <3>1. nextId' = nextId /\ DOMAIN alerts' = DOMAIN alerts
      BY <2>2 DEF ResolveAlert
    <3>2. alerts' \in [DOMAIN alerts' -> Row]
      BY <1>0, <2>2 DEF ResolveAlert, Row
    <3> QED BY <1>0, <3>1, <3>2
  <2> QED
    BY <1>1, <2>1, <2>2 DEF EvalSkip, EvalFireFails, EvalResolve, db
<1>3. CASE \E id \in DOMAIN alerts : AcknowledgeAlert(id)
  <2>1. nextId' = nextId /\ DOMAIN alerts' = DOMAIN alerts
    BY <1>3 DEF AcknowledgeAlert
  <2>2. alerts' \in [DOMAIN alerts' -> Row]
    BY <1>0, <1>3 DEF AcknowledgeAlert, Row
  <2> QED BY <1>0, <2>1, <2>2
<1>4. CASE \E old \in SUBSET {i \in DOMAIN alerts : Purgeable(i)} : Purge(old)
  <2> PICK old : Purge(old)
    BY <1>4
  <2>1. nextId' = nextId /\ DOMAIN alerts' = DOMAIN alerts \ old
    BY DEF Purge
  <2>2. alerts' \in [DOMAIN alerts' -> Row]
    BY <1>0 DEF Purge
  <2> QED BY <1>0, <2>1, <2>2
<1> QED
  BY <1>1, <1>2, <1>3, <1>4
     DEF Next, vars, puts, db, env, budgets, collector, LoadThresholds, LoadThresholdsFails, Crash,
         Collect, EvalStart, EvalReturn, Publish, SetThreshold, UpdateThreshold, Change,
         MetricMoves, Mount, Unmount,
         StoreResult, NewSummary, RemoveSummary

LEMMA NextTypeEngine == TypeOK /\ [Next]_vars => TypeEngine'
<1> SUFFICES ASSUME TypeOK, [Next]_vars
             PROVE  TypeEngine'
  OBVIOUS
<1> USE ConstantsAssumption DEF TypeEngine
<1>0. TypeEngine /\ nextId \in Nat \ {0}
  BY DEF TypeOK, TypeTable
<1>1. ASSUME UNCHANGED <<dbThr, thr, active, proc, put, doubtful>>
      PROVE  TypeEngine'
  BY <1>0, <1>1
<1>2. CASE LoadThresholds
  BY <1>0, <1>2 DEF LoadThresholds, puts
<1>3. CASE LoadThresholdsFails
  BY <1>0, <1>3 DEF LoadThresholdsFails, Levels
<1>4. CASE Crash
  BY <1>0, <1>4 DEF Crash, Levels, Put, db
<1>5. CASE Evaluate
  <2> PICK c \in todo : EvalSkip(c) \/ EvalFire(c) \/ EvalFireFails(c) \/ EvalResolve(c)
    BY <1>5 DEF Evaluate
  <2>1. UNCHANGED <<dbThr, thr, proc, put, doubtful>>
    BY DEF EvalSkip, EvalFire, EvalFireFails, EvalResolve, NextCheck, puts
  <2>2. active' \in [Kinds -> Nat]
    BY <1>0 DEF EvalSkip, EvalFire, EvalFireFails, EvalResolve
  <2> QED BY <1>0, <2>1, <2>2
<1>6. CASE \E p \in Putters, k \in Keys, v \in Levels : SetThreshold(p, k, v)
  BY <1>0, <1>6 DEF SetThreshold, Put
<1>7. CASE \E p \in Putters : UpdateThreshold(p)
  BY <1>0, <1>7 DEF UpdateThreshold, Put
<1> QED
  BY <1>1, <1>2, <1>3, <1>4, <1>5, <1>6, <1>7
     DEF Next, vars, puts, db, env, budgets, collector, Collect, EvalStart, EvalReturn, Publish,
         AcknowledgeAlert, Purge, Change, MetricMoves, Mount, Unmount,
         StoreResult, NewSummary, RemoveSummary

LEMMA NextTypeCollector == TypeOK /\ [Next]_vars => TypeCollector'
<1> SUFFICES ASSUME TypeOK, [Next]_vars
             PROVE  TypeCollector'
  OBVIOUS
<1> USE DEF TypeCollector
<1>0. TypeCollector /\ nextId \in Nat \ {0}
  BY DEF TypeOK, TypeTable
<1>1. ASSUME UNCHANGED <<pc, todo, fired, announced, bootId, nextId>>
      PROVE  TypeCollector'
  BY <1>0, <1>1
<1>2. CASE LoadThresholds \/ LoadThresholdsFails
  BY <1>0, <1>2 DEF LoadThresholds, LoadThresholdsFails, db, collector
<1>3. CASE Crash
  BY <1>0, <1>3 DEF Crash, db
<1>4. CASE Collect
  <2>1. todo' \subseteq Check
    <3>1. \A k \in SysKinds \cup present : k \in Kinds /\ Measurement(k) \in Levels
      BY ConstantsAssumption DEF Measurement, TypeOK, TypeEnv, Kinds, Sources, Levels
    <3> QED BY <1>4, <3>1 DEF Collect, Check
  <2> QED BY <1>0, <1>4, <2>1 DEF Collect, db
<1>5. CASE Evaluate
  <2> PICK c \in todo : EvalSkip(c) \/ EvalFire(c) \/ EvalFireFails(c) \/ EvalResolve(c)
    BY <1>5 DEF Evaluate
  <2>1. todo' \subseteq todo /\ UNCHANGED <<announced, bootId>>
    BY DEF EvalSkip, EvalFire, EvalFireFails, EvalResolve, NextCheck
  <2>2. pc' \in {"eval", "publish"}
    BY <1>0 DEF EvalSkip, EvalFire, EvalFireFails, EvalResolve, NextCheck
  <2>3. fired' \in Seq(Nat)
    <3>1. fired' = fired \/ fired' = Append(fired, nextId)
      BY DEF EvalSkip, EvalFire, EvalFireFails, EvalResolve
    <3>2. fired \in Seq(Nat) /\ nextId \in Nat
      BY <1>0
    <3> HIDE DEF TypeCollector
    <3> QED BY <3>1, <3>2
  <2>4. nextId' \in {nextId, nextId + 1}
    BY DEF EvalSkip, EvalFire, EvalFireFails, EvalResolve, InsertAlert, ResolveAlert, db
  <2> QED BY <1>0, <2>1, <2>2, <2>3, <2>4
<1>6. CASE EvalStart \/ EvalReturn
  BY <1>0, <1>6 DEF EvalStart, EvalReturn, db
<1>7. CASE Publish
  BY <1>0, <1>7 DEF Publish, db
<1> QED
  BY <1>1, <1>2, <1>3, <1>4, <1>5, <1>6, <1>7
     DEF Next, vars, puts, db, env, budgets, collector, SetThreshold, UpdateThreshold,
         AcknowledgeAlert, Purge, Change, MetricMoves, Mount, Unmount,
         StoreResult, NewSummary, RemoveSummary

LEMMA NextTypeEnv == TypeOK /\ [Next]_vars => TypeEnv'
<1> SUFFICES ASSUME TypeOK, [Next]_vars
             PROVE  TypeEnv'
  OBVIOUS
<1> USE DEF TypeEnv
<1>0. TypeEnv
  BY DEF TypeOK
<1>1. ASSUME UNCHANGED <<level, present, lastDown, outages, falls>>
      PROVE  TypeEnv'
  BY <1>0, <1>1
<1>2. CASE Crash
  BY <1>0, <1>2 DEF Crash
<1>3. CASE \E k \in Kinds, v \in Levels : MetricMoves(k, v)
  <2> PICK k \in Kinds, v \in Levels : MetricMoves(k, v)
    BY <1>3
  <2>1. outages' \in [URLKinds -> Nat]
    BY <1>0 DEF MetricMoves
  <2>2. level' \in [Kinds -> Levels]
    BY <1>0 DEF MetricMoves
  <2> QED BY <1>0, <2>1, <2>2 DEF MetricMoves
<1>4. CASE \E k \in DiskKinds : Mount(k) \/ Unmount(k)
  BY <1>0, <1>4 DEF Mount, Unmount, Sources
<1>5. CASE \E k \in URLKinds, v \in {0, 1} : StoreResult(k, v)
  <2> PICK k \in URLKinds, v \in {0, 1} : StoreResult(k, v)
    BY <1>5
  <2>1. falls' \in [URLKinds -> Nat]
    BY <1>0 DEF StoreResult
  <2> QED BY <1>0, <2>1 DEF StoreResult
<1>6. CASE \E k \in URLKinds : NewSummary(k) \/ RemoveSummary(k)
  BY <1>0, <1>6 DEF NewSummary, RemoveSummary, Sources
<1>7. CASE LoadThresholds \/ LoadThresholdsFails
  BY <1>0, <1>7 DEF LoadThresholds, LoadThresholdsFails, Start, Sources
<1> QED
  BY <1>1, <1>2, <1>3, <1>4, <1>5, <1>6, <1>7
     DEF Next, vars, env, Collect, EvalStart, Evaluate, EvalSkip, EvalFire, EvalFireFails,
         EvalResolve, NextCheck, EvalReturn, Publish, SetThreshold, UpdateThreshold,
         AcknowledgeAlert, Purge

LEMMA NextTypeBudgets == TypeOK /\ [Next]_vars => TypeBudgets'
<1> SUFFICES ASSUME TypeOK, [Next]_vars
             PROVE  TypeBudgets'
  OBVIOUS
<1> USE ConstantsAssumption DEF TypeBudgets
<1>0. TypeBudgets
  BY DEF TypeOK
<1>1. ASSUME UNCHANGED <<changes, faults, crashes>>
      PROVE  TypeBudgets'
  BY <1>0, <1>1
<1>2. ASSUME UNCHANGED <<faults, crashes>>, changes < MaxChanges, changes' = changes + 1
      PROVE  TypeBudgets'
  BY <1>0, <1>2
<1>3. ASSUME UNCHANGED <<changes, crashes>>, faults < MaxFaults, faults' = faults + 1
      PROVE  TypeBudgets'
  BY <1>0, <1>3
<1>4. CASE Crash
  BY <1>0, <1>4 DEF Crash
<1>5. CASE Evaluate
  BY <1>1, <1>3, <1>5
     DEF Evaluate, EvalSkip, EvalFire, EvalFireFails, EvalResolve, NextCheck, Fail
<1>6. CASE LoadThresholdsFails
  BY <1>3, <1>6 DEF LoadThresholdsFails, Fail
<1>7. CASE \E p \in Putters, k \in Keys, v \in Levels : SetThreshold(p, k, v)
  BY <1>2, <1>7 DEF SetThreshold
<1>8. ASSUME Change PROVE TypeBudgets'
  BY <1>2, <1>8 DEF Change
<1>9. CASE \E k \in URLKinds, v \in {0, 1} : StoreResult(k, v)
  BY <1>1, <1>3, <1>9 DEF StoreResult, Fail
<1> QED
  BY <1>1, <1>4, <1>5, <1>6, <1>7, <1>8, <1>9
     DEF Next, vars, puts, budgets, LoadThresholds, Collect, EvalStart, EvalReturn, Publish,
         UpdateThreshold, AcknowledgeAlert, Purge, MetricMoves, Mount, Unmount,
         StoreResult, NewSummary, RemoveSummary

LEMMA NextTypeOK == TypeOK /\ [Next]_vars => TypeOK'
  BY NextTypeTable, NextTypeEngine, NextTypeCollector, NextTypeEnv, NextTypeBudgets DEF TypeOK

(* In every reachable state the tables, the engine's maps and the            *)
(* collector's sequences have their types: alert ids stay below the          *)
(* AUTOINCREMENT counter, thresholds and measurements are levels.            *)
THEOREM TypeCorrect == Spec => []TypeOK
  BY InitTypeOK, NextTypeOK, PTL DEF Spec

-----------------------------------------------------------------------------
(* The engine's map points at unresolved rows. *)

LEMMA NextActiveSound == TypeOK /\ ActiveSound /\ [Next]_vars => ActiveSound'
<1> SUFFICES ASSUME TypeOK, ActiveSound, [Next]_vars
             PROVE  ActiveSound'
  OBVIOUS
<1> USE DEF ActiveSound, Unresolved
<1>0. /\ nextId \in Nat \ {0} /\ DOMAIN alerts \subseteq 1..(nextId - 1)
      /\ alerts \in [DOMAIN alerts -> Row] /\ active \in [Kinds -> Nat]
  BY DEF TypeOK, TypeTable, TypeEngine
<1>1. ASSUME UNCHANGED <<alerts, active>>
      PROVE  ActiveSound'
  BY <1>1
<1>2. CASE LoadThresholds
  BY <1>2 DEF LoadThresholds, Restored, db
<1>3. CASE LoadThresholdsFails \/ Crash
  BY <1>3 DEF LoadThresholdsFails, Crash
<1>4. CASE Evaluate
  <2> PICK c \in todo : EvalSkip(c) \/ EvalFire(c) \/ EvalFireFails(c) \/ EvalResolve(c)
    BY <1>4 DEF Evaluate
  <2>0. c.kind \in Kinds
    BY DEF TypeOK, TypeCollector, Check
  <2>1. CASE EvalFire(c)
    BY <1>0, <2>0, <2>1 DEF EvalFire, InsertAlert
  <2>2. CASE EvalResolve(c)
    (* The row that is resolved belongs to c.kind, so no other entry points at it. *)
    <3> SUFFICES ASSUME NEW k \in Kinds, active'[k] # 0
                 PROVE  active'[k] \in Unresolved(k)'
      OBVIOUS
    <3>1. k # c.kind /\ active'[k] = active[k] /\ active[c.kind] # 0
      BY <1>0, <2>0, <2>2 DEF EvalResolve
    <3>2. active[k] # active[c.kind]
      BY <2>0, <3>1
    <3>3. DOMAIN alerts' = DOMAIN alerts /\ alerts'[active[k]] = alerts[active[k]]
      BY <2>2, <3>1, <3>2 DEF EvalResolve, ResolveAlert, db
    <3> QED BY <3>1, <3>3
  <2> QED
    BY <1>1, <2>1, <2>2 DEF EvalSkip, EvalFireFails, db
<1>5. CASE \E id \in DOMAIN alerts : AcknowledgeAlert(id)
  BY <1>0, <1>5 DEF AcknowledgeAlert, Row
<1>6. CASE \E old \in SUBSET {i \in DOMAIN alerts : Purgeable(i)} : Purge(old)
  BY <1>0, <1>6 DEF Purge, Purgeable
<1> QED
  BY <1>1, <1>2, <1>3, <1>4, <1>5, <1>6
     DEF Next, vars, puts, db, env, budgets, collector, Collect, EvalStart, EvalReturn, Publish,
         SetThreshold, UpdateThreshold, Change, MetricMoves, Mount, Unmount,
         StoreResult, NewSummary, RemoveSummary

(* Whatever the faults, crashes, purges and interleavings: an entry of       *)
(* Engine.activeAlerts is the id of an unresolved row of that kind, so no    *)
(* kind is muted by a stale entry.                                           *)
THEOREM ActiveSoundHolds == Spec => []ActiveSound
<1>1. Init => ActiveSound
  BY DEF Init, ActiveSound
<1> QED
  BY <1>1, InitTypeOK, NextTypeOK, NextActiveSound, PTL DEF Spec

-----------------------------------------------------------------------------
(* What the steps of the system do to the set of unresolved rows. *)

LEMMA FireAdds ==
  ASSUME TypeOK, NEW c \in todo, EvalFire(c)
  PROVE  /\ nextId' = nextId + 1
         /\ \A k \in Kinds : Unresolved(k)' =
              IF k = c.kind THEN Unresolved(k) \cup {nextId} ELSE Unresolved(k)
<1>1. DOMAIN alerts \subseteq 1..(nextId - 1) /\ nextId \in Nat
  BY DEF TypeOK, TypeTable
<1>2. nextId \notin DOMAIN alerts
  BY <1>1
<1> QED
  BY <1>2 DEF EvalFire, InsertAlert, Unresolved

LEMMA ResolveRemoves ==
  ASSUME "resolve" \notin Faults, TypeOK, ActiveSound, NEW c \in todo, EvalResolve(c)
  PROVE  /\ nextId' = nextId
         /\ active[c.kind] \in Unresolved(c.kind)
         /\ \A k \in Kinds : Unresolved(k)' = Unresolved(k) \ {active[c.kind]}
<1>1. c.kind \in Kinds /\ alerts \in [DOMAIN alerts -> Row]
  BY DEF TypeOK, TypeCollector, TypeTable, Check
<1>2. ResolveAlert(active[c.kind])
  BY DEF EvalResolve, Fail
<1>3. active[c.kind] \in Unresolved(c.kind)
  BY <1>1 DEF EvalResolve, ActiveSound
<1> QED
  BY <1>1, <1>2, <1>3 DEF ResolveAlert, Unresolved, Row

LEMMA OthersKeep ==
  ASSUME TypeOK, [Next]_vars,
         ~ \E c \in todo : EvalFire(c) \/ EvalResolve(c)
  PROVE  nextId' = nextId /\ \A k \in Kinds : Unresolved(k)' = Unresolved(k)
<1>0. alerts \in [DOMAIN alerts -> Row]
  BY DEF TypeOK, TypeTable
<1>1. CASE \E id \in DOMAIN alerts : AcknowledgeAlert(id)
  BY <1>0, <1>1 DEF AcknowledgeAlert, Unresolved, Row
<1>2. CASE \E old \in SUBSET {i \in DOMAIN alerts : Purgeable(i)} : Purge(old)
  BY <1>0, <1>2 DEF Purge, Purgeable, Unresolved
<1>3. ASSUME UNCHANGED <<alerts, nextId>>
      PROVE  nextId' = nextId /\ \A k \in Kinds : Unresolved(k)' = Unresolved(k)
  BY <1>3 DEF Unresolved
<1>4. CASE Evaluate
  BY <1>3, <1>4 DEF Evaluate, EvalSkip, EvalFireFails, db
<1> QED
  BY <1>1, <1>2, <1>3, <1>4
     DEF Next, vars, puts, db, env, budgets, collector, LoadThresholds, LoadThresholdsFails, Crash,
         Collect, EvalStart, EvalReturn, Publish, SetThreshold, UpdateThreshold, Change,
         MetricMoves, Mount, Unmount,
         StoreResult, NewSummary, RemoveSummary

-----------------------------------------------------------------------------
(* While the process is down, nothing of it is half-way through anything. *)

BusyOnlyWhenUp ==
  proc = "down" =>
    /\ pc = "idle"
    /\ fired = <<>> /\ announced = <<>>
    /\ \A p \in Putters : put[p] = NoPut

LEMMA NextBusyOnlyWhenUp == TypeOK /\ BusyOnlyWhenUp /\ [Next]_vars => BusyOnlyWhenUp'
<1> SUFFICES ASSUME TypeOK, BusyOnlyWhenUp, [Next]_vars
             PROVE  BusyOnlyWhenUp'
  OBVIOUS
<1> USE DEF BusyOnlyWhenUp
<1>1. ASSUME UNCHANGED <<proc, pc, fired, announced, put>>
      PROVE  BusyOnlyWhenUp'
  BY <1>1
<1>2. ASSUME proc = "up", proc' = proc
      PROVE  BusyOnlyWhenUp'
  BY <1>2
<1>3. CASE Crash
  BY <1>3 DEF Crash
<1>4. CASE Evaluate
  BY <1>2, <1>4
     DEF Evaluate, EvalSkip, EvalFire, EvalFireFails, EvalResolve, NextCheck, TypeOK, TypeEngine
<1>5. CASE Collect \/ EvalStart \/ EvalReturn \/ Publish
  BY <1>2, <1>5 DEF Collect, EvalStart, EvalReturn, Publish, TypeOK, TypeEngine
<1>6. CASE \E p \in Putters : UpdateThreshold(p)
  BY <1>2, <1>6 DEF UpdateThreshold, TypeOK, TypeEngine
<1>7. CASE \E p \in Putters, k \in Keys, v \in Levels : SetThreshold(p, k, v)
  BY <1>2, <1>7 DEF SetThreshold
<1>8. CASE LoadThresholds \/ LoadThresholdsFails
  BY <1>8 DEF LoadThresholds, LoadThresholdsFails
<1> QED
  BY <1>1, <1>3, <1>4, <1>5, <1>6, <1>7, <1>8
     DEF Next, vars, puts, collector, AcknowledgeAlert, Purge, Change, MetricMoves, Mount, Unmount,
         StoreResult, NewSummary, RemoveSummary

-----------------------------------------------------------------------------
(* One unresolved row per kind.  OneActivePerKind is not inductive: a pass   *)
(* inserts a row whenever the map has no entry, so the map must know every   *)
(* unresolved row while the process is up.                                   *)

MapComplete ==
  proc = "up" => \A k \in Kinds : \A i \in Unresolved(k) : active[k] = i

MapInv == TypeOK /\ ActiveSound /\ BusyOnlyWhenUp /\ MapComplete /\ OneActivePerKind

LEMMA NextMapInv ==
  ASSUME "resolve" \notin Faults, "load" \notin Faults, MapInv, [Next]_vars
  PROVE  MapInv'
<1> USE DEF MapInv
<1>0. TypeOK' /\ ActiveSound' /\ BusyOnlyWhenUp'
  BY NextTypeOK, NextActiveSound, NextBusyOnlyWhenUp
<1>1. ASSUME MapComplete', proc' = "up"
      PROVE  OneActivePerKind'
  BY <1>1 DEF MapComplete, OneActivePerKind
<1>2. CASE \E c \in todo : EvalFire(c) \/ EvalResolve(c)
  <2> PICK c \in todo : EvalFire(c) \/ EvalResolve(c)
    BY <1>2
  <2>1. c.kind \in Kinds /\ active \in [Kinds -> Nat]
    BY DEF TypeOK, TypeCollector, TypeEngine, Check
  <2>2. proc = "up" /\ proc' = "up"
    BY DEF EvalFire, EvalResolve, NextCheck, BusyOnlyWhenUp, TypeOK, TypeEngine
  <2>3. CASE EvalFire(c)
    (* The map had no entry for c.kind, hence c.kind had no unresolved row. *)
    <3>1. active[c.kind] = 0 /\ active' = [active EXCEPT ![c.kind] = nextId]
      BY <2>3 DEF EvalFire
    <3>2. Unresolved(c.kind) = {}
      <4>1. \A i \in Unresolved(c.kind) : i = 0
        BY <2>1, <2>2, <3>1 DEF MapComplete
      <4>2. 0 \notin DOMAIN alerts
        BY DEF TypeOK, TypeTable
      <4> QED BY <4>1, <4>2 DEF Unresolved
    <3>3. MapComplete'
      BY <2>1, <2>2, <2>3, <3>1, <3>2, FireAdds DEF MapComplete
    <3> QED BY <1>0, <1>1, <2>2, <3>3
  <2>4. CASE EvalResolve(c)
    <3>1. active' = [active EXCEPT ![c.kind] = 0]
      BY <2>4 DEF EvalResolve
    <3>2. MapComplete'
      BY <2>1, <2>2, <2>4, <3>1, ResolveRemoves DEF MapComplete
    <3> QED BY <1>0, <1>1, <2>2, <3>2
  <2> QED BY <2>3, <2>4
<1>3. CASE ~ \E c \in todo : EvalFire(c) \/ EvalResolve(c)
  <2>1. \A k \in Kinds : Unresolved(k)' = Unresolved(k)
    BY <1>3, OthersKeep
  <2>2. OneActivePerKind'
    BY <2>1 DEF OneActivePerKind
  <2>3. CASE LoadThresholds
    BY <1>0, <2>1, <2>2, <2>3 DEF LoadThresholds, Restored, MapComplete, OneActivePerKind
  <2>4. CASE Crash
    BY <1>0, <2>2, <2>4 DEF Crash, MapComplete
  <2>5. CASE UNCHANGED <<active, proc>>
    BY <1>0, <2>1, <2>2, <2>5 DEF MapComplete
  <2> QED
    BY <1>3, <2>3, <2>4, <2>5
       DEF Next, vars, puts, LoadThresholdsFails, Fail, Collect, EvalStart, Evaluate, EvalSkip,
           EvalFireFails, NextCheck, EvalReturn, Publish, SetThreshold, UpdateThreshold,
           AcknowledgeAlert, Purge, Change, MetricMoves, Mount, Unmount,
         StoreResult, NewSummary, RemoveSummary
<1> QED BY <1>2, <1>3

LEMMA InitMapInv == Init => MapInv
  BY InitTypeOK
     DEF Init, MapInv, ActiveSound, BusyOnlyWhenUp, MapComplete, OneActivePerKind, Unresolved

(* If no ResolveAlert fails and every boot restores the map, then no kind    *)
(* ever has two unresolved rows, through any number of passes, crashes,      *)
(* restarts, purges and concurrent requests (alerts.go:50: "survives         *)
(* restarts without duplicate rows").  Without either assumption a row can   *)
(* be unresolved and forgotten, and the next breach adds one beside it.      *)
THEOREM OneActiveHolds ==
  ASSUME "resolve" \notin Faults, "load" \notin Faults
  PROVE  Spec => []OneActivePerKind
<1>1. MapInv /\ [Next]_vars => MapInv'
  BY NextMapInv
<1>2. MapInv => OneActivePerKind
  BY DEF MapInv
<1> QED
  BY <1>1, <1>2, InitMapInv, PTL DEF Spec

-----------------------------------------------------------------------------
(* The engine implements AlertIncidents. *)

LEMMA StepRefines ==
  ASSUME "resolve" \notin Faults, MapInv, [Next]_vars
  PROVE  [Incidents!Next]_(Incidents!vars)
<1> USE DEF MapInv
<1> DEFINE open == {k \in Kinds : Unresolved(k) # {}}
<1>0. nextId \in Nat \ {0}
  BY DEF TypeOK, TypeTable
<1>1. CASE \E c \in todo : EvalFire(c) \/ EvalResolve(c)
  <2> PICK c \in todo : EvalFire(c) \/ EvalResolve(c)
    BY <1>1
  <2>1. c.kind \in Kinds /\ active \in [Kinds -> Nat]
    BY DEF TypeOK, TypeCollector, TypeEngine, Check
  <2>2. proc = "up"
    BY DEF EvalFire, EvalResolve, NextCheck, BusyOnlyWhenUp, TypeOK, TypeEngine
  <2>3. CASE EvalFire(c)
    <3>1. c.kind \notin open
      <4>1. \A i \in Unresolved(c.kind) : i = 0
        BY <2>1, <2>2, <2>3 DEF MapComplete, EvalFire
      <4>2. 0 \notin DOMAIN alerts
        BY DEF TypeOK, TypeTable
      <4> QED BY <4>1, <4>2 DEF Unresolved
    <3>2. open' = open \cup {c.kind}
      BY <2>1, <2>3, FireAdds
    <3>3. nextId' - 1 = (nextId - 1) + 1
      BY <1>0, <2>3, FireAdds
    <3>4. Incidents!OpenIncident(c.kind)
      BY <3>1, <3>2, <3>3 DEF Incidents!OpenIncident
    <3> QED BY <2>1, <3>4 DEF Incidents!Next
  <2>4. CASE EvalResolve(c)
    <3>1. /\ nextId' = nextId
          /\ active[c.kind] \in Unresolved(c.kind)
          /\ \A k \in Kinds : Unresolved(k)' = Unresolved(k) \ {active[c.kind]}
      BY <2>4, ResolveRemoves
    <3>2. c.kind \in open
      BY <2>1, <3>1
    <3>3. Unresolved(c.kind)' = {}
      BY <2>1, <3>1 DEF OneActivePerKind
    <3>4. \A k \in Kinds : k # c.kind => Unresolved(k)' = Unresolved(k)
      BY <3>1 DEF Unresolved
    <3>5. open' = open \ {c.kind}
      BY <3>3, <3>4
    <3>6. Incidents!CloseIncident(c.kind)
      BY <3>1, <3>2, <3>5 DEF Incidents!CloseIncident
    <3> QED BY <2>1, <3>6 DEF Incidents!Next
  <2> QED BY <2>3, <2>4
<1>2. CASE ~ \E c \in todo : EvalFire(c) \/ EvalResolve(c)
  <2>1. nextId' = nextId /\ \A k \in Kinds : Unresolved(k)' = Unresolved(k)
    BY <1>2, OthersKeep
  <2>2. open' = open
    BY <2>1
  <2> QED BY <2>1, <2>2 DEF Incidents!vars
<1> QED BY <1>1, <1>2

(* Under the same assumptions every behaviour of the engine, its handlers,   *)
(* the purge job and the crashes is a behaviour of AlertIncidents: an        *)
(* incident is recorded only when none of its kind is open, and steps open   *)
(* or close one incident at a time.                                          *)
THEOREM EngineImplementsIncidents ==
  ASSUME "resolve" \notin Faults, "load" \notin Faults
  PROVE  Spec => Refines
<1>1. Init => Incidents!Init
  BY DEF Init, Incidents!Init, Unresolved
<1>2. MapInv /\ [Next]_vars => MapInv'
  BY NextMapInv
<1>3. MapInv /\ [Next]_vars => [Incidents!Next]_(Incidents!vars)
  BY StepRefines
<1> QED
  BY <1>1, <1>2, <1>3, InitMapInv, PTL DEF Spec, Refines, Incidents!Spec

-----------------------------------------------------------------------------
(* Every recorded alert is announced once and in order. *)

AnnounceInv == TypeOK /\ BusyOnlyWhenUp /\ EveryAlertAnnounced

LEMMA NextAnnounceInv == AnnounceInv /\ [Next]_vars => AnnounceInv'
<1> SUFFICES ASSUME AnnounceInv, [Next]_vars
             PROVE  AnnounceInv'
  OBVIOUS
<1> USE DEF AnnounceInv
<1>0. TypeOK' /\ BusyOnlyWhenUp'
  BY NextTypeOK, NextBusyOnlyWhenUp
<1> SUFFICES EveryAlertAnnounced'
  BY <1>0
<1>t. /\ nextId \in Nat \ {0} /\ bootId \in 1..nextId
      /\ fired \in Seq(Nat) /\ announced \in Seq(Nat)
  BY DEF TypeOK, TypeTable, TypeCollector
<1>1. ASSUME UNCHANGED <<proc, fired, announced, bootId, nextId>>
      PROVE  EveryAlertAnnounced'
  BY <1>1 DEF EveryAlertAnnounced
<1>2. CASE LoadThresholds \/ LoadThresholdsFails
  <2>1. fired' = <<>> /\ announced' = <<>> /\ nextId' = nextId /\ bootId' = nextId
    BY <1>2 DEF LoadThresholds, LoadThresholdsFails, BusyOnlyWhenUp, collector, db
  <2> QED BY <1>t, <2>1 DEF EveryAlertAnnounced
<1>3. CASE Crash
  BY <1>3 DEF Crash, EveryAlertAnnounced
<1>4. CASE \E c \in todo : EvalFire(c)
  <2>1. /\ proc' = proc /\ announced' = announced /\ bootId' = bootId
        /\ nextId' = nextId + 1 /\ fired' = Append(fired, nextId)
    BY <1>4 DEF EvalFire, NextCheck, InsertAlert
  <2>2. proc = "up"
    BY <1>4 DEF EvalFire, NextCheck, BusyOnlyWhenUp, TypeOK, TypeEngine
  <2>3. Len(fired') = Len(fired) + 1
    BY <1>t, <2>1
  <2>4. \A n \in 1..Len(fired') : fired'[n] = IF n <= Len(fired) THEN fired[n] ELSE nextId
    BY <1>t, <2>1
  <2>5. /\ nextId = bootId + Len(announced) + Len(fired)
        /\ Len(announced) \in Nat /\ Len(fired) \in Nat
    BY <1>t, <2>2 DEF EveryAlertAnnounced
  <2>6. Len(announced') + Len(fired') = nextId' - bootId'
    BY <1>t, <2>1, <2>3, <2>5
  <2>7. \A n \in 1..Len(announced') : announced'[n] = bootId' + n - 1
    BY <2>1, <2>2 DEF EveryAlertAnnounced
  <2>8. ASSUME NEW n \in 1..Len(fired')
        PROVE  fired'[n] = bootId' + Len(announced') + n - 1
    <3>1. CASE n <= Len(fired)
      <4>1. n \in 1..Len(fired) /\ fired'[n] = fired[n]
        BY <2>4, <2>5, <3>1
      <4> QED BY <2>1, <2>2, <4>1 DEF EveryAlertAnnounced
    <3>2. CASE ~ (n <= Len(fired))
      <4>1. n = Len(fired) + 1 /\ fired'[n] = nextId
        BY <2>3, <2>4, <2>5, <3>2
      <4> QED BY <1>t, <2>1, <2>5, <4>1
    <3> QED BY <3>1, <3>2
  <2> QED BY <2>6, <2>7, <2>8 DEF EveryAlertAnnounced
<1>5. CASE Publish
  <2>1. /\ proc' = proc /\ nextId' = nextId /\ bootId' = bootId
        /\ fired' = <<>> /\ announced' = announced \o fired
    BY <1>5 DEF Publish, db
  <2>2. Len(announced') = Len(announced) + Len(fired)
    BY <1>t, <2>1
  <2>3. \A n \in 1..Len(announced') : announced'[n] =
          IF n <= Len(announced) THEN announced[n] ELSE fired[n - Len(announced)]
    BY <1>t, <2>1
  <2>4. ASSUME proc = "up", NEW n \in 1..Len(announced')
        PROVE  announced'[n] = bootId + n - 1
    <3>1. CASE n <= Len(announced)
      <4>1. n \in 1..Len(announced) /\ announced'[n] = announced[n]
        BY <1>t, <2>2, <2>3, <3>1
      <4> QED BY <2>4, <4>1 DEF EveryAlertAnnounced
    <3>2. CASE ~ (n <= Len(announced))
      <4>1. n - Len(announced) \in 1..Len(fired)
        BY <1>t, <2>2, <3>2
      <4> QED BY <1>t, <2>3, <2>4, <3>2, <4>1 DEF EveryAlertAnnounced
    <3> QED BY <3>1, <3>2
  <2> QED BY <1>t, <2>1, <2>2, <2>4 DEF EveryAlertAnnounced
<1>6. CASE Evaluate /\ ~ \E c \in todo : EvalFire(c)
  BY <1>1, <1>6 DEF Evaluate, EvalSkip, EvalFireFails, EvalResolve, NextCheck, ResolveAlert, db
<1> QED
  BY <1>1, <1>2, <1>3, <1>4, <1>5, <1>6
     DEF Next, vars, puts, db, env, budgets, collector, Collect, EvalStart, EvalReturn, SetThreshold,
         UpdateThreshold, AcknowledgeAlert, Purge, Change, MetricMoves, Mount, Unmount,
         StoreResult, NewSummary, RemoveSummary

(* In every reachable state, with any database fault: the alerts recorded    *)
(* since boot are exactly those broadcast so far followed by those the       *)
(* running pass has fired, in the order of their ids.                        *)
THEOREM AnnouncedHolds == Spec => []EveryAlertAnnounced
<1>1. Init => AnnounceInv
  BY InitTypeOK DEF Init, AnnounceInv, BusyOnlyWhenUp, EveryAlertAnnounced
<1>2. AnnounceInv => EveryAlertAnnounced
  BY DEF AnnounceInv
<1> QED
  BY <1>1, <1>2, NextAnnounceInv, PTL DEF Spec

-----------------------------------------------------------------------------
(* Thresholds in memory and in the table.  While a PUT of a key is between *)
(* its two writes the table has its value already; the agreement of the    *)
(* key waits for it, unless another PUT of the same key came in between.   *)

Writes(p, k) == put[p].key = k

PutPending ==
  proc = "up" =>
    \A k \in Keys \ doubtful :
      /\ \A p, q \in Putters : Writes(p, k) /\ Writes(q, k) => p = q
      /\ \A p \in Putters : Writes(p, k) => dbThr[k] = put[p].value

PutInv == TypeOK /\ BusyOnlyWhenUp /\ PutPending /\ ThresholdsAgree

LEMMA NextPutInv == PutInv /\ [Next]_vars => PutInv'
<1> SUFFICES ASSUME PutInv, [Next]_vars
             PROVE  PutInv'
  OBVIOUS
<1> USE DEF PutInv, Writes
<1>0. TypeOK' /\ BusyOnlyWhenUp'
  BY NextTypeOK, NextBusyOnlyWhenUp
<1> SUFFICES PutPending' /\ ThresholdsAgree'
  BY <1>0
<1>t. /\ dbThr \in [Keys -> Levels] /\ thr \in [Keys -> Levels]
      /\ put \in [Putters -> Put] /\ proc \in {"up", "down"}
  BY DEF TypeOK, TypeEngine
<1>n. \A k \in Keys : NoPut.key # k
  BY ConstantsAssumption DEF NoPut
<1>1. ASSUME UNCHANGED <<dbThr, thr, proc, put, doubtful>>
      PROVE  PutPending' /\ ThresholdsAgree'
  BY <1>1 DEF PutPending, ThresholdsAgree
<1>2. CASE LoadThresholds
  <2>1. put' = put /\ thr' = dbThr' /\ \A p \in Putters : put[p] = NoPut
    BY <1>2 DEF LoadThresholds, BusyOnlyWhenUp, puts
  <2> QED BY <1>n, <2>1 DEF PutPending, ThresholdsAgree
<1>3. CASE LoadThresholdsFails
  <2>1. /\ put' = put /\ \A p \in Putters : put[p] = NoPut
        /\ thr' = dbThr' \/ doubtful' = Keys
    BY <1>3 DEF LoadThresholdsFails, BusyOnlyWhenUp
  <2> QED BY <1>n, <2>1 DEF PutPending, ThresholdsAgree
<1>4. CASE Crash
  BY <1>4 DEF Crash, PutPending, ThresholdsAgree
<1>5. CASE \E p \in Putters, k \in Keys, v \in Levels : SetThreshold(p, k, v)
  <2> PICK p \in Putters, k \in Keys, v \in Levels : SetThreshold(p, k, v)
    BY <1>5
  <2>1. /\ proc = "up" /\ proc' = "up" /\ put[p] = NoPut /\ thr' = thr
        /\ dbThr' = [dbThr EXCEPT ![k] = v]
        /\ put' = [put EXCEPT ![p] = [key |-> k, value |-> v]]
        /\ doubtful' = IF \E q \in Putters \ {p} : put[q].key = k
                       THEN doubtful \cup {k} ELSE doubtful \ {k}
    BY DEF SetThreshold
  <2>2. /\ put'[p].key = k /\ put'[p].value = v
        /\ \A q \in Putters \ {p} : put'[q] = put[q]
    BY <1>t, <2>1
  <2> SUFFICES ASSUME NEW j \in Keys \ doubtful'
               PROVE  /\ \A q, r \in Putters : Writes(q, j)' /\ Writes(r, j)' => q = r
                      /\ \A q \in Putters : Writes(q, j)' => dbThr'[j] = put'[q].value
                      /\ (\A q \in Putters : put'[q].key # j) => thr'[j] = dbThr'[j]
    BY DEF PutPending, ThresholdsAgree
  <2>3. CASE j = k
    (* p is the only one that writes k, or k would be doubtful. *)
    <3>1. \A q \in Putters \ {p} : put[q].key # k
      BY <2>1, <2>3
    <3>2. dbThr'[j] = v
      BY <1>t, <2>1, <2>3
    <3> QED BY <2>2, <2>3, <3>1, <3>2
  <2>4. CASE j # k
    <3>1. j \in Keys \ doubtful /\ dbThr'[j] = dbThr[j] /\ put[p].key # j
      BY <1>t, <1>n, <2>1, <2>4
    <3>2. \A q \in Putters : /\ put'[q].key = j <=> put[q].key = j
                             /\ put[q].key = j => put'[q] = put[q]
      BY <2>2, <2>4, <3>1
    <3> QED BY <2>1, <3>1, <3>2 DEF PutPending, ThresholdsAgree
  <2> QED BY <2>3, <2>4
<1>6. CASE \E p \in Putters : UpdateThreshold(p)
  <2> PICK p \in Putters : UpdateThreshold(p)
    BY <1>6
  <2>1. /\ thr' = [thr EXCEPT ![put[p].key] = put[p].value]
        /\ put' = [put EXCEPT ![p] = NoPut]
        /\ UNCHANGED <<dbThr, proc, doubtful>>
    BY DEF UpdateThreshold
  <2>2. put[p] # NoPut /\ put[p].key \in Keys
    BY <1>t DEF UpdateThreshold, Put
  <2>3. proc = "up"
    BY <1>t, <2>2 DEF BusyOnlyWhenUp
  <2>4. put'[p] = NoPut /\ \A q \in Putters \ {p} : put'[q] = put[q]
    BY <1>t, <2>1
  <2> SUFFICES ASSUME NEW j \in Keys \ doubtful
               PROVE  /\ \A q, r \in Putters : Writes(q, j)' /\ Writes(r, j)' => q = r
                      /\ \A q \in Putters : Writes(q, j)' => dbThr'[j] = put'[q].value
                      /\ (\A q \in Putters : put'[q].key # j) => thr'[j] = dbThr'[j]
    BY <2>1 DEF PutPending, ThresholdsAgree
  <2>5. CASE j = put[p].key
    <3>1. dbThr[j] = put[p].value /\ \A q \in Putters \ {p} : put[q].key # j
      BY <2>3, <2>5 DEF PutPending
    <3>2. thr'[j] = put[p].value
      BY <1>t, <2>1, <2>5
    <3> QED BY <1>n, <2>1, <2>4, <3>1, <3>2
  <2>6. CASE j # put[p].key
    <3>1. thr'[j] = thr[j]
      BY <1>t, <2>1, <2>6
    <3>2. \A q \in Putters : /\ put'[q].key = j <=> put[q].key = j
                             /\ put[q].key = j => put'[q] = put[q]
      BY <1>n, <2>4, <2>6
    <3> QED BY <2>1, <2>3, <3>1, <3>2 DEF PutPending, ThresholdsAgree
  <2> QED BY <2>5, <2>6
<1>7. CASE Evaluate
  BY <1>1, <1>7
     DEF Evaluate, EvalSkip, EvalFire, EvalFireFails, EvalResolve, NextCheck, puts
<1> QED
  BY <1>1, <1>2, <1>3, <1>4, <1>5, <1>6, <1>7
     DEF Next, vars, puts, Collect, EvalStart, EvalReturn, Publish, AcknowledgeAlert, Purge,
         Change, MetricMoves, Mount, Unmount, StoreResult, NewSummary, RemoveSummary

(* For any number of PUT /api/thresholds requests served at the same time,   *)
(* and whatever passes, crashes, failing loads and restarts come in between: *)
(* a threshold that no request is writing is the stored one, unless the last *)
(* request that wrote it overlapped another one for the same key, or its     *)
(* load failed.                                                              *)
THEOREM ThresholdsAgreeHolds == Spec => []ThresholdsAgree
<1>1. Init => PutInv
  BY InitTypeOK DEF Init, PutInv, BusyOnlyWhenUp, PutPending, ThresholdsAgree
<1>2. PutInv => ThresholdsAgree
  BY DEF PutInv
<1> QED
  BY <1>1, <1>2, NextPutInv, PTL DEF Spec
=============================================================================
