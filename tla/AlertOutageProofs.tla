------------------------- MODULE AlertOutageProofs --------------------------
(***************************************************************************)
(* The proof that a URL check never has more rows in the alerts table than *)
(* DOWN results replaced another result or none.  The count alone is not   *)
(* inductive: a pass works on measurements that may be older than the      *)
(* summaries, an entry leaves the map when its row could not be resolved,  *)
(* and a check without a result counts as up.  The invariant says when a   *)
(* row is still owed, and that the bound then has room for it.             *)
(***************************************************************************)
EXTENDS AlertEngineProofs, FiniteSetTheorems

RowsOf(k) == {i \in DOMAIN alerts : alerts[i].kind = k}

(* The pass under way has yet to look at the value v of k. *)
Measures(k, v) == \E c \in todo : c.kind = k /\ c.value = v

(* Evaluate may insert a row for k without another fall: on the measurement *)
(* it holds; or on a later one of a result that is DOWN, if there is no     *)
(* entry or an older measurement of 0 is going to clear it.                 *)
Owed(k) ==
  \/ Measures(k, 1) /\ active[k] = 0
  \/ k \in lastDown /\ ~Measures(k, 1) /\ (Measures(k, 0) \/ active[k] = 0)

Settled(k) ==
  /\ Cardinality(RowsOf(k)) <= falls[k]
  /\ Owed(k) => Cardinality(RowsOf(k)) < falls[k]

(* What the steps of a pass look at: one value per kind, 0 or 1 for a URL. *)
PassMeasures ==
  /\ pc \in {"idle", "publish"} => todo = {}
  /\ \A c, d \in todo : c.kind = d.kind => c = d
  /\ \A c \in todo : c.kind \in URLKinds => c.value \in {0, 1}

(* The results live in the process. *)
ResultsGoneWhenDown == proc = "down" => lastDown = {}

Accounted == \A k \in URLKinds : Settled(k)

FallInv == TypeOK /\ BusyOnlyWhenUp /\ ResultsGoneWhenDown /\ PassMeasures /\ Accounted

-----------------------------------------------------------------------------
LEMMA NextPassMeasures == TypeOK /\ PassMeasures /\ [Next]_vars => PassMeasures'
<1> SUFFICES ASSUME TypeOK, PassMeasures, [Next]_vars
             PROVE  PassMeasures'
  OBVIOUS
<1> USE DEF PassMeasures
<1>1. ASSUME UNCHANGED <<todo, pc>>
      PROVE  PassMeasures'
  BY <1>1
<1>2. CASE Crash
  BY <1>2 DEF Crash
<1>3. CASE Collect
  <2>1. /\ pc' = "collected"
        /\ todo' = {[kind |-> k, value |-> Measurement(k)] : k \in SysKinds \cup present}
    BY <1>3 DEF Collect
  <2>2. \A k \in URLKinds : Measurement(k) \in {0, 1}
    BY DEF Measurement
  <2> QED BY <2>1, <2>2
<1>4. CASE Evaluate
  <2> PICK c \in todo : EvalSkip(c) \/ EvalFire(c) \/ EvalFireFails(c) \/ EvalResolve(c)
    BY <1>4 DEF Evaluate
  <2>1. pc = "eval"
    BY DEF EvalSkip, EvalFire, EvalFireFails, EvalResolve, NextCheck
  <2>2. todo' \subseteq todo /\ (pc' = pc \/ todo' = {})
    BY DEF EvalSkip, EvalFire, EvalFireFails, EvalResolve
  <2> QED BY <2>1, <2>2
<1>5. CASE EvalStart \/ EvalReturn \/ Publish
  BY <1>5 DEF EvalStart, EvalReturn, Publish
<1> QED
  BY <1>1, <1>2, <1>3, <1>4, <1>5
     DEF Next, vars, collector, LoadThresholds, LoadThresholdsFails, SetThreshold,
         UpdateThreshold, AcknowledgeAlert, Purge, Change, MetricMoves, Mount, Unmount,
         StoreResult, NewSummary, RemoveSummary

LEMMA NextResultsGoneWhenDown ==
  TypeOK /\ ResultsGoneWhenDown /\ [Next]_vars => ResultsGoneWhenDown'
<1> SUFFICES ASSUME TypeOK, ResultsGoneWhenDown, [Next]_vars
             PROVE  ResultsGoneWhenDown'
  OBVIOUS
<1> USE DEF ResultsGoneWhenDown
<1>1. ASSUME UNCHANGED <<proc, lastDown>> PROVE ResultsGoneWhenDown'
  BY <1>1
<1>2. CASE Crash \/ LoadThresholds \/ LoadThresholdsFails
  BY <1>2 DEF Crash, LoadThresholds, LoadThresholdsFails
<1>3. CASE Evaluate
  BY <1>1, <1>3 DEF Evaluate, EvalSkip, EvalFire, EvalFireFails, EvalResolve, NextCheck, env
<1>4. CASE \/ \E k \in URLKinds, v \in {0, 1} : StoreResult(k, v)
           \/ \E k \in URLKinds : NewSummary(k) \/ RemoveSummary(k)
  <2>1. proc = "up" /\ proc' = proc
    BY <1>4 DEF StoreResult, NewSummary, RemoveSummary, Change
  <2> QED BY <2>1
<1> QED
  BY <1>1, <1>2, <1>3, <1>4
     DEF Next, vars, env, Collect, EvalStart, EvalReturn, Publish, SetThreshold, UpdateThreshold,
         AcknowledgeAlert, Purge, Change, MetricMoves, Mount, Unmount

(* A step of a pass uses up the measurement it looks at, or all of them. *)
LEMMA EvaluateUses ==
  ASSUME TypeOK, PassMeasures, NEW c \in todo,
         EvalSkip(c) \/ EvalFire(c) \/ EvalFireFails(c) \/ EvalResolve(c)
  PROVE  /\ c.kind \in Kinds /\ UNCHANGED env
         /\ todo' \subseteq todo
         /\ ~EvalFireFails(c) => todo' = todo \ {c}
         /\ EvalFireFails(c) => todo' = {}
         /\ \A v : ~Measures(c.kind, v)'
         /\ Measures(c.kind, c.value)
  BY DEF TypeOK, TypeCollector, Check, EvalSkip, EvalFire, EvalFireFails, EvalResolve, NextCheck,
         PassMeasures, Measures

(* The checks of a URL compare with 1. *)
LEMMA URLThreshold ==
  ASSUME PassMeasures, NEW c \in todo, c.kind \in URLKinds
  PROVE  /\ Breached(c) <=> c.value = 1
         /\ Recovered(c) <=> c.value = 0
<1>1. Threshold(c.kind) = 1
  BY ConstantsAssumption DEF Threshold, Sources
<1>2. c.value \in {0, 1}
  BY DEF PassMeasures
<1> QED
  BY <1>1, <1>2 DEF Breached, Recovered

-----------------------------------------------------------------------------
(* How many rows a URL check has. *)

LEMMA IdsFinite ==
  ASSUME NEW n \in Int, NEW S \in SUBSET (1..n)
  PROVE  IsFiniteSet(S) /\ Cardinality(S) \in Nat
<1>1. IsFiniteSet(1..n)
  BY FS_Interval
<1>2. IsFiniteSet(S)
  BY <1>1, FS_Subset
<1> QED
  BY <1>2, FS_CardinalityType

LEMMA RowsFinite ==
  ASSUME TypeOK, NEW k
  PROVE  IsFiniteSet(RowsOf(k)) /\ Cardinality(RowsOf(k)) \in Nat
<1>1. nextId - 1 \in Int /\ RowsOf(k) \in SUBSET (1..(nextId - 1))
  BY DEF TypeOK, TypeTable, RowsOf
<1> QED
  BY <1>1, IdsFinite

LEMMA FireCounts ==
  ASSUME TypeOK, NEW c \in todo, EvalFire(c), NEW k
  PROVE  Cardinality(RowsOf(k))' = IF k = c.kind THEN Cardinality(RowsOf(k)) + 1
                                   ELSE Cardinality(RowsOf(k))
<1>1. nextId \notin DOMAIN alerts
  BY DEF TypeOK, TypeTable
<1>2. RowsOf(k)' = IF k = c.kind THEN RowsOf(k) \cup {nextId} ELSE RowsOf(k)
  BY <1>1 DEF EvalFire, InsertAlert, RowsOf
<1>3. nextId \notin RowsOf(k)
  BY <1>1 DEF RowsOf
<1> QED
  BY <1>2, <1>3, RowsFinite, FS_AddElement

LEMMA OthersCount ==
  ASSUME TypeOK, [Next]_vars, ~ \E c \in todo : EvalFire(c), NEW k
  PROVE  Cardinality(RowsOf(k))' <= Cardinality(RowsOf(k))
<1>0. alerts \in [DOMAIN alerts -> Row]
  BY DEF TypeOK, TypeTable
<1> SUFFICES RowsOf(k)' \subseteq RowsOf(k)
  BY RowsFinite, FS_Subset
<1>1. ASSUME alerts' = alerts PROVE RowsOf(k)' \subseteq RowsOf(k)
  BY <1>1 DEF RowsOf
<1>2. CASE Evaluate
  <2> PICK c \in todo : EvalSkip(c) \/ EvalFireFails(c) \/ EvalResolve(c)
    BY <1>2 DEF Evaluate
  <2>1. CASE ResolveAlert(active[c.kind])
    BY <1>0, <2>1 DEF ResolveAlert, RowsOf, Row
  <2> QED BY <1>1, <2>1 DEF EvalSkip, EvalFireFails, EvalResolve, db
<1>3. CASE \E id \in DOMAIN alerts : AcknowledgeAlert(id)
  BY <1>0, <1>3 DEF AcknowledgeAlert, RowsOf, Row
<1>4. CASE \E old \in SUBSET {i \in DOMAIN alerts : Purgeable(i)} : Purge(old)
  BY <1>4 DEF Purge, RowsOf
<1> QED
  BY <1>1, <1>2, <1>3, <1>4
     DEF Next, vars, db, LoadThresholds, LoadThresholdsFails, Crash, Collect, EvalStart,
         EvalReturn, Publish, SetThreshold, UpdateThreshold, Change, MetricMoves,
         Mount, Unmount, StoreResult, NewSummary, RemoveSummary

-----------------------------------------------------------------------------
(* Nothing but a fall adds to what is owed. *)

LEMMA NextAccounted == FallInv /\ [Next]_vars => Accounted'
<1> SUFFICES ASSUME FallInv, [Next]_vars, NEW k \in URLKinds
             PROVE  Settled(k)'
  BY DEF Accounted
<1> USE DEF FallInv
<1>t. k \in Kinds /\ active \in [Kinds -> Nat]
  BY DEF Kinds, TypeOK, TypeEngine
<1>1. Settled(k)
  BY DEF Accounted
<1>2. /\ Cardinality(RowsOf(k)) \in Nat /\ Cardinality(RowsOf(k))' \in Nat
      /\ falls[k] \in Nat /\ falls'[k] \in Nat
  <2>1. TypeOK'
    BY NextTypeOK
  <2>2. Cardinality(RowsOf(k)) \in Nat
    BY RowsFinite
  <2>3. Cardinality(RowsOf(k))' \in Nat
    <3>1. nextId' - 1 \in Int /\ RowsOf(k)' \in SUBSET (1..(nextId' - 1))
      BY <2>1 DEF TypeOK, TypeTable, RowsOf
    <3> QED BY <3>1, IdsFinite
  <2> QED BY <2>1, <2>2, <2>3 DEF TypeOK, TypeEnv
<1>3. ASSUME ~ \E c \in todo : EvalFire(c), falls'[k] = falls[k], Owed(k)' => Owed(k)
      PROVE  Settled(k)'
  BY <1>1, <1>2, <1>3, OthersCount DEF Settled
<1>4. ASSUME UNCHANGED <<active, todo, falls>>, k \in lastDown' => k \in lastDown,
             ~ \E c \in todo : EvalFire(c)
      PROVE  Settled(k)'
  BY <1>3, <1>4 DEF Owed, Measures
<1>5. CASE Crash \/ LoadThresholds \/ LoadThresholdsFails
  (* No result and no measurement: nothing is owed. *)
  <2>1. todo' = {} /\ lastDown' = {} /\ UNCHANGED <<falls, alerts>>
    BY <1>5
       DEF Crash, LoadThresholds, LoadThresholdsFails, Start, BusyOnlyWhenUp, PassMeasures,
           ResultsGoneWhenDown, collector, db
  <2>2. ~Owed(k)' /\ Cardinality(RowsOf(k))' = Cardinality(RowsOf(k))
    BY <2>1 DEF Owed, Measures, RowsOf
  <2> QED BY <1>1, <2>1, <2>2 DEF Settled
<1>6. CASE Collect
  (* A new measurement is the result of the summary. *)
  <2>1. /\ UNCHANGED <<active, falls, lastDown>> /\ todo = {}
        /\ todo' = {[kind |-> j, value |-> Measurement(j)] : j \in SysKinds \cup present}
    BY <1>6 DEF Collect, env, PassMeasures
  <2>2. Measures(k, 1)' => k \in lastDown
    BY <2>1 DEF Measures, Measurement
  <2>3. Measures(k, 0)' => k \notin lastDown
    BY <2>1 DEF Measures, Measurement
  <2>4. ~Measures(k, 0) /\ ~Measures(k, 1)
    BY <2>1 DEF Measures
  <2>5. Owed(k)' => k \in lastDown /\ active[k] = 0
    BY <2>1, <2>2, <2>3 DEF Owed
  <2>6. ~ \E c \in todo : EvalFire(c)
    BY <2>1
  <2> QED BY <1>3, <2>1, <2>4, <2>5, <2>6 DEF Owed
<1>7. CASE Evaluate
  <2> PICK c \in todo : EvalSkip(c) \/ EvalFire(c) \/ EvalFireFails(c) \/ EvalResolve(c)
    BY <1>7 DEF Evaluate
  <2>1. /\ c.kind \in Kinds /\ todo' \subseteq todo
        /\ UNCHANGED <<falls, lastDown>>
        /\ ~EvalFireFails(c) => todo' = todo \ {c}
        /\ EvalFireFails(c) => todo' = {}
    BY EvaluateUses DEF env
  <2>2. CASE c.kind # k /\ ~EvalFireFails(c)
    (* Another kind's turn. *)
    <3>1. active'[k] = active[k]
      BY <1>t, <2>1, <2>2 DEF EvalSkip, EvalFire, EvalResolve
    <3>2. \A v : Measures(k, v)' <=> Measures(k, v)
      BY <2>1, <2>2 DEF Measures
    <3>3. Owed(k)' <=> Owed(k)
      BY <2>1, <3>1, <3>2 DEF Owed
    <3>4. CASE EvalFire(c)
      BY <1>1, <1>2, <2>1, <2>2, <3>3, <3>4, FireCounts DEF Settled
    <3>5. CASE ~ EvalFire(c)
      <4>1. ~ \E d \in todo : EvalFire(d)
        BY <2>1, <2>2, <3>5 DEF EvalFire, EvalSkip, EvalResolve
      <4> QED BY <1>3, <2>1, <3>3, <4>1
    <3> QED BY <3>4, <3>5
  <2>3. CASE c.kind = k /\ ~EvalFireFails(c)
    <3>1. /\ \A v : ~Measures(k, v)'
          /\ c.value \in {0, 1} /\ Measures(k, c.value)
          /\ \A v : Measures(k, v) => v = c.value
      BY <2>3, EvaluateUses DEF PassMeasures, Measures
    <3>2. CASE EvalFire(c)
      (* The row that was owed; nothing is owed after it. *)
      <4>1. c.value = 1 /\ active[k] = 0
        BY <2>3, <3>2, URLThreshold DEF EvalFire
      <4>2. active'[k] # 0
        BY <1>t, <2>3, <3>2 DEF EvalFire, TypeOK, TypeTable
      <4>3. Owed(k) /\ ~Owed(k)'
        BY <1>1, <2>1, <3>1, <4>1, <4>2 DEF Owed
      <4> QED BY <1>1, <1>2, <2>1, <2>3, <3>2, <4>3, FireCounts DEF Settled
    <3>3. CASE EvalResolve(c)
      <4>1. c.value = 0
        BY <2>3, <3>3, URLThreshold DEF EvalResolve
      <4>2. Owed(k)' => Owed(k)
        BY <2>1, <3>1, <4>1 DEF Owed
      <4>3. ~ \E d \in todo : EvalFire(d)
        BY <3>3 DEF EvalFire, EvalResolve, InsertAlert, ResolveAlert, db, TypeOK, TypeTable
      <4> QED BY <1>3, <2>1, <4>2, <4>3
    <3>4. CASE EvalSkip(c)
      <4>1. active' = active /\ (c.value = 1 => active[k] # 0) /\ (c.value = 0 => active[k] = 0)
        BY <2>3, <3>4, URLThreshold DEF EvalSkip
      <4>2. Owed(k)' => Owed(k)
        BY <1>1, <2>1, <3>1, <4>1 DEF Owed
      <4>3. ~ \E d \in todo : EvalFire(d)
        BY <3>4 DEF EvalFire, EvalSkip, InsertAlert, db, TypeOK, TypeTable
      <4> QED BY <1>3, <2>1, <4>2, <4>3
    <3> QED BY <2>3, <3>2, <3>3, <3>4
  <2>4. CASE EvalFireFails(c)
    (* The pass is over: every measurement it held is dropped. *)
    <3>1. active' = active /\ \A v : ~Measures(k, v)'
      BY <2>1, <2>4 DEF EvalFireFails, Measures
    <3>2. Owed(k)' => Owed(k)
      BY <1>1, <2>1, <3>1 DEF Owed
    <3>3. ~ \E d \in todo : EvalFire(d)
      BY <2>4 DEF EvalFire, EvalFireFails, InsertAlert, db, TypeOK, TypeTable
    <3> QED BY <1>3, <2>1, <3>2, <3>3
  <2> QED BY <2>2, <2>3, <2>4
<1>8. CASE \E j \in URLKinds, v \in {0, 1} : StoreResult(j, v)
  <2> PICK j \in URLKinds, v \in {0, 1} : StoreResult(j, v)
    BY <1>8
  <2>1. /\ UNCHANGED <<active, todo, alerts>>
        /\ lastDown' = IF v = 1 THEN lastDown \cup {j} ELSE lastDown \ {j}
        /\ falls' = [falls EXCEPT ![j] = IF v = 1 /\ j \notin lastDown THEN @ + 1 ELSE @]
    BY DEF StoreResult, collector, db
  <2>2. Cardinality(RowsOf(k))' = Cardinality(RowsOf(k))
    BY <2>1 DEF RowsOf
  <2>3. \A w : Measures(k, w)' <=> Measures(k, w)
    BY <2>1 DEF Measures
  <2>4. falls'[k] = IF k = j /\ v = 1 /\ k \notin lastDown THEN falls[k] + 1 ELSE falls[k]
    BY <2>1 DEF TypeOK, TypeEnv
  <2>5. CASE falls'[k] = falls[k] + 1
    BY <1>1, <1>2, <2>2, <2>5 DEF Settled
  <2>6. CASE falls'[k] = falls[k]
    <3>1. k \in lastDown' => k \in lastDown
      BY <1>2, <2>1, <2>4, <2>6
    <3>2. Owed(k)' => Owed(k)
      BY <2>1, <2>3, <3>1 DEF Owed
    <3> QED BY <1>1, <2>2, <2>6, <3>2 DEF Settled
  <2> QED BY <2>4, <2>5, <2>6
<1>9. CASE EvalStart \/ EvalReturn \/ Publish
  BY <1>4, <1>9
     DEF EvalStart, EvalReturn, Publish, EvalFire, InsertAlert, db, env, TypeOK, TypeTable
<1>10. CASE \/ \E p \in Putters, j \in Keys, v \in Levels : SetThreshold(p, j, v)
            \/ \E p \in Putters : UpdateThreshold(p)
  BY <1>4, <1>10
     DEF SetThreshold, UpdateThreshold, EvalFire, InsertAlert, db, env, collector, TypeOK,
         TypeTable
<1>11. CASE \/ \E id \in DOMAIN alerts : AcknowledgeAlert(id)
            \/ \E old \in SUBSET {i \in DOMAIN alerts : Purgeable(i)} : Purge(old)
  BY <1>4, <1>11
     DEF AcknowledgeAlert, Purge, EvalFire, InsertAlert, env, collector, TypeOK, TypeTable
<1>12. CASE \/ \E j \in Kinds, v \in Levels : MetricMoves(j, v)
            \/ \E j \in DiskKinds : Mount(j) \/ Unmount(j)
            \/ \E j \in URLKinds : NewSummary(j) \/ RemoveSummary(j)
  <2>1. /\ UNCHANGED <<active, todo, falls, alerts, nextId>>
        /\ k \in lastDown' => k \in lastDown
    BY <1>12 DEF MetricMoves, Mount, Unmount, NewSummary, RemoveSummary, Change, db, collector
  <2>2. ~ \E c \in todo : EvalFire(c)
    BY <2>1 DEF EvalFire, InsertAlert, TypeOK, TypeTable
  <2> QED BY <1>4, <2>1, <2>2
<1>13. CASE UNCHANGED vars
  BY <1>4, <1>13 DEF vars, EvalFire, InsertAlert, TypeOK, TypeTable
<1> QED
  BY <1>5, <1>6, <1>7, <1>8, <1>9, <1>10, <1>11, <1>12, <1>13 DEF Next

LEMMA InitFallInv == Init => FallInv
<1> SUFFICES ASSUME Init PROVE FallInv
  OBVIOUS
<1>1. TypeOK /\ BusyOnlyWhenUp
  BY InitTypeOK DEF Init, BusyOnlyWhenUp
<1>2. PassMeasures /\ ResultsGoneWhenDown
  BY DEF Init, PassMeasures, ResultsGoneWhenDown
<1>3. lastDown = {} /\ \A k \in URLKinds : falls[k] = 0
  BY DEF Init
<1>4. \A k, v : ~Measures(k, v) /\ RowsOf(k) = {}
  BY DEF Init, Measures, RowsOf
<1>5. Accounted
  BY <1>3, <1>4, FS_EmptySet DEF Accounted, Settled, Owed
<1> QED
  BY <1>1, <1>2, <1>5 DEF FallInv

(* However old the measurement a pass works on, whichever reads and writes   *)
(* fail half-way, whether results are true or cut-off probes, and whatever   *)
(* summaries, rows and processes go and come back in between: a URL check    *)
(* has at most one row for every DOWN result that replaced another one or    *)
(* none.  A restart, or a summary made again by an edit, adds a row only     *)
(* with a DOWN result of its own (run alert_restart_flap shows that it does  *)
(* happen, although alerts.go:50 promises otherwise).                        *)
THEOREM OneRowPerFallHolds == Spec => []OneRowPerFall
<1>1. FallInv /\ [Next]_vars => FallInv'
  BY NextTypeOK, NextBusyOnlyWhenUp, NextResultsGoneWhenDown, NextPassMeasures, NextAccounted
     DEF FallInv
<1>2. FallInv => OneRowPerFall
  BY DEF FallInv, Accounted, Settled, RowsOf, OneRowPerFall
<1> QED
  BY InitFallInv, <1>1, <1>2, PTL DEF Spec
=============================================================================
