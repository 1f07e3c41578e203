-------------------------- MODULE DashboardProofs ---------------------------
(* Proofs about Dashboard, for every value of its constants. *)
EXTENDS Dashboard, TLAPS

-----------------------------------------------------------------------------
(* What is in a queue after its ends have moved. *)

LEMMA Enqueue ==
  ASSUME NEW S, NEW q \in Seq(S), NEW e \in S
  PROVE  /\ Append(q, e) \in Seq(S)
         /\ Len(Append(q, e)) = Len(q) + 1 /\ Len(q) \in Nat
         /\ Append(q, e) # <<>>
         /\ \A i \in 1..Len(q) : Append(q, e)[i] = q[i]
         /\ Append(q, e)[Len(q) + 1] = e
  OBVIOUS

LEMMA Dequeue ==
  ASSUME NEW S, NEW q \in Seq(S), q # <<>>
  PROVE  /\ Tail(q) \in Seq(S) /\ Head(q) \in S /\ Head(q) = q[1]
         /\ Len(Tail(q)) = Len(q) - 1 /\ Len(q) \in Nat \ {0}
         /\ \A i \in 1..(Len(q) - 1) : Tail(q)[i] = q[i + 1]
  OBVIOUS

LEMMA EnqueueRange ==
  ASSUME NEW S, NEW q \in Seq(S), NEW e \in S
  PROVE  Range(Append(q, e)) = Range(q) \cup {e}
  BY Enqueue DEF Range

LEMMA DequeueRange ==
  ASSUME NEW S, NEW q \in Seq(S), q # <<>>
  PROVE  Range(q) = Range(Tail(q)) \cup {Head(q)}
<1>1. \A i \in DOMAIN q : i = 1 \/ (i - 1 \in DOMAIN Tail(q) /\ q[i] = Tail(q)[i - 1])
  BY Dequeue
<1>2. \A i \in DOMAIN Tail(q) : i + 1 \in DOMAIN q /\ q[i + 1] = Tail(q)[i]
  BY Dequeue
<1>3. 1 \in DOMAIN q /\ q[1] = Head(q)
  BY Dequeue
<1> QED
  BY <1>1, <1>2, <1>3 DEF Range

LEMMA EnqueueAlerts ==
  ASSUME NEW S, NEW q \in Seq(S), NEW e \in S
  PROVE  Alerts(Append(q, e)) = Alerts(q) \cup (IF e.type = "alert" THEN {e.id} ELSE {})
<1>1. DOMAIN Append(q, e) = DOMAIN q \cup {Len(q) + 1}
  BY Enqueue
<1>2. \A i \in DOMAIN q : Append(q, e)[i] = q[i]
  BY Enqueue
<1>3. Append(q, e)[Len(q) + 1] = e
  BY Enqueue
<1> QED
  BY <1>1, <1>2, <1>3 DEF Alerts

LEMMA DequeueAlerts ==
  ASSUME NEW S, NEW q \in Seq(S), q # <<>>
  PROVE  Alerts(q) = Alerts(Tail(q)) \cup (IF Head(q).type = "alert" THEN {Head(q).id} ELSE {})
<1>1. \A i \in DOMAIN q : i = 1 \/ (i - 1 \in DOMAIN Tail(q) /\ q[i] = Tail(q)[i - 1])
  BY Dequeue
<1>2. \A i \in DOMAIN Tail(q) : i + 1 \in DOMAIN q /\ q[i + 1] = Tail(q)[i]
  BY Dequeue
<1>3. 1 \in DOMAIN q /\ q[1] = Head(q)
  BY Dequeue
<1>4. ASSUME NEW i \in DOMAIN q, q[i].type = "alert"
      PROVE  q[i].id \in Alerts(Tail(q)) \cup (IF Head(q).type = "alert" THEN {Head(q).id} ELSE {})
  BY <1>1, <1>3, <1>4 DEF Alerts
<1>5. Alerts(Tail(q)) \subseteq Alerts(q)
  BY <1>2 DEF Alerts
<1>6. Head(q).type = "alert" => Head(q).id \in Alerts(q)
  BY <1>3 DEF Alerts
<1> QED
  BY <1>4, <1>5, <1>6 DEF Alerts

LEMMA EnqueueAlert ==
  ASSUME NEW S, NEW q \in Seq(S), NEW e \in S, e.type # "url_result", NEW n
  PROVE  /\ Results(Append(q, e)) = Results(q)
         /\ NewestSent(q, n) => NewestSent(Append(q, e), n)
<1>1. DOMAIN Append(q, e) = DOMAIN q \cup {Len(q) + 1}
  BY Enqueue
<1>2. \A i \in DOMAIN q : Append(q, e)[i] = q[i]
  BY Enqueue
<1>3. Append(q, e)[Len(q) + 1] = e
  BY Enqueue
<1>4. Results(Append(q, e)) = Results(q)
  BY <1>1, <1>2, <1>3 DEF Results
<1> QED
  BY <1>2, <1>4 DEF NewestSent, Results

LEMMA EnqueueResult ==
  ASSUME NEW S, NEW q \in Seq(S), NEW e \in S, e.type = "url_result"
  PROVE  /\ Results(Append(q, e)) # {}
         /\ NewestSent(Append(q, e), e.id)
<1>1. DOMAIN Append(q, e) = 1..(Len(q) + 1) /\ Append(q, e)[Len(q) + 1] = e /\ Len(q) \in Nat
  BY Enqueue
<1>2. Len(q) + 1 \in Results(Append(q, e))
  BY <1>1 DEF Results
<1>3. \A j \in Results(Append(q, e)) : j <= Len(q) + 1
  BY <1>1 DEF Results
<1> QED
  BY <1>1, <1>2, <1>3 DEF NewestSent

(* Every result but a result at the head moves up by one place. *)
LEMMA DequeueResults ==
  ASSUME NEW S, NEW q \in Seq(S), q # <<>>, NEW n, NewestSent(q, n)
  PROVE  /\ Head(q).type # "url_result" => Results(Tail(q)) # {}
         /\ Results(Tail(q)) # {} => NewestSent(Tail(q), n)
         /\ Results(Tail(q)) = {} => Head(q).id = n
<1>1. /\ Results(q) \subseteq 1..Len(q) /\ Len(q) \in Nat
      /\ Results(Tail(q)) \subseteq 1..(Len(q) - 1)
      /\ Head(q) = q[1]
  BY Dequeue DEF Results
<1>2. \A i \in Results(q) : i # 1 => i - 1 \in Results(Tail(q)) /\ Tail(q)[i - 1] = q[i]
  BY Dequeue DEF Results
<1>3. \A i \in Results(Tail(q)) : i + 1 \in Results(q)
  BY Dequeue DEF Results
<1> PICK m \in Results(q) : q[m].id = n /\ \A j \in Results(q) : j <= m
  BY DEF NewestSent
<1>4. CASE m = 1
  <2>1. Results(Tail(q)) = {}
    BY <1>1, <1>3, <1>4
  <2>2. Head(q).type = "url_result"
    BY <1>1, <1>4 DEF Results
  <2> QED BY <1>1, <1>4, <2>1, <2>2
<1>5. CASE m # 1
  <2>1. m - 1 \in Results(Tail(q)) /\ Tail(q)[m - 1].id = n
    BY <1>2, <1>5
  <2>2. \A j \in Results(Tail(q)) : j <= m - 1
    <3> TAKE j \in Results(Tail(q))
    <3>1. j + 1 \in Results(q)
      BY <1>3
    <3>2. j + 1 <= m /\ j \in Int /\ m \in Int
      BY <1>1, <3>1
    <3> QED BY <3>2
  <2>3. NewestSent(Tail(q), n)
    BY <2>1, <2>2 DEF NewestSent
  <2> QED BY <2>1, <2>3
<1> QED BY <1>4, <1>5

-----------------------------------------------------------------------------
(* Type correctness, one part at a time. *)

LEMMA NextTypeServer == TypeOK /\ [Next]_vars => TypeServer'
<1> SUFFICES ASSUME TypeOK, [Next]_vars
             PROVE  TypeServer'
  OBVIOUS
<1> USE DashboardAssumption DEF TypeServer
<1>0. TypeServer
  BY DEF TypeOK
<1>f. ASSUME Fault PROVE faults' \in 0..MaxFaults
  BY <1>0, <1>f DEF Fault
<1>1. ASSUME UNCHANGED <<active, nextId, fired, summary, unsent, probes, resultCh>>,
             srv' \in {"up", "stopping", "down"}, faults' = faults \/ Fault
      PROVE  TypeServer'
  BY <1>0, <1>f, <1>1
<1>2. CASE Fire
  <2>1. nextId \in 1..MaxAlerts /\ fired' \in Seq(1..MaxAlerts)
    BY <1>0, <1>2 DEF Fire
  <2>2. nextId' = nextId + 1 /\ active' = active \cup {nextId}
    BY <1>2 DEF Fire
  <2>3. nextId' \in 1..(MaxAlerts + 1) /\ active' \subseteq 1..(nextId' - 1)
    BY <1>0, <2>1, <2>2
  <2>4. UNCHANGED <<srv, summary, unsent, resultCh, probes, faults>>
    BY <1>2 DEF Fire, results
  <2> QED BY <1>0, <2>1, <2>3, <2>4
<1>3. CASE BroadcastAlert
  <2>1. fired' \in Seq(1..MaxAlerts)
    BY <1>0, <1>3, Dequeue DEF BroadcastAlert
  <2> QED BY <1>0, <1>3, <2>1 DEF BroadcastAlert, table, results
<1>4. CASE \E id \in active : Resolve(id)
  BY <1>0, <1>4 DEF Resolve, results
<1>5. CASE StoreResult
  <2>1. probes' \in 1..MaxProbes /\ summary' \in 0..probes' /\ unsent' \subseteq 1..probes'
    BY <1>0, <1>5 DEF StoreResult
  <2> QED BY <1>0, <1>5, <2>1 DEF StoreResult, table
<1>12. CASE \E n \in unsent : SendResult(n)
  <2> PICK n \in unsent : SendResult(n)
    BY <1>12
  <2>1. n \in 1..MaxProbes
    BY <1>0
  <2>2. resultCh' \in Seq(1..MaxProbes) /\ Len(resultCh') <= ResultCap
    <3>1. CASE Len(resultCh) < ResultCap
      <4>1. resultCh' = Append(resultCh, n)
        BY <3>1 DEF SendResult
      <4> QED BY <1>0, <2>1, <3>1, <4>1, Enqueue
    <3>2. CASE ~(Len(resultCh) < ResultCap)
      BY <1>0, <3>2 DEF SendResult
    <3> QED BY <3>1, <3>2
  <2>3. unsent' \subseteq unsent
    BY DEF SendResult
  <2> QED BY <1>0, <2>2, <2>3 DEF SendResult, table
<1>6. CASE RelayURLResult
  <2>1. resultCh' \in Seq(1..MaxProbes) /\ Len(resultCh') <= ResultCap
    BY <1>0, <1>6, Dequeue DEF RelayURLResult
  <2> QED BY <1>0, <1>6, <2>1 DEF RelayURLResult, table
<1>7. CASE Exit \/ GiveUp \/ Crash
  <2>1. /\ srv' = "down" /\ fired' = <<>> /\ summary' = 0 /\ unsent' = {} /\ resultCh' = <<>>
        /\ UNCHANGED <<active, nextId, probes>>
    BY <1>7 DEF Exit, GiveUp, Crash, MemoryLost, table
  <2>2. faults' \in 0..MaxFaults
    BY <1>0, <1>f, <1>7 DEF Exit, GiveUp, Crash
  <2> QED BY <1>0, <2>1, <2>2
<1>8. CASE Signal \/ Boot \/ AnswerAlerts \/ AnswerURLs \/ Loaded \/ Reload
  BY <1>0, <1>1, <1>8
     DEF Signal, Boot, AnswerAlerts, AnswerURLs, Loaded, Reload, Fails, table, results
<1>9. CASE Connect \/ Break \/ OnError \/ Reconnect \/ OnEvent \/ Beat
  BY <1>0, <1>1, <1>9
     DEF Connect, Break, OnError, Reconnect, OnEvent, Beat, table, results
<1>10. CASE Acknowledged \/ \E ids : Acknowledge(ids)
  BY <1>0, <1>1, <1>10 DEF Acknowledge, Acknowledged, Fails, table, results
<1>11. CASE UNCHANGED vars
  BY <1>0, <1>1, <1>11 DEF vars
<1> QED
  BY <1>2, <1>3, <1>4, <1>5, <1>6, <1>7, <1>8, <1>9, <1>10, <1>11, <1>12 DEF Next

LEMMA NextTypeStream == TypeOK /\ [Next]_vars => TypeStream'
<1> SUFFICES ASSUME TypeOK, [Next]_vars
             PROVE  TypeStream'
  OBVIOUS
<1> USE DashboardAssumption DEF TypeStream
<1>0. /\ TypeStream /\ fired \in Seq(1..MaxAlerts) /\ resultCh \in Seq(1..MaxProbes)
  BY DEF TypeOK, TypeServer
<1>1. ASSUME UNCHANGED <<es, live, reconnected, registered, stream>>
      PROVE  TypeStream'
  BY <1>0, <1>1
<1>2. ASSUME NEW e \in Event, stream' = IF Room THEN Append(stream, e) ELSE stream,
             UNCHANGED <<es, live, reconnected, registered>>
      PROVE  TypeStream'
  <2>1. stream' \in Seq(Event) /\ Len(stream') <= StreamCap
    BY <1>0, <1>2, Enqueue DEF Room
  <2> QED BY <1>0, <1>2, <2>1
<1>3. CASE BroadcastAlert
  <2>1. Head(fired) \in 1..MaxAlerts
    BY <1>0, <1>3, Dequeue DEF BroadcastAlert
  <2>2. [type |-> "alert", id |-> Head(fired)] \in Event
    BY <2>1 DEF Event
  <2> QED BY <1>2, <1>3, <2>2 DEF BroadcastAlert, connection
<1>4. CASE RelayURLResult
  <2>1. Head(resultCh) \in 1..MaxProbes
    BY <1>0, <1>4, Dequeue DEF RelayURLResult
  <2>2. [type |-> "url_result", id |-> Head(resultCh)] \in Event
    BY <2>1 DEF Event
  <2> QED BY <1>2, <1>4, <2>2 DEF RelayURLResult, connection
<1>5. ASSUME stream' = <<>>, registered' = FALSE,
             es' \in {"none", "connecting", "open", "waiting"},
             live' \in BOOLEAN, reconnected' \in BOOLEAN
      PROVE  TypeStream'
  <2>1. <<>> \in Seq(Event) /\ Len(<<>>) <= StreamCap
    OBVIOUS
  <2> QED BY <1>5, <2>1
<1>6. CASE Exit \/ GiveUp \/ Crash \/ Break
  BY <1>0, <1>5, <1>6 DEF Exit, GiveUp, Crash, Break, MemoryLost, connection
<1>7. CASE Reload
  BY <1>5, <1>7 DEF Reload
<1>8. CASE OnEvent
  <2>1. stream' \in Seq(Event) /\ Len(stream') <= StreamCap
    BY <1>0, <1>8, Dequeue DEF OnEvent
  <2> QED BY <1>0, <1>8, <2>1 DEF OnEvent
<1>9. CASE Connect \/ OnError \/ Reconnect \/ Beat \/ Loaded
  <2>1. UNCHANGED stream /\ es' \in {"none", "connecting", "open", "waiting"}
    BY <1>0, <1>9 DEF Connect, OnError, Reconnect, Beat, Loaded
  <2>2. registered' \in BOOLEAN /\ live' \in BOOLEAN
    BY <1>0, <1>9 DEF Connect, OnError, Reconnect, Beat, Loaded
  <2>3. reconnected' \in BOOLEAN
    BY <1>0, <1>9 DEF Connect, OnError, Reconnect, Beat, Loaded
  <2> QED BY <1>0, <2>1, <2>2, <2>3
<1> QED
  BY <1>1, <1>3, <1>4, <1>6, <1>7, <1>8, <1>9
     DEF Next, vars, connection, Fire, Resolve, StoreResult, SendResult, Signal, Boot, AnswerAlerts,
         AnswerURLs, Acknowledge, Acknowledged

LEMMA NextTypePage == TypeOK /\ [Next]_vars => TypePage'
<1> SUFFICES ASSUME TypeOK, [Next]_vars
             PROVE  TypePage'
  OBVIOUS
<1> USE DashboardAssumption DEF TypePage
<1>0. TypePage /\ stream \in Seq(Event)
  BY DEF TypeOK, TypeStream
<1>s. /\ active \subseteq 1..MaxAlerts /\ {summary} \subseteq 0..MaxProbes
  BY SMTT(30) DEF TypeOK, TypeServer
<1>1. ASSUME UNCHANGED <<page, alertsAnswer, urlsAnswer, shown, urlShown, acking>>
      PROVE  TypePage'
  BY <1>0, <1>1
<1>c. \A ids : Cards(ids) \in [1..MaxAlerts -> Nat]
  BY DEF Cards
<1>2. CASE AnswerAlerts
  <2>1. alertsAnswer' \in SUBSET (1..MaxAlerts)
    BY <1>s, <1>2 DEF AnswerAlerts
  <2> QED BY <1>0, <1>2, <2>1 DEF AnswerAlerts, screen
<1>3. CASE AnswerURLs
  <2>1. urlsAnswer' \in SUBSET (0..MaxProbes)
    BY <1>s, <1>3 DEF AnswerURLs
  <2> QED BY <1>0, <1>3, <2>1 DEF AnswerURLs, screen
<1>4. CASE Loaded
  <2>1. shown' \in [1..MaxAlerts -> Nat] /\ urlShown' \in SUBSET (0..MaxProbes)
    BY <1>0, <1>c, <1>4 DEF Loaded
  <2> QED BY <1>0, <1>4, <2>1 DEF Loaded
<1>5. CASE Reload
  <2>1. shown' \in [1..MaxAlerts -> Nat] /\ urlShown' \in SUBSET (0..MaxProbes)
    BY <1>c, <1>5 DEF Reload
  <2> QED BY <1>5, <2>1 DEF Reload
<1>6. CASE OnEvent
  <2> PICK e \in Event : e = Head(stream)
    BY <1>0, <1>6, Dequeue DEF OnEvent
  <2>1. UNCHANGED <<page, alertsAnswer, urlsAnswer, acking>>
    BY <1>6 DEF OnEvent, answers
  <2>2. CASE e.type = "alert" /\ OnAlert(e.id)
    <3>1. e.id \in 1..MaxAlerts
      BY <2>2 DEF Event
    <3>2. shown' \in [1..MaxAlerts -> Nat] /\ urlShown' = urlShown
      BY <1>0, <2>2, <3>1, SMTT(30) DEF OnAlert
    <3> QED BY <1>0, <2>1, <3>2
  <2>3. CASE e.type # "alert" /\ OnURLResult(e.id)
    <3>1. e.id \in 0..MaxProbes
      BY <2>3 DEF Event
    <3> QED BY <1>0, <2>1, <2>3, <3>1 DEF OnURLResult
  <2> QED BY <1>6, <2>2, <2>3 DEF OnEvent
<1>7. CASE \E ids \in {{id} : id \in Listed} \cup {Listed} : Acknowledge(ids)
  <2> PICK ids \in {{id} : id \in Listed} \cup {Listed} : Acknowledge(ids)
    BY <1>7
  <2>1. ids \subseteq 1..MaxAlerts
    BY DEF Listed
  <2>2. acking' = ids /\ UNCHANGED <<page, alertsAnswer, urlsAnswer, shown, urlShown>>
    BY DEF Acknowledge, answers
  <2> QED BY <1>0, <2>1, <2>2
<1>8. CASE Acknowledged
  <2>0. \/ shown' = [id \in 1..MaxAlerts |-> IF id \in acking THEN 0 ELSE shown[id]]
        \/ shown' = shown
    BY <1>8 DEF Acknowledged
  <2>s. shown \in [1..MaxAlerts -> Nat]
    BY <1>0
  <2>1. shown' \in [1..MaxAlerts -> Nat]
    BY ONLY <2>0, <2>s
  <2>2. UNCHANGED <<page, alertsAnswer, urlsAnswer, urlShown>> /\ acking' = None
    BY <1>8 DEF Acknowledged, answers
  <2> QED BY <1>0, <2>1, <2>2
<1> QED
  BY <1>1, <1>2, <1>3, <1>4, <1>5, <1>6, <1>7, <1>8
     DEF Next, vars, answers, screen, Fire, BroadcastAlert, Resolve, StoreResult, SendResult,
         RelayURLResult,
         Signal, Exit, GiveUp, Crash, MemoryLost, Boot, Connect, Break, OnError, Reconnect, Beat

LEMMA AlertIds ==
  ASSUME TypeOK
  PROVE  Range(fired) \subseteq 1..MaxAlerts /\ Alerts(stream) \subseteq 1..MaxAlerts
<1>1. fired \in Seq(1..MaxAlerts) /\ stream \in Seq(Event)
  BY DEF TypeOK, TypeServer, TypeStream
<1>2. \A i \in DOMAIN stream : stream[i] \in Event
  BY <1>1
<1>3. \A e \in Event : e.type = "alert" => e.id \in 1..MaxAlerts
  BY DEF Event
<1>4. Range(fired) \subseteq 1..MaxAlerts
  <2>1. ASSUME NEW S, NEW q \in Seq(S) PROVE \A i \in DOMAIN q : q[i] \in S
    OBVIOUS
  <2>2. \A i \in DOMAIN fired : fired[i] \in 1..MaxAlerts
    BY <1>1, <2>1
  <2> QED BY <2>2 DEF Range
<1>5. Alerts(stream) \subseteq 1..MaxAlerts
  BY <1>2, <1>3 DEF Alerts
<1> QED BY <1>4, <1>5

LEMMA NextTypeHistory == TypeOK /\ [Next]_vars => TypeHistory'
<1> SUFFICES ASSUME TypeOK, [Next]_vars
             PROVE  TypeHistory'
  OBVIOUS
<1> USE DEF TypeHistory
<1>0. TypeHistory
  BY DEF TypeOK
<1>1. ASSUME UNCHANGED <<missed, dismissed>>, missedResult' \in BOOLEAN
      PROVE  TypeHistory'
  BY <1>0, <1>1
<1>2. CASE BroadcastAlert
  <2>1. Head(fired) \in 1..MaxAlerts
    BY <1>2, Dequeue DEF BroadcastAlert, TypeOK, TypeServer
  <2>2. missed' \subseteq 1..MaxAlerts
    BY <1>0, <1>2, <2>1 DEF BroadcastAlert
  <2> QED BY <1>0, <1>2, <2>2 DEF BroadcastAlert, screen
<1>3. CASE Exit \/ GiveUp \/ Crash \/ Break
  <2>1. missed' \subseteq missed \cup Range(fired) \cup Alerts(stream) /\ dismissed' = dismissed
    BY <1>3 DEF Exit, GiveUp, Crash, Break, MemoryLost, screen
  <2>2. missed' \subseteq 1..MaxAlerts
    BY <1>0, <2>1, AlertIds
  <2>3. missedResult' \in BOOLEAN
    BY <1>3 DEF Exit, GiveUp, Crash, Break, MemoryLost
  <2> QED BY <1>0, <2>1, <2>2, <2>3
<1>4. CASE AnswerAlerts
  <2>1. active \subseteq 1..MaxAlerts
    BY DashboardAssumption DEF TypeOK, TypeServer
  <2>2. missed' \subseteq 1..MaxAlerts
    BY <1>4, <2>1 DEF AnswerAlerts
  <2> QED BY <1>0, <1>4, <2>2 DEF AnswerAlerts, screen
<1>5. CASE StoreResult \/ (\E n \in unsent : SendResult(n)) \/ RelayURLResult \/ AnswerURLs
  <2>1. missedResult' \in BOOLEAN
    BY <1>5, Zenon DEF StoreResult, SendResult, RelayURLResult, AnswerURLs, Outdated
  <2> QED BY <1>1, <1>5, <2>1 DEF StoreResult, SendResult, RelayURLResult, AnswerURLs, screen
<1>6. CASE Reload
  BY <1>0, <1>6 DEF Reload
<1>7. CASE Acknowledged
  <2>1. acking \in SUBSET (1..MaxAlerts)
    BY <1>7 DEF Acknowledged, TypeOK, TypePage
  <2>2. dismissed' \subseteq 1..MaxAlerts
    BY <1>0, <1>7, <2>1 DEF Acknowledged
  <2> QED BY <1>0, <1>7, <2>2 DEF Acknowledged
<1>8. ASSUME UNCHANGED <<missed, dismissed, missedResult>>
      PROVE  TypeHistory'
  BY <1>0, <1>8
<1> QED
  BY <1>2, <1>3, <1>4, <1>5, <1>6, <1>7, <1>8
     DEF Next, vars, screen, Fire, Resolve, Signal, Boot, Loaded, Connect, OnError, Reconnect,
         OnEvent, Beat, Acknowledge

LEMMA NextTypeOK == TypeOK /\ [Next]_vars => TypeOK'
  BY NextTypeServer, NextTypeStream, NextTypePage, NextTypeHistory DEF TypeOK

LEMMA InitTypeOK == Init => TypeOK
<1> SUFFICES ASSUME Init PROVE TypeOK
  OBVIOUS
<1> USE DashboardAssumption DEF Init
<1>1. TypeServer
  BY DEF TypeServer
<1>2. TypeStream
  <2>1. <<>> \in Seq(Event) /\ Len(<<>>) <= StreamCap
    OBVIOUS
  <2> QED BY <2>1 DEF TypeStream
<1>3. TypePage
  BY DEF TypePage, Cards
<1>4. TypeHistory
  BY DEF TypeHistory
<1> QED
  BY <1>1, <1>2, <1>3, <1>4 DEF TypeOK

(* In every reachable state the queues hold what they may hold and no more   *)
(* than their capacities (ResultCh, the client's channel), and what the page *)
(* lists are alerts and results of the server.                               *)
THEOREM TypeCorrect == Spec => []TypeOK
  BY InitTypeOK, NextTypeOK, PTL DEF Spec

-----------------------------------------------------------------------------
(* One card per alert. *)

LEMMA NextShownOnce == TypeOK /\ ShownOnce /\ [Next]_vars => ShownOnce'
<1> SUFFICES ASSUME TypeOK, ShownOnce, [Next]_vars
             PROVE  ShownOnce'
  OBVIOUS
<1> USE DEF ShownOnce, Listed
<1>0. shown \in [1..MaxAlerts -> Nat]
  BY DEF TypeOK, TypePage
<1>1. ASSUME shown' = shown PROVE ShownOnce'
  BY <1>1
<1>2. CASE Loaded \/ Reload
  <2>1. \E ids : shown' = Cards(ids)
    BY <1>2 DEF Loaded, Reload
  <2>2. \A id \in 1..MaxAlerts : shown'[id] = 0 \/ shown'[id] = 1
    BY <2>1 DEF Cards
  <2> QED BY <2>2
<1>3. CASE OnEvent
  <2>1. \/ shown' = shown
        \/ \E id : OnAlert(id)
    BY <1>3 DEF OnEvent, OnURLResult
  <2>2. ASSUME NEW id, OnAlert(id) PROVE ShownOnce'
    BY <1>0, <2>2 DEF OnAlert
  <2> QED BY <1>1, <2>1, <2>2
<1>4. CASE Acknowledged
  <2>1. \A id \in 1..MaxAlerts : shown'[id] = 0 \/ shown'[id] = shown[id]
    BY <1>4 DEF Acknowledged
  <2> QED BY <2>1
<1> QED
  BY <1>1, <1>2, <1>3, <1>4
     DEF Next, vars, screen, Fire, BroadcastAlert, Resolve, StoreResult, SendResult,
         RelayURLResult, Signal,
         Exit, GiveUp, Crash, MemoryLost, Boot, AnswerAlerts, AnswerURLs, Connect, Break, OnError,
         Reconnect, Beat, Acknowledge

(* However the answer of the load, the events of the stream, reconnects and  *)
(* acknowledging interleave, no alert has two cards on the page.             *)
THEOREM ShownOnceHolds == Spec => []ShownOnce
<1>1. Init => ShownOnce
  BY DEF Init, ShownOnce, Listed, Cards
<1> QED
  BY <1>1, InitTypeOK, NextTypeOK, NextShownOnce, PTL DEF Spec

-----------------------------------------------------------------------------
(* The stream belongs to a loaded page. *)

StreamOfLoaded ==
  /\ ~registered => stream = <<>>
  /\ page = "loading" => es = "none" /\ ~registered

LEMMA NextStreamOfLoaded == TypeOK /\ StreamOfLoaded /\ [Next]_vars => StreamOfLoaded'
<1> SUFFICES ASSUME TypeOK, StreamOfLoaded, [Next]_vars
             PROVE  StreamOfLoaded'
  OBVIOUS
<1> USE DEF StreamOfLoaded
<1>1. ASSUME UNCHANGED <<registered, stream, page, es>> PROVE StreamOfLoaded'
  BY <1>1
<1>2. CASE BroadcastAlert \/ RelayURLResult
  BY <1>2 DEF BroadcastAlert, RelayURLResult, Room, connection
<1>3. CASE Exit \/ GiveUp \/ Crash \/ Break
  BY <1>3 DEF Exit, GiveUp, Crash, Break, MemoryLost, connection
<1>4. CASE Loaded \/ Reload
  BY <1>4 DEF Loaded, Reload
<1>5. CASE Connect \/ OnError \/ Reconnect \/ OnEvent \/ Beat
  BY <1>5 DEF Connect, OnError, Reconnect, OnEvent, Beat
<1> QED
  BY <1>1, <1>2, <1>3, <1>4, <1>5
     DEF Next, vars, connection, Fire, Resolve, StoreResult, SendResult, Signal, Boot, AnswerAlerts,
         AnswerURLs, Acknowledge, Acknowledged

-----------------------------------------------------------------------------
(* No alert falls between the answer of the load and the stream.  What the   *)
(* page will list is in the answer until Loaded, so the invariant speaks of  *)
(* the answer too: an alert fired after it and before the page is registered *)
(* is not sent, and counts as missed.                                        *)

UnderWay == missed \cup Range(fired) \cup Alerts(stream)

AnswerCurrent ==
  page = "loading" /\ alertsAnswer # None => active \subseteq alertsAnswer \cup UnderWay

(* An alert that is under way stays so until it arrives. *)
LEMMA StaysUnderWay ==
  ASSUME TypeOK, [Next]_vars, ~AnswerAlerts, ~Reload, ~OnEvent
  PROVE  UnderWay \subseteq UnderWay'
<1>t. fired \in Seq(1..MaxAlerts) /\ stream \in Seq(Event) /\ resultCh \in Seq(1..MaxProbes)
  BY DEF TypeOK, TypeServer, TypeStream
<1>1. ASSUME UNCHANGED <<missed, fired, stream>> PROVE UnderWay \subseteq UnderWay'
  BY <1>1 DEF UnderWay
<1>2. CASE Fire
  <2>1. nextId \in 1..MaxAlerts
    BY <1>2, DashboardAssumption DEF Fire, TypeOK, TypeServer
  <2>2. fired' = Append(fired, nextId) /\ UNCHANGED <<missed, stream>>
    BY <1>2 DEF Fire
  <2>3. Range(Append(fired, nextId)) = Range(fired) \cup {nextId}
    <3>1. ASSUME NEW S, fired \in Seq(S), nextId \in S
          PROVE  Range(Append(fired, nextId)) = Range(fired) \cup {nextId}
      BY <3>1, EnqueueRange
    <3> QED BY <1>t, <2>1, <3>1
  <2> QED BY <2>2, <2>3 DEF UnderWay
<1>3. CASE BroadcastAlert
  <2>1. Range(fired) = Range(fired') \cup {Head(fired)} /\ Head(fired) \in 1..MaxAlerts
    BY <1>t, <1>3, DequeueRange, Dequeue DEF BroadcastAlert
  <2>2. CASE Room
    <3>1. [type |-> "alert", id |-> Head(fired)] \in Event
      BY <2>1 DEF Event
    <3>2. stream' = Append(stream, [type |-> "alert", id |-> Head(fired)]) /\ missed' = missed
      BY <1>3, <2>2 DEF BroadcastAlert
    <3>3. Alerts(stream') = Alerts(stream) \cup {Head(fired)}
      BY <1>t, <3>1, <3>2, EnqueueAlerts
    <3> QED BY <2>1, <3>2, <3>3 DEF UnderWay
  <2>3. CASE ~Room
    <3>1. stream' = stream /\ missed' = missed \cup {Head(fired)}
      BY <1>3, <2>3 DEF BroadcastAlert
    <3> QED BY <2>1, <3>1 DEF UnderWay
  <2> QED BY <2>2, <2>3
<1>4. CASE RelayURLResult
  <2>1. Head(resultCh) \in 1..MaxProbes
    BY <1>t, <1>4, Dequeue DEF RelayURLResult
  <2> PICK e \in Event : e = [type |-> "url_result", id |-> Head(resultCh)]
    BY <2>1 DEF Event
  <2>2. Alerts(stream') = Alerts(stream)
    <3>1. stream' = stream \/ stream' = Append(stream, e)
      BY <1>4 DEF RelayURLResult
    <3>2. e.type # "alert"
      OBVIOUS
    <3>3. Alerts(Append(stream, e)) = Alerts(stream) \cup {}
      BY <1>t, <3>2, EnqueueAlerts, Zenon
    <3> QED BY <3>1, <3>3
  <2> QED BY <1>4, <2>2 DEF RelayURLResult, UnderWay
<1>5. CASE Exit \/ GiveUp \/ Crash
  BY <1>5 DEF Exit, GiveUp, Crash, MemoryLost, UnderWay
<1>6. CASE Break
  BY <1>6 DEF Break, UnderWay
<1> QED
  BY <1>1, <1>2, <1>3, <1>4, <1>5, <1>6
     DEF Next, vars, Resolve, StoreResult, SendResult, Signal, Boot, AnswerURLs, Loaded, Connect,
         OnError,
         Reconnect, Beat, Acknowledge, Acknowledged

LEMMA Arrives ==
  ASSUME TypeOK, OnEvent
  PROVE  UnderWay \subseteq UnderWay' \cup Listed'
<1>t. stream \in Seq(Event)
  BY DEF TypeOK, TypeStream
<1> PICK e \in Event : e = Head(stream)
  BY <1>t, Dequeue DEF OnEvent
<1>1. Alerts(stream) = Alerts(stream') \cup (IF e.type = "alert" THEN {e.id} ELSE {})
  BY <1>t, DequeueAlerts DEF OnEvent
<1>2. UNCHANGED <<missed, fired>>
  BY DEF OnEvent
<1>3. CASE e.type = "alert"
  <2>1. e.id \in 1..MaxAlerts /\ shown \in [1..MaxAlerts -> Nat]
    BY <1>3 DEF Event, TypeOK, TypePage
  <2>2. OnAlert(e.id)
    BY <1>3 DEF OnEvent
  <2>3. e.id \in Listed'
    BY <2>1, <2>2 DEF OnAlert, Listed
  <2> QED BY <1>1, <1>2, <2>3 DEF UnderWay
<1>4. CASE e.type # "alert"
  BY <1>1, <1>2, <1>4 DEF UnderWay
<1> QED BY <1>3, <1>4

(* A row is new only when its alert is about to be broadcast. *)
LEMMA NewIsUnderWay ==
  ASSUME TypeOK, [Next]_vars
  PROVE  active' \subseteq active \cup UnderWay'
<1>1. CASE Fire
  <2>1. nextId \in 1..MaxAlerts /\ fired \in Seq(1..MaxAlerts)
    BY <1>1, DashboardAssumption DEF Fire, TypeOK, TypeServer
  <2>2. ASSUME NEW S, fired \in Seq(S), nextId \in S
        PROVE  nextId \in Range(Append(fired, nextId))
    BY <2>2, EnqueueRange
  <2>3. nextId \in Range(fired')
    BY <1>1, <2>1, <2>2 DEF Fire
  <2> QED BY <1>1, <2>3 DEF Fire, UnderWay
<1> QED
  BY <1>1
     DEF Next, vars, table, BroadcastAlert, Resolve, StoreResult, SendResult, RelayURLResult,
         Signal, Exit,
         GiveUp, Crash, MemoryLost, Boot, AnswerAlerts, AnswerURLs, Loaded, Reload, Connect, Break,
         OnError, Reconnect, OnEvent, Beat, Acknowledge, Acknowledged

(* A card goes only when its alert is acknowledged. *)
LEMMA CardsStay ==
  ASSUME TypeOK, [Next]_vars, page = "loaded", ~Reload
  PROVE  Listed \cup dismissed \subseteq Listed' \cup dismissed'
<1>0. shown \in [1..MaxAlerts -> Nat]
  BY DEF TypeOK, TypePage
<1>1. ASSUME UNCHANGED <<shown, dismissed>>
      PROVE  Listed \cup dismissed \subseteq Listed' \cup dismissed'
  BY <1>1 DEF Listed
<1>2. CASE OnEvent
  <2>1. shown' = shown \/ \E id : OnAlert(id)
    BY <1>2 DEF OnEvent, OnURLResult
  <2>2. dismissed' = dismissed
    BY <1>2 DEF OnEvent
  <2>3. ASSUME NEW id, OnAlert(id) PROVE Listed \subseteq Listed'
    BY <1>0, <2>3 DEF OnAlert, Listed
  <2> QED BY <1>1, <2>1, <2>2, <2>3
<1>3. CASE Acknowledged
  <2>1. CASE UNCHANGED <<shown, dismissed>>
    BY <1>1, <2>1
  <2>2. CASE /\ shown' = [id \in 1..MaxAlerts |-> IF id \in acking THEN 0 ELSE shown[id]]
             /\ dismissed' = dismissed \cup acking
    BY <2>2 DEF Listed
  <2> QED BY <1>3, <2>1, <2>2 DEF Acknowledged
<1> QED
  BY <1>1, <1>2, <1>3
     DEF Next, vars, screen, Fire, BroadcastAlert, Resolve, StoreResult, SendResult,
         RelayURLResult, Signal,
         Exit, GiveUp, Crash, MemoryLost, Boot, AnswerAlerts, AnswerURLs, Loaded, Connect, Break,
         OnError, Reconnect, Beat, Acknowledge

AlertsInv == TypeOK /\ StreamOfLoaded /\ AnswerCurrent /\ AlertsCurrent

LEMMA NextAlertsInv == AlertsInv /\ [Next]_vars => AlertsInv'
<1> SUFFICES ASSUME AlertsInv, [Next]_vars
             PROVE  AnswerCurrent' /\ AlertsCurrent'
  BY NextTypeOK, NextStreamOfLoaded DEF AlertsInv
<1> USE DEF AlertsInv
<1>1. CASE AnswerAlerts
  <2>1. /\ page' = "loading" /\ active' = active
        /\ active \subseteq alertsAnswer' \cup missed'
    BY <1>1 DEF AnswerAlerts, table
  <2> QED BY <2>1 DEF AnswerCurrent, AlertsCurrent, UnderWay
<1>2. CASE Reload
  BY <1>2 DEF Reload, AnswerCurrent, AlertsCurrent
<1>3. CASE Loaded
  <2>1. alertsAnswer \in SUBSET (1..MaxAlerts)
    BY <1>3 DEF Loaded, TypeOK, TypePage
  <2>2. Listed' = alertsAnswer
    <3>1. \A id \in 1..MaxAlerts : shown'[id] = IF id \in alertsAnswer THEN 1 ELSE 0
      BY <1>3 DEF Loaded, Cards
    <3>2. \A id \in 1..MaxAlerts : shown'[id] > 0 <=> id \in alertsAnswer
      BY <3>1
    <3> QED BY <2>1, <3>2 DEF Listed
  <2>3. active \subseteq alertsAnswer \cup UnderWay
    BY <1>3 DEF Loaded, AnswerCurrent
  <2>4. page' = "loaded" /\ UNCHANGED <<active, missed, fired, stream>>
    BY <1>3 DEF Loaded, table
  <2> QED BY <2>2, <2>3, <2>4 DEF AnswerCurrent, AlertsCurrent, UnderWay
<1>4. CASE ~AnswerAlerts /\ ~Reload /\ ~Loaded
  <2>1. page' = page /\ alertsAnswer' = alertsAnswer
    BY <1>4
       DEF Next, vars, answers, Fire, BroadcastAlert, Resolve, StoreResult, SendResult,
           RelayURLResult,
           Signal, Exit, GiveUp, Crash, MemoryLost, Boot, AnswerURLs, Connect, Break, OnError,
           Reconnect, OnEvent, Beat, Acknowledge, Acknowledged
  <2>2. active' \subseteq active \cup UnderWay'
    BY NewIsUnderWay
  <2>3. CASE page = "loading"
    <3>1. ~OnEvent
      BY <2>3 DEF OnEvent, StreamOfLoaded
    <3>2. UnderWay \subseteq UnderWay'
      BY <1>4, <3>1, StaysUnderWay
    <3> QED BY <2>1, <2>2, <2>3, <3>2 DEF AnswerCurrent, AlertsCurrent
  <2>4. CASE page = "loaded"
    <3>1. UnderWay \subseteq UnderWay' \cup Listed'
      BY <1>4, StaysUnderWay, Arrives
    <3>2. Listed \cup dismissed \subseteq Listed' \cup dismissed'
      BY <1>4, <2>4, CardsStay
    <3>3. active \subseteq Listed \cup dismissed \cup UnderWay
      BY <2>4 DEF AlertsCurrent, UnderWay
    <3>4. active' \subseteq Listed' \cup dismissed' \cup UnderWay'
      BY <2>2, <3>1, <3>2, <3>3
    <3> QED BY <2>1, <2>4, <3>4 DEF AnswerCurrent, AlertsCurrent, UnderWay
  <2> QED BY <2>3, <2>4 DEF TypeOK, TypePage
<1> QED BY <1>1, <1>2, <1>3, <1>4

(* Whatever the order of firing, broadcasting, answering, connecting and     *)
(* acknowledging, and through signals, crashes, broken connections and       *)
(* reloads: an unresolved alert is on a loaded page, was acknowledged there, *)
(* is under way, or is one the server had nobody to send to since the page   *)
(* asked.                                                                    *)
THEOREM AlertsCurrentHolds == Spec => []AlertsCurrent
<1>1. Init => AlertsInv
  BY InitTypeOK DEF Init, AlertsInv, StreamOfLoaded, AnswerCurrent, AlertsCurrent
<1>2. AlertsInv => AlertsCurrent
  BY DEF AlertsInv
<1> QED
  BY <1>1, <1>2, NextAlertsInv, PTL DEF Spec

-----------------------------------------------------------------------------
(* The page is never left with an older result than the server's while the   *)
(* newest one is neither under way nor known to be lost.  The answer of the  *)
(* load carries the claim until Loaded, as for the alerts; it holds because  *)
(* ResultCh is a queue: what is sent last is its last element.               *)

AnsweredNewest ==
  page = "loading" /\ urlsAnswer # None /\ urlsAnswer # {} /\ ~missedResult => Newest(urlsAnswer)

LEMMA EmptyHasNone == Results(<<>>) = {}
  BY DEF Results

LEMMA TailHasNone ==
  ASSUME NEW S, NEW q \in Seq(S), q # <<>>, Results(q) = {}
  PROVE  Results(Tail(q)) = {}
<1>1. \A i \in DOMAIN Tail(q) : i + 1 \in DOMAIN q /\ q[i + 1] = Tail(q)[i]
  BY Dequeue
<1> QED BY <1>1 DEF Results

(* Short of an arrival and of a loss, the newest result stays where it was  *)
(* or moves on towards the page.                                            *)
LEMMA StaysNewest ==
  ASSUME TypeOK, [Next]_vars, ~OnEvent, ~AnswerURLs, ~Reload, ~StoreResult, ~missedResult',
         NEW r, Newest(r)
  PROVE  Newest(r)'
<1>t. /\ fired \in Seq(1..MaxAlerts) /\ stream \in Seq(Event) /\ resultCh \in Seq(1..MaxProbes)
      /\ probes \in 0..MaxProbes
  BY DEF TypeOK, TypeServer, TypeStream
<1>1. ASSUME UNCHANGED <<unsent, resultCh, stream, summary>> PROVE Newest(r)'
  BY <1>1 DEF Newest
<1>2. CASE \E n \in unsent : SendResult(n)
  <2> PICK n \in unsent : SendResult(n)
    BY <1>2
  <2>0. n \in 1..MaxProbes /\ unsent' = unsent \ {n} /\ UNCHANGED <<summary, stream>>
    BY DashboardAssumption DEF SendResult, TypeOK, TypeServer
  <2>1. CASE n = summary
    <3>1. Len(resultCh) < ResultCap
      BY <2>1 DEF SendResult
    <3>2. resultCh' = Append(resultCh, n)
      BY <3>1 DEF SendResult
    <3>q. resultCh \in Seq(1..MaxProbes) /\ n \in 1..MaxProbes
      BY <1>t, <2>0
    <3>3. resultCh' # <<>> /\ Last(resultCh') = n
      BY ONLY <3>q, <3>2 DEF Last
    <3>4. summary' \notin unsent' /\ Last(resultCh') = summary'
      BY <2>0, <2>1, <3>3
    <3> QED BY <3>3, <3>4 DEF Newest
  <2>2. CASE n # summary /\ summary \in unsent
    BY <2>0, <2>2 DEF Newest
  <2>3. CASE n # summary /\ summary \notin unsent
    <3>1. resultCh' = resultCh
      BY <2>3 DEF SendResult
    <3> QED BY <2>0, <2>3, <3>1 DEF Newest
  <2> QED BY <2>1, <2>2, <2>3
<1>3. CASE RelayURLResult
  <2>0. resultCh # <<>> /\ resultCh' = Tail(resultCh) /\ summary' = summary
    BY <1>3 DEF RelayURLResult
  <2>u. CASE summary \in unsent
    BY <1>3, <2>u DEF RelayURLResult, Newest
  <2> SUFFICES ASSUME summary \notin unsent PROVE Newest(r)'
    BY <2>u
  <2>1. /\ Last(resultCh) = summary /\ Last(resultCh) = resultCh[Len(resultCh)]
    BY <2>0 DEF Newest, Last
  <2>2. Room \/ Head(resultCh) # summary
    BY <1>3 DEF RelayURLResult
  <2>3. Head(resultCh) \in 1..MaxProbes
    BY <1>t, <2>0, Dequeue
  <2>4. CASE resultCh' # <<>>
    <3>1. /\ resultCh' \in Seq(1..MaxProbes) /\ Len(resultCh') = Len(resultCh) - 1
          /\ Len(resultCh) \in Nat /\ Len(resultCh') \in Nat \ {0}
      BY <1>t, <2>0, <2>4, Dequeue
    <3>2. resultCh'[Len(resultCh')] = resultCh[Len(resultCh)]
      BY <1>t, <2>0, <3>1, Dequeue
    <3>3. Last(resultCh') = summary'
      BY <2>0, <2>1, <3>2 DEF Last
    <3> QED BY <2>4, <3>3 DEF Newest
  <2>5. CASE resultCh' = <<>>
    <3> PICK e \in Event : e = [type |-> "url_result", id |-> Head(resultCh)]
      BY <2>3 DEF Event
    <3>1. e.id = summary
      <4>0. Len(<<>>) = 0
        OBVIOUS
      <4>1. Len(Tail(resultCh)) = 0
        BY <2>0, <2>5, <4>0, Zenon
      <4>2. Len(Tail(resultCh)) = Len(resultCh) - 1 /\ Len(resultCh) \in Nat
        BY <1>t, <2>0, Dequeue
      <4>3. Len(resultCh) = 1 /\ Head(resultCh) = resultCh[1]
        BY <1>t, <2>0, <4>1, <4>2, Dequeue
      <4> QED BY <2>1, <4>3
    <3>2. stream' = Append(stream, e) /\ e.type = "url_result"
      BY <1>3, <2>2, <3>1 DEF RelayURLResult
    <3>3. Results(stream') # {} /\ NewestSent(stream', e.id)
      BY <1>t, <3>2, EnqueueResult
    <3> QED BY <2>0, <2>5, <3>1, <3>3 DEF Newest
  <2> QED BY <2>4, <2>5
<1>4. CASE BroadcastAlert
  <2>1. Head(fired) \in 1..MaxAlerts
    BY <1>t, <1>4, Dequeue DEF BroadcastAlert
  <2> PICK e \in Event : e = [type |-> "alert", id |-> Head(fired)]
    BY <2>1 DEF Event
  <2>2. stream' = stream \/ stream' = Append(stream, e)
    BY <1>4 DEF BroadcastAlert
  <2>3. UNCHANGED <<unsent, resultCh, summary>>
    BY <1>4 DEF BroadcastAlert, results
  <2>4. CASE stream' = Append(stream, e)
    <3>1. e.type # "url_result"
      OBVIOUS
    <3>2. /\ Results(stream') = Results(stream)
          /\ NewestSent(stream, summary) => NewestSent(stream', summary)
      BY <1>t, <2>4, <3>1, EnqueueAlert
    <3> QED BY <2>3, <3>2 DEF Newest
  <2> QED BY <1>1, <2>2, <2>3, <2>4
<1>5. CASE Exit \/ GiveUp \/ Crash
  BY <1>5 DEF Exit, GiveUp, Crash, MemoryLost
<1>6. CASE Break
  <2>1. ~NewestSent(stream, summary) /\ stream' = <<>> /\ UNCHANGED <<unsent, resultCh, summary>>
    BY <1>6 DEF Break, results
  <2>2. Results(stream') = {}
    BY <2>1, EmptyHasNone
  <2> QED BY <2>1, <2>2 DEF Newest
<1> QED
  BY <1>1, <1>2, <1>3, <1>4, <1>5, <1>6
     DEF Next, vars, results, Fire, Resolve, Signal, Boot, AnswerAlerts, Loaded, Connect, OnError,
         Reconnect, Beat, Acknowledge, Acknowledged

(* What arrives is the newest result, or that one is behind it. *)
LEMMA ArrivesNewest ==
  ASSUME TypeOK, OnEvent, urlShown' # {}, Newest(urlShown)
  PROVE  Newest(urlShown)'
<1>t. stream \in Seq(Event) /\ stream # <<>> /\ stream' = Tail(stream)
  BY DEF TypeOK, TypeStream, OnEvent
<1> PICK e \in Event : e = Head(stream)
  BY <1>t, Dequeue
<1>0. UNCHANGED <<unsent, resultCh, summary>>
  BY DEF OnEvent, results
<1>u. CASE summary \in unsent
  BY <1>0, <1>u DEF Newest
<1> SUFFICES ASSUME summary \notin unsent PROVE Newest(urlShown)'
  BY <1>u
<1>1. CASE resultCh # <<>>
  BY <1>0, <1>1 DEF Newest
<1>2. CASE resultCh = <<>> /\ Results(stream) = {}
  <2>1. Results(stream') = {}
    BY <1>t, <1>2, TailHasNone
  <2>2. e.type = "alert"
    <3>1. e = stream[1] /\ 1 \in DOMAIN stream
      BY <1>t, Dequeue
    <3>2. e.type # "url_result"
      BY <1>2, <3>1 DEF Results
    <3> QED BY <3>2 DEF Event
  <2>3. urlShown' = urlShown
    BY <2>2 DEF OnEvent, OnAlert
  <2> QED BY <1>0, <1>2, <2>1, <2>3 DEF Newest
<1>3. CASE resultCh = <<>> /\ Results(stream) # {}
  <2>1. NewestSent(stream, summary)
    BY <1>3 DEF Newest
  <2>2. /\ e.type # "url_result" => Results(stream') # {}
        /\ Results(stream') # {} => NewestSent(stream', summary)
        /\ Results(stream') = {} => e.id = summary
    BY <1>t, <2>1, DequeueResults
  <2>3. CASE Results(stream') # {}
    BY <1>0, <1>3, <2>2, <2>3 DEF Newest
  <2>4. CASE Results(stream') = {}
    <3>1. e.type # "alert" /\ e.id = summary
      BY <2>2, <2>4
    <3>2. urlShown' = {summary}
      BY <3>1 DEF OnEvent, OnURLResult
    <3> QED BY <1>0, <1>3, <2>4, <3>2 DEF Newest
  <2> QED BY <2>3, <2>4
<1> QED BY <1>1, <1>2, <1>3

ResultInv == TypeOK /\ StreamOfLoaded /\ AnsweredNewest /\ ResultCurrent

LEMMA NextResultInv == ResultInv /\ [Next]_vars => ResultInv'
<1> SUFFICES ASSUME ResultInv, [Next]_vars
             PROVE  AnsweredNewest' /\ ResultCurrent'
  BY NextTypeOK, NextStreamOfLoaded DEF ResultInv
<1> USE DEF ResultInv
<1>1. CASE AnswerURLs
  <2>1. page = "loading" /\ page' = "loading" /\ stream = <<>>
    BY <1>1 DEF AnswerURLs, StreamOfLoaded
  <2>2. /\ UNCHANGED <<unsent, resultCh, stream, summary>> /\ missedResult' = Outdated
        /\ urlsAnswer' = {summary} \/ urlsAnswer' = {}
    BY <1>1 DEF AnswerURLs, results
  <2>3. Results(stream') = {}
    BY <2>1, <2>2, EmptyHasNone
  <2>4. urlsAnswer' = {summary} /\ ~missedResult' => Newest(urlsAnswer)'
    BY <2>2, <2>3 DEF Newest, Outdated
  <2> QED BY <2>1, <2>2, <2>4 DEF AnsweredNewest, ResultCurrent
<1>2. CASE Reload
  BY <1>2 DEF Reload, AnsweredNewest, ResultCurrent
<1>3. CASE Loaded
  <2>1. /\ page = "loading" /\ urlsAnswer # None /\ page' = "loaded" /\ urlShown' = urlsAnswer
        /\ UNCHANGED <<unsent, resultCh, stream, summary, missedResult>>
    BY <1>3 DEF Loaded, results
  <2>2. Newest(urlsAnswer) => Newest(urlShown)'
    BY <2>1 DEF Newest
  <2> QED BY <2>1, <2>2 DEF AnsweredNewest, ResultCurrent
<1>4. CASE OnEvent
  <2>1. page = "loaded" /\ page' = "loaded" /\ missedResult' = missedResult
    BY <1>4 DEF OnEvent, StreamOfLoaded, TypeOK, TypePage
  <2>2. urlShown' # {} => urlShown # {}
    BY <1>4 DEF OnEvent, OnAlert, OnURLResult
  <2> QED BY <1>4, <2>1, <2>2, ArrivesNewest DEF AnsweredNewest, ResultCurrent
<1>5. CASE StoreResult
  <2>1. summary' \in unsent'
    BY <1>5 DEF StoreResult
  <2> QED BY <2>1 DEF AnsweredNewest, ResultCurrent, Newest
<1>6. CASE ~AnswerURLs /\ ~Reload /\ ~Loaded /\ ~OnEvent /\ ~StoreResult
  <2>1. UNCHANGED <<page, urlsAnswer, urlShown>>
    BY <1>6
       DEF Next, vars, answers, screen, Fire, BroadcastAlert, Resolve, SendResult,
           RelayURLResult, Signal, Exit, GiveUp, Crash, MemoryLost, Boot, AnswerAlerts, Connect,
           Break,
           OnError, Reconnect, Beat, Acknowledge, Acknowledged
  <2>2. ~missedResult' => ~missedResult
    BY <1>6
       DEF Next, vars, Fire, BroadcastAlert, Resolve, SendResult, RelayURLResult, Signal, Exit,
           GiveUp, Crash, MemoryLost, Boot, AnswerAlerts, Connect, Break, OnError, Reconnect, Beat,
           Acknowledge, Acknowledged
  <2>3. ASSUME ~missedResult', NEW r, Newest(r) PROVE Newest(r)'
    BY <1>6, <2>3, StaysNewest
  <2>4. ~missedResult' /\ Newest(urlsAnswer) => Newest(urlsAnswer)'
    <3> PICK r : r = urlsAnswer
      OBVIOUS
    <3>1. r = urlsAnswer'
      BY <2>1
    <3> QED BY <2>3, <3>1 DEF Newest
  <2>5. ~missedResult' /\ Newest(urlShown) => Newest(urlShown)'
    <3> PICK r : r = urlShown
      OBVIOUS
    <3>1. r = urlShown'
      BY <2>1
    <3> QED BY <2>3, <3>1 DEF Newest
  <2> QED BY <2>1, <2>2, <2>4, <2>5 DEF AnsweredNewest, ResultCurrent
<1> QED BY <1>1, <1>2, <1>3, <1>4, <1>5, <1>6

(* However many goroutines of the check probe at once and in whatever order *)
(* they send what they have stored: the result a loaded page shows is the    *)
(* one of the server's summary, or that one is about to be sent, or the last *)
(* of those on their way to the page, unless that very result was dropped    *)
(* at a full channel, had nobody to go to, or was sent before an older one.  *)
THEOREM ResultCurrentHolds == Spec => []ResultCurrent
<1>1. Init => ResultInv
  BY InitTypeOK DEF Init, ResultInv, StreamOfLoaded, AnsweredNewest, ResultCurrent
<1>2. ResultInv => ResultCurrent
  BY DEF ResultInv
<1> QED
  BY <1>1, <1>2, NextResultInv, PTL DEF Spec
=============================================================================
