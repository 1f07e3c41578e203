----------------------------- MODULE Dashboard ------------------------------
(***************************************************************************)
(* A page of the dashboard (web/static/app.js) and the server it talks to: *)
(* the REST calls of the initial load, the event stream with its reconnect *)
(* timer, acknowledging, the two sources of events (alerts of the          *)
(* collector, URL results through ResultCh and relayURLResults), and main  *)
(* from the signal to the exit and the restart by systemd (a stop that     *)
(* lasts leaves nothing to look at).                                       *)
(*                                                                         *)
(* Alerts and probes of one URL check are numbered.  Broker and connection *)
(* are one bounded queue to the page (SSEBroker has their inside), which   *)
(* exists while the page is registered; all other events are Beat.  A      *)
(* connection that breaks is noticed by the browser.  The order of the     *)
(* cards on the page is left out.                                          *)
(***************************************************************************)
EXTENDS Naturals, Sequences, FiniteSets, SequencesExt

CONSTANTS
  None,
  ResultCap,       \* capacity of ResultCh (64)
  StreamCap,       \* events on the way to the page (64 in the broker)
  MaxAlerts,       \* bound: alerts fired
  MaxProbes,       \* bound: probes of the URL
  MaxProbers,      \* bound: goroutines of the check at work at once, the old ones and the
                   \* new one after an edit
  MaxFaults        \* bound: signals, crashes, broken connections, failed requests, reloads

ASSUME DashboardAssumption ==
  /\ ResultCap \in Nat \ {0} /\ StreamCap \in Nat \ {0}
  /\ {MaxAlerts, MaxProbes, MaxProbers, MaxFaults} \subseteq Nat
  /\ \A ids \in SUBSET (0..(MaxAlerts + MaxProbes)) : ids # None

VARIABLES
  srv,             \* the process: "up", "stopping" (after the signal) or "down"
  active,          \* the unresolved rows of table alerts
  nextId,          \* its AUTOINCREMENT counter
  fired,           \* alerts inserted but not broadcast yet
  summary,         \* LastResult of the check's summary: a probe, 0 for nil
  unsent,          \* the results stored there whose goroutine has yet to send them
  resultCh,
  stream,          \* the events on their way to the page
  registered,      \* does the broker know the page's connection?
  page,            \* "loading" or "loaded"
  alertsAnswer, urlsAnswer,  \* of the load: the alerts and the result answered, None before
  shown,           \* state.alerts.active: how many cards each alert has
  urlShown,        \* last_result of the check in state.urls, as a set: empty when it is not listed
  acking,          \* the ids of acknowledgeAllAlerts, None when it is not running
  es,              \* the EventSource: "none", "connecting", "open" or "waiting" for the timer
  live,            \* state.sseConnected
  missed,          \* history: alerts the server could not send to this page since it asked
  missedResult,    \* history: the newest result was dropped, or an older one sent after it
  dismissed,       \* history: alerts acknowledged on this page
  reconnected,     \* history: this page has lost an open stream
  probes, faults   \* budgets spent

table == <<active, nextId>>
results == <<summary, unsent, resultCh, probes>>
answers == <<alertsAnswer, urlsAnswer>>
screen == <<shown, urlShown, acking, dismissed>>
connection == <<es, live, reconnected>>
vars == <<srv, active, nextId, fired, summary, unsent, resultCh, stream, registered, page,
          alertsAnswer, urlsAnswer, shown, urlShown, acking, es, live, missed, missedResult,
          dismissed, reconnected, probes, faults>>

Event == [type : {"alert"}, id : 1..MaxAlerts] \cup [type : {"url_result"}, id : 1..MaxProbes]

Alerts(queue) == {queue[i].id : i \in {j \in DOMAIN queue : queue[j].type = "alert"}}
Results(queue) == {i \in DOMAIN queue : queue[i].type = "url_result"}  \* their places in it

Cards(ids) == [id \in 1..MaxAlerts |-> IF id \in ids THEN 1 ELSE 0]
Listed == {id \in 1..MaxAlerts : shown[id] > 0}

Init ==
  /\ srv = "up" /\ active = {} /\ nextId = 1 /\ fired = <<>>
  /\ summary = 0 /\ unsent = {} /\ resultCh = <<>> /\ stream = <<>> /\ registered = FALSE
  /\ page = "loading" /\ alertsAnswer = None /\ urlsAnswer = None
  /\ shown = Cards({}) /\ urlShown = {} /\ acking = None /\ dismissed = {}
  /\ es = "none" /\ live = FALSE /\ reconnected = FALSE
  /\ missed = {} /\ missedResult = FALSE
  /\ probes = 0 /\ faults = 0

Fault == faults < MaxFaults /\ faults' = faults + 1

(* A request fails: the server is not there, or the network. *)
Fails ==
  \/ srv # "up" /\ UNCHANGED faults
  \/ srv = "up" /\ Fault

-----------------------------------------------------------------------------
(* The server: alerts and URL results. *)

(* Mutant: the client's queue has no bound. *)
RoomUnbounded == srv = "up" /\ registered

(* After the signal Run has returned, and what is broadcast goes nowhere. *)
Room == srv = "up" /\ registered /\ Len(stream) < StreamCap

(* Evaluate inserts the row; runCollector broadcasts the alert afterwards. *)
Fire ==
  /\ srv = "up" /\ nextId <= MaxAlerts
  /\ active' = active \cup {nextId} /\ nextId' = nextId + 1
  /\ fired' = Append(fired, nextId)
  /\ UNCHANGED <<srv, results, stream, registered, page, answers, screen, connection,
                 missed, missedResult, faults>>

(* Mutant: only the first alert of a pass is broadcast. *)
BroadcastAlertOnce ==
  /\ srv # "down" /\ fired # <<>>
  /\ fired' = <<>>
  /\ stream' = IF Room THEN Append(stream, [type |-> "alert", id |-> Head(fired)]) ELSE stream
  /\ missed' = IF Room THEN missed ELSE missed \cup {Head(fired)}
  /\ UNCHANGED <<srv, table, results, registered, page, answers, screen, connection,
                 missedResult, faults>>

BroadcastAlert ==
  /\ srv # "down" /\ fired # <<>>
  /\ fired' = Tail(fired)
  /\ stream' = IF Room THEN Append(stream, [type |-> "alert", id |-> Head(fired)]) ELSE stream
  /\ missed' = IF Room THEN missed ELSE missed \cup {Head(fired)}
  /\ UNCHANGED <<srv, table, results, registered, page, answers, screen, connection,
                 missedResult, faults>>

(* No event tells the page. *)
Resolve(id) ==
  /\ srv = "up"
  /\ active' = active \ {id}
  /\ UNCHANGED <<srv, nextId, fired, results, stream, registered, page, answers, screen,
                 connection, missed, missedResult, faults>>

(* doAndStore writes the summary under the checker's mutex ... *)
StoreResult ==
  /\ srv # "down" /\ probes < MaxProbes
  /\ Cardinality(unsent) < MaxProbers
  /\ probes' = probes + 1 /\ summary' = probes + 1
  /\ unsent' = unsent \cup {probes + 1}
  /\ missedResult' = FALSE
  /\ UNCHANGED <<srv, table, fired, resultCh, stream, registered, page, answers, screen,
                 connection, missed, faults>>

(* ... and after it is released sends the result, if ResultCh has room. *)
SendResult(n) ==
  LET room == Len(resultCh) < ResultCap
  IN
  /\ srv # "down" /\ n \in unsent
  /\ unsent' = unsent \ {n}
  /\ resultCh' = IF room THEN Append(resultCh, n) ELSE resultCh
  /\ missedResult' = \/ missedResult
                     \/ n = summary /\ ~room
                     \/ n # summary /\ room /\ summary \notin unsent
  /\ UNCHANGED <<srv, table, fired, summary, probes, stream, registered, page, answers, screen,
                 connection, missed, faults>>

RelayURLResult ==
  /\ srv = "up" /\ resultCh # <<>>
  /\ resultCh' = Tail(resultCh)
  /\ stream' = IF Room THEN Append(stream, [type |-> "url_result", id |-> Head(resultCh)])
               ELSE stream
  /\ missedResult' = (missedResult \/ (~Room /\ Head(resultCh) = summary))
  /\ UNCHANGED <<srv, table, fired, summary, unsent, probes, registered, page, answers, screen,
                 connection, missed, faults>>

(* The newest result in the queue is that of probe n. *)
NewestSent(queue, n) ==
  \E i \in Results(queue) : queue[i].id = n /\ \A j \in Results(queue) : j <= i

-----------------------------------------------------------------------------
(* main: the signal, the end and the restart. *)

(* close(done), cancel(), and Shutdown closes the listener. *)
Signal ==
  /\ srv = "up"
  /\ Fault
  /\ srv' = "stopping"
  /\ UNCHANGED <<table, fired, results, stream, registered, page, answers, screen, connection,
                 missed, missedResult>>

(* The memory of the process is gone, and so are its connections. *)
MemoryLost ==
  /\ fired' = <<>> /\ summary' = 0 /\ unsent' = {} /\ resultCh' = <<>>
  /\ stream' = <<>> /\ registered' = FALSE
  /\ missed' = missed \cup Range(fired) \cup Alerts(stream)
  /\ missedResult' = TRUE
  /\ UNCHANGED <<table, probes, page, answers, screen, connection>>

(* Shutdown returns once the handlers have: no stream is open any more ... *)
Exit ==
  /\ srv = "stopping" /\ ~registered
  /\ srv' = "down"
  /\ MemoryLost /\ UNCHANGED faults

(* ... or gives up after 10 s: the handler of an open stream does not know *)
(* of the signal and waits on.                                             *)
GiveUp ==
  /\ srv = "stopping" /\ registered
  /\ srv' = "down"
  /\ MemoryLost /\ UNCHANGED faults

Crash == srv = "up" /\ Fault /\ srv' = "down" /\ MemoryLost

Boot ==
  /\ srv = "down"
  /\ srv' = "up"
  /\ UNCHANGED <<table, fired, results, stream, registered, page, answers, screen, connection,
                 missed, missedResult, faults>>

-----------------------------------------------------------------------------
(* The page: initial load.  Each call falls back to an empty list. *)

AnswerAlerts ==
  /\ page = "loading" /\ alertsAnswer = None
  /\ \/ /\ srv = "up" /\ UNCHANGED faults
        /\ alertsAnswer' = active /\ missed' = {}
     \/ /\ Fails
        /\ alertsAnswer' = {} /\ missed' = active
  /\ UNCHANGED <<srv, table, fired, results, stream, registered, page, urlsAnswer, screen,
                 connection, missedResult>>

(* The last result in ResultCh is an older one, because the newest found it  *)
(* full or had been sent before it: the page will be sent that one after it  *)
(* has been told the newest.                                                 *)
Outdated == summary \notin unsent /\ resultCh # <<>> /\ Last(resultCh) # summary

AnswerURLs ==
  /\ page = "loading" /\ urlsAnswer = None
  /\ \/ srv = "up" /\ UNCHANGED faults /\ urlsAnswer' = {summary}
     \/ Fails /\ urlsAnswer' = {}
  /\ missedResult' = Outdated
  /\ UNCHANGED <<srv, table, fired, results, stream, registered, page, alertsAnswer, screen,
                 connection, missed>>

(* All calls are answered: show, then connectSSE. *)
Loaded ==
  /\ page = "loading" /\ alertsAnswer # None /\ urlsAnswer # None
  /\ page' = "loaded" /\ alertsAnswer' = None /\ urlsAnswer' = None
  /\ shown' = Cards(alertsAnswer) /\ urlShown' = urlsAnswer
  /\ es' = "connecting"
  /\ UNCHANGED <<srv, table, fired, results, stream, registered, acking, live, reconnected,
                 missed, missedResult, dismissed, faults>>

(* The user loads the page again. *)
Reload ==
  /\ Fault
  /\ page' = "loading" /\ alertsAnswer' = None /\ urlsAnswer' = None
  /\ shown' = Cards({}) /\ urlShown' = {} /\ acking' = None /\ dismissed' = {}
  /\ es' = "none" /\ live' = FALSE /\ reconnected' = FALSE
  /\ stream' = <<>> /\ registered' = FALSE
  /\ UNCHANGED <<srv, table, fired, results, missed, missedResult>>

-----------------------------------------------------------------------------
(* The page: event stream. *)

Connect ==
  /\ es = "connecting" /\ srv = "up"
  /\ es' = "open" /\ registered' = TRUE
  /\ UNCHANGED <<srv, table, fired, results, stream, page, answers, screen, live, reconnected,
                 missed, missedResult, faults>>

(* The connection breaks on the way. *)
Break ==
  /\ registered
  /\ Fault
  /\ registered' = FALSE /\ stream' = <<>>
  /\ missed' = missed \cup Alerts(stream)
  /\ missedResult' = (missedResult \/ NewestSent(stream, summary))
  /\ UNCHANGED <<srv, table, fired, results, page, answers, screen, connection>>

(* Mutant: onerror closes the source and sets no timer. *)
OnErrorCloses ==
  /\ \/ es = "connecting" /\ srv # "up"
     \/ es = "open" /\ ~registered
  /\ es' = "none" /\ live' = FALSE /\ reconnected' = (reconnected \/ es = "open")
  /\ UNCHANGED <<srv, table, fired, results, stream, registered, page, answers, screen,
                 missed, missedResult, faults>>

(* es.onerror: refused, or closed by the other end. *)
OnError ==
  /\ \/ es = "connecting" /\ srv # "up"
     \/ es = "open" /\ ~registered
  /\ es' = "waiting" /\ live' = FALSE /\ reconnected' = (reconnected \/ es = "open")
  /\ UNCHANGED <<srv, table, fired, results, stream, registered, page, answers, screen,
                 missed, missedResult, faults>>

(* setTimeout(connectSSE, 5000): the stream again, and nothing else. *)
Reconnect ==
  /\ es = "waiting"
  /\ es' = "connecting"
  /\ UNCHANGED <<srv, table, fired, results, stream, registered, page, answers, screen, live,
                 reconnected, missed, missedResult, faults>>

(* Mutant: no look for duplicates. *)
OnAlertBlindly(id) == shown' = [shown EXCEPT ![id] = @ + 1] /\ UNCHANGED urlShown

OnAlert(id) ==
  /\ shown' = IF id \in Listed THEN shown ELSE [shown EXCEPT ![id] = @ + 1]
  /\ UNCHANGED urlShown

(* Mutant: a check that has a result keeps it. *)
OnFirstURLResult(n) ==
  /\ urlShown' = IF urlShown = {0} THEN {n} ELSE urlShown
  /\ UNCHANGED shown

OnURLResult(n) ==
  /\ urlShown' = IF urlShown = {} THEN {} ELSE {n}
  /\ UNCHANGED shown

(* An event arrives; the first one also opens the source, because the     *)
(* handler flushes nothing before it.                                     *)
OnEvent ==
  /\ es = "open" /\ registered /\ stream # <<>>
  /\ LET e == Head(stream)
     IN IF e.type = "alert" THEN OnAlert(e.id) ELSE OnURLResult(e.id)
  /\ stream' = Tail(stream) /\ live' = TRUE
  /\ UNCHANGED <<srv, table, fired, results, registered, page, answers, acking, es, reconnected,
                 missed, missedResult, dismissed, faults>>

(* Metrics, tunnel, services and heartbeat. *)
Beat ==
  /\ es = "open" /\ registered /\ srv = "up"
  /\ live' = TRUE
  /\ UNCHANGED <<srv, table, fired, results, stream, registered, page, answers, screen, es,
                 reconnected, missed, missedResult, faults>>

-----------------------------------------------------------------------------
(* The page: acknowledging. *)

(* acknowledgeAllAlerts, or acknowledgeAlert with one id: the ids are taken *)
(* before the calls are made.                                               *)
Acknowledge(ids) ==
  /\ page = "loaded" /\ acking = None
  /\ ids # {}
  /\ acking' = ids
  /\ UNCHANGED <<srv, table, fired, results, stream, registered, page, answers, shown, urlShown,
                 dismissed, connection, missed, missedResult, faults>>

(* Mutant: the list is emptied. *)
AcknowledgedEmpties ==
  /\ acking # None
  /\ srv = "up" /\ shown' = Cards({}) /\ dismissed' = dismissed \cup acking
  /\ acking' = None
  /\ UNCHANGED <<srv, table, fired, results, stream, registered, page, answers, urlShown,
                 connection, missed, missedResult, faults>>

(* All calls are answered, or one has failed and the list stays. *)
Acknowledged ==
  /\ acking # None
  /\ \/ /\ srv = "up" /\ UNCHANGED faults
        /\ shown' = [id \in 1..MaxAlerts |-> IF id \in acking THEN 0 ELSE shown[id]]
        /\ dismissed' = dismissed \cup acking
     \/ Fails /\ UNCHANGED <<shown, dismissed>>
  /\ acking' = None
  /\ UNCHANGED <<srv, table, fired, results, stream, registered, page, answers, urlShown,
                 connection, missed, missedResult>>

-----------------------------------------------------------------------------
Next ==
  \/ Fire \/ BroadcastAlert \/ \E id \in active : Resolve(id)
  \/ StoreResult \/ (\E n \in unsent : SendResult(n)) \/ RelayURLResult
  \/ Signal \/ Exit \/ GiveUp \/ Crash \/ Boot
  \/ AnswerAlerts \/ AnswerURLs \/ Loaded \/ Reload
  \/ Connect \/ Break \/ OnError \/ Reconnect \/ OnEvent \/ Beat
  \/ \E ids \in {{id} : id \in Listed} \cup {Listed} : Acknowledge(ids)
  \/ Acknowledged

Spec == Init /\ [][Next]_vars

(* The collector goes on, requests are answered or fail, timers fire, that of *)
(* Shutdown too, and systemd restarts the process (Restart=always).  Users,   *)
(* the measured machine and the network owe nothing, and nothing is asked of  *)
(* the URL checker.                                                           *)
Fairness ==
  /\ WF_vars(BroadcastAlert)
  /\ WF_vars(Exit) /\ WF_vars(GiveUp) /\ WF_vars(Boot)
  /\ WF_vars(AnswerAlerts) /\ WF_vars(AnswerURLs) /\ WF_vars(Loaded)
  /\ WF_vars(Connect) /\ WF_vars(OnError) /\ WF_vars(Reconnect)
  /\ WF_vars(OnEvent) /\ WF_vars(Beat) /\ WF_vars(Acknowledged)

FairSpec == Spec /\ Fairness

-----------------------------------------------------------------------------
TypeServer ==
  /\ srv \in {"up", "stopping", "down"}
  /\ nextId \in 1..(MaxAlerts + 1) /\ active \subseteq 1..(nextId - 1)
  /\ fired \in Seq(1..MaxAlerts)
  /\ probes \in 0..MaxProbes /\ summary \in 0..probes
  /\ unsent \subseteq 1..probes
  /\ resultCh \in Seq(1..MaxProbes) /\ Len(resultCh) <= ResultCap
  /\ faults \in 0..MaxFaults

TypeStream ==
  /\ es \in {"none", "connecting", "open", "waiting"}
  /\ stream \in Seq(Event) /\ Len(stream) <= StreamCap
  /\ registered \in BOOLEAN /\ live \in BOOLEAN /\ reconnected \in BOOLEAN

TypePage ==
  /\ page \in {"loading", "loaded"}
  /\ alertsAnswer \in (SUBSET (1..MaxAlerts)) \cup {None}
  /\ urlsAnswer \in (SUBSET (0..MaxProbes)) \cup {None}
  /\ shown \in [1..MaxAlerts -> Nat] /\ urlShown \subseteq 0..MaxProbes
  /\ acking \in (SUBSET (1..MaxAlerts)) \cup {None}

TypeHistory ==
  /\ missed \subseteq 1..MaxAlerts /\ dismissed \subseteq 1..MaxAlerts
  /\ missedResult \in BOOLEAN

TypeOK == TypeServer /\ TypeStream /\ TypePage /\ TypeHistory

(* No alert has two cards, though it may come in the answer of the load and  *)
(* again as an event ("Avoid duplicates", app.js:820).                       *)
ShownOnce == \A id \in Listed : shown[id] = 1

(* Nothing is lost silently between load and stream: an unresolved alert is  *)
(* on the page, was acknowledged there, is still under way, or is one the    *)
(* server had nobody to send to.                                             *)
AlertsCurrent ==
  page = "loaded" =>
    active \subseteq Listed \cup dismissed \cup missed \cup Range(fired) \cup Alerts(stream)

(* The summary's result is about to be sent, or the last one under way, or *)
(* else the one given.                                                      *)
Newest(result) ==
  \/ summary \in unsent
  \/ IF resultCh # <<>> THEN Last(resultCh) = summary
     ELSE IF Results(stream) # {} THEN NewestSent(stream, summary)
     ELSE result = {summary}

(* The result a page shows is the newest, or that one is under way, with     *)
(* nothing older behind it.  Excepted is a newest result that was itself     *)
(* dropped at a full channel, had nobody to go to, or was overtaken: of two  *)
(* goroutines of the check, which an edit leaves at work for a while, the    *)
(* one that stored first may send last (checker.go:154).  The next result    *)
(* ends the exception.                                                       *)
ResultCurrent ==
  page = "loaded" /\ urlShown # {} /\ ~missedResult => Newest(urlShown)

(* After restarts and broken connections the page ends up with an open       *)
(* stream and says so.                                                       *)
Reconnects == <>[](es = "open" /\ live)

(* An unresolved alert gets to a page that is loaded and stays so, or was     *)
(* acknowledged there, or is one the server had nobody to send to: it is not  *)
(* under way for ever, whatever signals, crashes and lost connections come.   *)
AlertsArrive ==
  \A id \in 1..MaxAlerts :
    (page = "loaded" /\ id \in active) ~>
      (page = "loading" \/ id \in Listed \cup dismissed \cup missed)

(* "slow client - drop event; it will resync via REST on reconnect"          *)
(* (broker.go:69): a page that has reconnected and has nothing under way     *)
(* shows every unresolved alert that was not acknowledged on it.             *)
ResyncOnReconnect ==
  reconnected /\ live /\ fired = <<>> /\ stream = <<>> =>
    active \subseteq Listed \cup dismissed
=============================================================================
