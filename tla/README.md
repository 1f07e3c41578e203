# A TLA+ model of monitoring24

monitoring24 is a single Go process that samples a machine, probes URLs, keeps
alerts in SQLite and pushes everything to a dashboard over server-sent events.
This directory models the parts of it in which goroutines, requests, the
database and restarts meet, checks them with TLC on small instances, and proves
the main safety properties with TLAPS for every value of the constants.

## The system

| Component | State it keeps | Operations |
|---|---|---|
| Alert engine, `internal/alerts` | `thresholds`, `activeAlerts` (kind -> row id), both under `Engine.mu` | `LoadThresholds` at boot, `Evaluate` once per fast tick, `UpdateThreshold` from a request |
| URL checker, `internal/urlcheck` | `checks` (id -> stop channel), `summaries`, one goroutine per check, `ResultCh` | `Start` at boot, `Add`, `Update`, `Remove` from requests, `runCheck` per goroutine |
| SSE broker, `internal/sse` | `clients`, the channels `register`, `unregister`, `broadcast`, one `send` channel per client | `Run`, `Broadcast`, `ServeHTTP` per connection |
| Storage, `internal/storage` | the SQLite tables | one statement per call over a single connection |
| Server, `cmd/server` | the contexts and the `done` channel | boot order, `runCollector` (2 s and 30 s ticks), `runPurge`, `relayURLResults`, shutdown |
| HTTP handlers, `internal/http` | `latest`, the last value of each sort of data | `UpdateLatest` from the collector, REST over all of the above |
| Auth log parser, `internal/security` | `logPath`, `lastOffset` | `newParser` at boot, `parse` once per slow tick |
| Tunnel detector, `internal/tunnel` | `lastRunning`, the cached version | `Collect` once per fast tick |
| Metrics, `internal/metrics` | the previous I/O counters and their time | `Collect` once per fast tick |
| Security snapshot and services | nothing | one sample per slow tick |
| Dashboard, `web/` | alerts, URL results, the event stream and its timer | initial load over REST, events, acknowledging |

`main` loads thresholds and alerts, starts the checks found in the table, then
starts the goroutines and the HTTP server. The collector reads the URL
summaries, calls `Evaluate` and hands what was fired to the broker; checks
hand results to the relay, which hands them to the broker; requests change
thresholds, alerts and checks while all of that runs. systemd restarts the
process whenever it ends, with the database it left.

What is hard about it: the engine's map is a cache of rows that the purge job
deletes and a crash may orphan; edits of a check take the mutex several times
and interleave; a goroutine lives under the context of whoever started it; the
broker's `select` reorders registrations; the auth log grows and is rotated while
it is read; I/O rates are differences of counters that wrap, vanish and start
again; two ticks share one goroutine and one cache; a page puts together what
it asked for and what it is sent, over a stream that ends with every restart;
several errors are only logged.
`PROJECT.json` lists these places line by line under `hazards`, with the
properties that would notice.

## Modules

| Module | Models | Extends / instantiates |
|---|---|---|
| `AlertIncidents` | what the alert engine promises | |
| `AlertEngine` | engine, its tables, the collector pass, PUT thresholds, acknowledge, purge, crash | `INSTANCE AlertIncidents` |
| `UrlChecker` | checker, its table, the handlers that create, edit and delete checks, crash | |
| `EventStream` | what a subscriber of `/events` may rely on | |
| `SSEBroker` | broker, connections, publishers, the signal | `INSTANCE EventStream` |
| `AuthLog` | the auth log parser, `ssh_events`, the log and its rotation, crash | |
| `IORates` | the I/O rates of the metrics collector, the machine's counters | |
| `TunnelDetector` | the tunnel detector, `tunnel_events` | |
| `Collector` | `runCollector`, the security snapshot, the services, the cache behind the GET handlers, purge, signal, crash | `EXTENDS IORates, TunnelDetector` |
| `Dashboard` | a page, the server's two sources of events, `ResultCh` and the relay, shutdown and restart | |
| `MCAlertEngine`, `MCUrlChecker`, `MCSSEBroker` | small instances, symmetry | the module they are named after |
| `AlertEngineProofs`, `UrlCheckerProofs`, `SSEBrokerProofs`, `CollectorProofs`, `AuthLogProofs`, `DashboardProofs` | theorems | the module they are named after, `TLAPS` |
| `AlertOutageProofs` | theorems on the number of rows per outage | `AlertEngineProofs` |
| `UrlSequentialProofs` | theorem on requests that do not overlap | `UrlCheckerProofs` |

Definitions named in a comment as *Mutant* are plausible bugs; each is put in
the place of the definition it belongs to in order to see that a property
notices. They are not part of the specifications.

### AlertEngine

`alerts`, `nextId` and `dbThr` are the tables; `thr` and `active` the engine's
maps (0 for no entry); `pc`, `todo` and `fired` the collector. A pass is
`Collect` (the reads, before the mutex is taken), `EvalStart`, one of
`EvalSkip`, `EvalFire`, `EvalFireFails`, `EvalResolve` per check in the order of
the code, `EvalReturn`, and `Publish`, the broadcasts. `UpdateThreshold` is two
steps because the code writes the table before it takes the mutex. `Crash`
empties the memory at any point; `LoadThresholds` rebuilds it, and
`LoadThresholdsFails` is the boot whose error `main` only logs.

Percentages and thresholds become levels `0..MaxLevel`; 0 as a threshold
disables a check, as `threshold <= 0` does. `level` is what a read returns: the
collector leaves a system metric it cannot read at 0. Of a URL `runCollector`
knows the stored `LastResult` and no more (`Measurement`): `lastDown` holds the
checks whose stored result is DOWN, and a summary without a result counts as up.
`StoreResult` is a probe coming back, true or (fault `"probe"`) false, because its
context was done or the URL has changed since; nothing makes it come, so that a
paused check, or one whose goroutine ended with its request, keeps what it has for
ever. `NewSummary` and `RemoveSummary` are what creating, editing and deleting does
to the summaries; a summary that was removed may come back without a result, as it
does when an edit overlaps a delete. `Start` makes the summaries of a boot; `Mount`
and `Unmount` are disks. Time stamps are left out: `Purge` may delete any set of resolved rows, and the order of ids
stands for the order of `fired_at` (rows of one kind are at least a tick apart;
a clock set back is not modelled). History variables: `announced`, `bootId`,
`outages` (of the URL itself), `falls` (DOWN results that replaced another result or
none) and `doubtful` (keys whose last PUT overlapped another of the same key, or
whose load at boot failed).

### UrlChecker

`rows` and `nextId` are the table, `checks` and `summaries` the maps, `go` the
goroutines, named after what started them: a request, or the id of the check
for those `Start` launches. A request is a record with the place it has reached,
and every step is one database call or one critical section of `Checker.mu`.
`cancelled` holds the requests whose context is done, because the handler
returned (`Done`) or the client went away (`ClientGone`). `Signal` is `cancel()` of main's context and the end of the listener: requests in
flight go on, none arrive, and the goroutines of `Start` run on under a context that
is done until their `select` (`Cancelled`); `Exit` follows. `Probe` under a context
that is done yields "down", since `client.Do` returns the context's error, and
`StoreResult` records it all the same. Crash and exit end every request in flight.

Left out: label, interval and timeout (they travel with the URL and no decision
depends on them but clamping), `url_check_results`, the uptime and the history
kept in memory. `ResultCh` is in `Dashboard`.

### SSEBroker

One action per case of `Run`'s `select`, one per step of `ServeHTTP`, channels
as bounded sequences, events as numbers in the order of `Broadcast`. Sends to
`register` and `unregister` block when full, all others drop. `Stalled` clients
may never read again, which `WriteTimeout: 0` allows. `Shutdown` is `close(done)`.

### AuthLog

`files` are the files the log has been rotated through, the last one written to;
`linked` says whether the path names it, since logrotate renames the file before
syslog opens a new one. A line is two pieces, so that it can be half written, and
offsets count pieces; in bytes an offset may fall anywhere in a line of another
file, which here means between its two pieces. `parse` is `ParseOpen` (open,
compare, seek), `ScanFront` and `ScanLine` for what the scanner reads, `ScanEnds`
at the end of the file, where the front of a line becomes a token of its own, and
`ParseDone`, which asks the file for its offset. `ParseReturns` is a tick that has
nothing to open. The history variable `lost` collects the SSH lines that went by
without a row, by what the code does: cut in two, refused by the database, or
jumped over in a file that outgrew the offset; `base` is where the rows of this
life begin. Left out: users, addresses and times, lines longer than the scanner's
64 KiB, truncation of the log in place, and the purge of rows after 30 days.

### IORates, TunnelDetector and Collector

`IORates` keeps one counter per device, modulo `W`; `CollectIO` is `Collect` with
the reads that fail as a parameter. The rate is the unsigned difference the code
computes, `% W`; the rounding of its float64 division is left out. `moved` and
`restarted` are history: what really went through a device since its counter was
last read, and which devices started again at 0. `EachByteOnce` says that a snapshot
reports exactly those bytes over the time since the previous snapshot. Two things it
does not say: after a failed read that time is shorter than the time the bytes took,
because `prevTime` moves on all the same, so that the rate is too high once; and for a
device that did start again, which it leaves out, the code reports a huge rate once.

`TunnelDetector` has `lastRunning`, the cached version, the events and the status;
`DetectTunnel` is `Collect` with the outcome of its four calls as parameters. A
listing that fails is recorded as a disconnect, and a restart records a connect
again: `EventsTellState` says that the newest event is nevertheless right about
what the detector last saw.

`Collector` is the loop that drives them. A fast tick is `TakeFast`,
`CollectTunnel`, `PublishFast`; a slow one `TakeSlow` (with the parser's rows),
`PublishSlow`; `Return` is the case of the context. The alert evaluation inside the
fast tick is `AlertEngine`. `latest` is the cache with `UpdateLatest`, and the four
`Handle...` operators are what the GET handlers answer. `Snapshot` is cut short by
whichever of its two queries fails, and replaces a complete one in the cache until
the next slow tick; of the SSH rows it has the newest `SSHLimit` (`RecentSSHEvents`,
`LIMIT 50` in the code). Left out: the parts of a snapshot that are read and passed on
(CPU, memory, processes, pending updates, the output of systemctl).

### Dashboard

Alerts are numbered by their row ids, results by the probe they come from. The
server is what a page sees of it: the unresolved rows, the alerts fired and not
yet broadcast, the summary and `ResultCh`, and one bounded queue of events to the
page. The end of `doAndStore` is two steps, `StoreResult` under the checker's mutex and
`SendResult` after it is released: up to `MaxProbers` goroutines of the check, which an
edit leaves at work side by side, have stored and not yet sent (`unsent`), and send in
any order. `RelayURLResult` is one turn of `relayURLResults`; the broker and the connection between are `stream` (their inside
is `SSEBroker`). The page loads (`AnswerAlerts`, `AnswerURLs`, each of which may fail
and then counts as empty; `Loaded`), connects, handles events, and waits for its
timer after an error. `Acknowledge` takes the ids before its calls are made and
`Acknowledged` filters the list after the answers. `shown` counts the cards of each
alert: the order of the cards is left out. `Signal` closes `done`, cancels
and closes the listener; `Exit` is `Shutdown` returning because no handler is left,
`GiveUp` its 10 s limit, which an open event stream always runs into since its handler
does not know of the signal; `Crash` and `Boot` may come at any time. `missed`,
`missedResult`, `dismissed` and `reconnected` are history. `missedResult` says that the
newest result was itself dropped, had nobody to go to, or was overtaken by an older one
sent after it; the next result ends it. A connection that is dead without either end noticing is
not modelled: the page would show itself live for as long as TCP keeps silent.

## Properties and runs

### Passing

| Run | Properties | Instance |
|---|---|---|
| `alert_engine` | `TypeOK`, `ActiveSound`, `OneActivePerKind`, `EveryAlertAnnounced`, `Refines`, `BreachIsAlerted`, `ResolvesWhileMeasured` | a system metric and a URL, two writers of thresholds, one crash, one failing insert or false result, two changes |
| `alert_faults` | `ActiveSound`, `EveryAlertAnnounced`, `OneRowPerFall`, `ThresholdsAgree` | a disk and a URL, two writers of thresholds, one failing call of any sort or false result, one crash, three changes |
| `url_checker` | `TypeOK`, `StopChannelOpen`, `NoImmortalOrphan`, `DeletedIsLeftAlone`, `FalseDownIsCutOff` | two ids, two URLs, two overlapping requests, failing database calls, one signal or crash |
| `url_sequential` | `QuietConsistent`, `StoppedReturns`, `BootChecksKeepProbing` | one id, two URLs, two requests one after the other, one signal or crash |
| `sse_broker` | `TypeOK`, `NoSendOnClosed`, `Refines`, `HandlersProgress`, `SentIsDelivered` | two clients, one of them stalled, capacities 1, 2, 1, three events |
| `auth_log` | `TypeOK`, `InOrderOnce`, `NothingSkipped`, `WrittenIsRead` | three lines, two files, one crash, one failing insert |
| `collector` | `TypeOK`, `EventsTellState`, `BytesCountedOnce`, `CacheKeeps`, `TunnelConverges`, `SecurityRecovers` | one device with a counter modulo 4 that starts at 3, two seconds, limits of two tunnel events and one SSH row, two changes of the machine, one failing call, one restart |
| `dashboard` | `TypeOK`, `ShownOnce`, `AlertsCurrent`, `ResultCurrent`, `Reconnects`, `AlertsArrive` | two alerts, two probes by two goroutines, capacities of 1, and one of signal, crash, broken connection, failed request, reload |

What the properties say is stated where they are defined. In short: the map of
active alerts never lies, alerts are recorded once and announced once, a URL has no
more rows than DOWN results that followed none or an UP one (a restart, or a summary
made again, costs a row only with such a result of its own), a metric that stays in
breach, or a URL whose stored result stays DOWN, is alerted and one that stays below is
resolved; a stop channel is closed once, nothing runs out of reach or goes on for a
deleted check, a URL that answers is listed as down only where the end of a request or
of main's context cut a probe off, and without overlap table and memory agree; the
broker neither panics nor blocks nor reorders; within one life the parser records each
line at most once and in order, and passes none over except as described above; no
byte is lost or counted twice in the rates across a wrap and a failed read, tunnel
events tell what was seen, no tick erases the other's data and the cached answers come
to be true again after failures; a page shows no alert twice, loses only what had nobody
to go to, shows the newest result unless that one was dropped or overtaken, is told of
alerts in the end, and ends up connected after whatever happened.

Why these bounds are enough to see the interesting cases: kinds meet only in
the order of a pass, so two of them (of different sorts) show every interaction;
two changes allow breach and recovery, or a summary that goes and comes back, or two
PUTs that overlap; three add a breach again or the PUT that ends a doubt; one fault lets
a write fail, or a probe lie, around any of them, and results come without a bound. Two
requests are enough for every race of
two; the theorems of `UrlCheckerProofs` cover any number. Channels of
capacity 1 or 2 are full after one or two sends, which is the only thing a
capacity decides. Three lines over two files let the second file stay shorter than,
reach or outgrow the offset of the first. A counter at 3 modulo 4 wraps with the
first byte; disks and interfaces are read by two calls that never meet, so one device
shows all there is, and the choice of the reads that fail still covers both. Two
changes let a device go and come back, or the tunnel stop and start, around a
failing call. With a limit of one SSH row, a second row is already cut off. Two alerts let one come by the load and the other by the stream, or
one be acknowledged while the other arrives; two results and a channel of one
are enough to drop the newer of them, and two goroutines to send them in the wrong
order. One fault is
enough to lose the stream and get it back: the page keeps nothing of an earlier one
but its list.

Deadlock is checked for the alert engine, the auth log, the collector and the dashboard, which never come to rest. It is not checked
for `UrlChecker` and `SSEBroker`: each request and each connection of the
instance is made at most once, so a quiet end is legitimate.

### Violations: where the code and its documentation differ

Each of these runs checks one statement a comment or the README makes, and TLC
finds a behaviour of the code that breaks it. The quotations are in
`PROJECT.json` under `findings`.

| Run | Statement | What happens |
|---|---|---|
| `alert_auto_resolve` | `AutoResolve` | a URL check deleted while down leaves its alert active for ever: `Evaluate` looks only at kinds it still measures |
| `alert_restart_flap` | `OneRowPerOutage` | after a restart a URL with no result counts as up: alert resolved, then fired again |
| `url_enabled_unwatched` | `EnabledIsWatched` | the goroutine of a created or edited check ends with the request |
| `dashboard_resync` | `ResyncOnReconnect` | a page that reconnects opens the stream and asks for nothing, so an alert it missed stays unseen until the user reloads |

The passing properties also show what the code relies on. `OneActivePerKind` and
`Refines` need `LoadThresholds` and `ResolveAlert` to succeed: add `"load"` to
`Faults` and a boot with an empty map inserts a second row. `ThresholdsAgree`
excepts a key whose last two PUTs overlapped, until the next PUT of it: one order of
table writes can then meet the other order of map writes. PUTs of different keys may
overlap as they like. `BreachIsAlerted` and `ResolvesWhileMeasured` speak of the stored
result of a URL: for a check nobody probes any more it need not be the truth.
`QuietConsistent` needs requests that do not overlap: an edit that overlaps a
delete brings summary and map entry of the deleted check back, though
`DeletedIsLeftAlone` shows that nothing goes on probing it. After the signal an open
event stream keeps its handler in the loop, since nothing ends its context; that the
process ends at all, and with it `Reconnects` and `AlertsArrive`, rests on the 10 s limit
of `Shutdown`.
`ResultCurrent` excepts a newest result that was dropped or overtaken: when `ResultCh` is
full the newest is lost and the older one in the channel is sent after it was superseded,
and of two goroutines of a check the one that stored first may send last; a page
that has just been told the newest by REST then goes back to the older one.
It says nothing of a disabled check, which has no summary after a restart and is
therefore not listed. `Refines` of the broker says nothing of who is registered:
`Run` may take an unregistration before the registration of the same client and
keeps that client in its map. The run of `url_enabled_unwatched` has a second
effect: the first probe of the new check may be cut off by the end of the request,
and then DOWN stays in its summary. `InOrderOnce` holds for one life: a
restart reads the whole log again.

### Fairness

* `AlertEngine`: the ticker, the steps of a pass, a handler that has started
  and the restart (`Restart=always` in `monitoring24.service`) are weakly fair. Users,
  the purge job, the measured machine and the URL checker, whose results may stop
  coming, owe nothing. That every tick yields a snapshot is what
  `sysCollector.Collect` does: it has no error return that is ever taken.
* `UrlChecker`: probes, stores and ticks are weakly fair; `Return` is strongly
  fair, because Go's `select` chooses at random among ready cases and the stop
  channel or the context stays ready. Handlers are weakly fair; clients, signals and the
  restart owe nothing.
* `SSEBroker`: `Run`'s cases and the handlers' steps are weakly fair; blocked
  sends are strongly fair, because senders wait in line. Writing to a stalled
  client is not fair.
* `AuthLog`: the steps of `parse` are weakly fair: the slow tick comes every 30 s and
  `parse` waits for nobody. Syslog, logrotate and the restart owe nothing.
* `Collector`: time passes, a tick once taken is served to its end (no call in it
  waits for another goroutine) and a signalled process ends. `TakeFast` and
  `TakeSlow` are strongly fair: both tickers are ready again and again and
  `select` chooses at random. Machine, purge and signals owe nothing.
* `Dashboard`: the collector's broadcasts, the answers of requests (or their failure),
  the page's timer, both ends of `Shutdown` and the restart by systemd are weakly fair.
  `Beat` is weakly fair because the heartbeat and the fast tick broadcast for ever.
  Users, faults, the measured machine, the URL checker and the relay owe nothing.

## Proofs

All theorems hold for every value of the constants, under the module's named
assumption (`ConstantsAssumption`, `CheckerAssumption`, `BrokerAssumption`,
`BoundsAssumption`, `IOAssumption`, `TunnelAssumption`, `CollectorAssumption`,
`DashboardAssumption`:
disjoint sets of names, natural bounds, capacities of at least one, a nil that is no
value).

* **Alert engine** (`AlertEngineProofs`). `TypeCorrect`, then `ActiveSoundHolds`
  with no assumption on faults. `OneActiveHolds` and `EngineImplementsIncidents`
  assume that `resolve` and `load` do not fail, and are false without it. `OneActivePerKind` is not inductive: nothing in it keeps
  `Evaluate` from inserting beside a row the map does not know. The invariant
  adds `MapComplete` (while the process is up, every unresolved row is the one
  in the map) and `BusyOnlyWhenUp`. `AnnouncedHolds` needs that a process that
  is down has nothing fired and nothing announced. `ThresholdsAgreeHolds`
  assumes nothing: any number of PUTs overlap in any way. Its invariant adds `PutPending`:
  of a key that is not doubtful at most one PUT is under way, and it carries the value the
  table has.
* **Alert outages** (`AlertOutageProofs`). `OneRowPerFallHolds`, with no assumption on
  faults: a URL never has more rows than DOWN results that replaced another result or none.
  The count is not inductive, because a row may still be *owed* for a fall that is already
  counted: on a measurement the pass holds, which may be older than the summaries, or on a
  later one of a result that is DOWN, when there is no entry in the map or an older
  measurement of 0 is about to clear it. `Owed` says when, and `Settled` that the bound then
  has room for the row. It needs what a pass holds (`PassMeasures`) and that the results go
  with the process (`ResultsGoneWhenDown`): the next DOWN result after a restart is a fall
  of its own. The rows of a URL are a set of ids, and the steps on its cardinality use
  `FiniteSetTheorems`.
* **URL checker** (`UrlCheckerProofs`). `TypeCorrect`, `StopChannelOpenHolds`
  and `NoImmortalOrphanHolds` are proved together, from `CheckerInv`. The extra
  parts are `StartsOnce` (a request never starts a second goroutine, so a
  registered one is not replaced by itself), `BootOwn` (the goroutine named
  after an id runs that check, and the id will not be handed out again),
  `BootMoved` (whoever is about to register a goroutine has the boot goroutine
  of that id out of the way) and `DownIsIdle`. Type correctness depends on
  `StopChannelOpen`, which is why they form one induction.
  `DeletedIsLeftAloneHolds` adds `BootHasRow` (a boot goroutine that is still registered
  has its row) and `EndedIsCancelled` (the context
  of a request that has ended is done): a goroutine of a deleted check that still runs is
  then not a boot goroutine, and its request is over. `FalseDownIsCutOffHolds` adds
  `DownIsCancelled`, which carries the reason of a failed probe from the probe to the
  store; the lemma `CancelledLasts` says that a context that is done, a request's or
  main's, stays so for as long as the process lives.
* **URL checker without overlap** (`UrlSequentialProofs`). `QuietConsistentHolds` assumes
  `MaxInFlight = 1` and a database that does not fail, and is false without either: an
  edit that overlaps a delete brings the check back to memory, and a delete the database
  refuses leaves a row that nothing probes. Signals and crashes in the middle of a request are covered. `Underway` says for every
  stage of a request what of its check is out of step, `OthersSettled` that all other
  checks are in step.
* **Broker** (`SSEBrokerProofs`). `TypeCorrect` gives the capacities.
  `NoSendOnClosedHolds` rests on `RegisteredOnce`: a client is in the register
  channel or in the map at most once and, once its channel is closed, in
  neither. `BrokerImplementsEventStream` rests on the order of the numbers along
  the path of an event: `broadcast`, then `send`, then `last`.
* **Auth log** (`AuthLogProofs`). `TypeCorrect`, `InOrderOnceHolds` and
  `NothingSkippedHolds` come from one invariant, `ParserInv`. `LogInv` is the shape of the
  log: fronts are followed by their rests, lines ascend in a file and from file to file.
  `Placed` says where the parser stands. `RowsPassed` makes `InOrderOnce` inductive: every
  recorded line is behind all that the parser may still read, but for the rest of a line
  whose front was handed out at the end of the file, and that matches no pattern.
  `Accounted` is `NothingSkipped` at the place the scanner has reached.
* **Collector** (`CollectorProofs`). `BytesCountedOnceHolds` rests on `CountersTell`:
  the distance from the counter last read to the counter now, modulo `W`, is what the
  device has moved since that read, unless it started again. Traffic keeps it across the wrap by `ModAdd`, an identity of
  remainders proved from the uniqueness of a remainder. `EventsTellState` is
  inductive once the events are known to be a sequence. `CacheKeepsHolds` and
  `TypeCorrect` go together: that a tick never stores nil follows from the types
  of what it stores; the types need `SignalInBudget`, since the restart after a
  signal has no guard of its own.
* **Dashboard** (`DashboardProofs`). `TypeCorrect` gives the capacities, `ShownOnceHolds`
  is inductive with the types. `AlertsCurrentHolds` and `ResultCurrentHolds` speak of a
  loaded page, and what it will show is in the answers of its load until then: the
  invariants add the same claim about the answers (`AnswerCurrent`, `AnsweredNewest`) and
  that the stream belongs to a loaded page (`StreamOfLoaded`). The lemmas say that an alert
  under way stays so until it arrives or is counted as missed, and that the newest result
  moves on from its goroutine towards the page unless it is dropped or overtaken.

Only model-checked: everything under fairness (`BreachIsAlerted`,
`ResolvesWhileMeasured`, `StoppedReturns`, `BootChecksKeepProbing`,
`HandlersProgress`, `SentIsDelivered`, `WrittenIsRead`, `TunnelConverges`,
`SecurityRecovers`, `Reconnects`, `AlertsArrive`), because liveness needs `ENABLED`,
which TLAPS does not reason about here. Every invariant, action property and refinement
that a passing run checks has a theorem. What a recursive definition computes
would need induction over data, which is out of the provers' reach too: the models
therefore speak of lists by places and counts (`Results`, `shown`), not by filtered
sequences.

## Not modelled

Configuration, routing, logging and basic authentication: they keep no state. Of
metrics, security and services only what has state or a cache is modelled; the rest
reads the operating system or the output of a command and passes it on. Regular
expressions, output parsing, the tunnel's name, rendering and styling: text. On the
page, the forms that add, delete and toggle checks and save thresholds: the server's
side of them is in `UrlChecker` and `AlertEngine`. Parts with state that are still to
come are in the plan.

## Plan

Done: the alert engine, the URL checker, the broker, the collector with its parts, the
auth log parser and the dashboard with relay and shutdown, each with its proofs.

1. `Monitoring`: `UrlChecker` and `AlertEngine` composed through the summaries, which
   `AlertEngine` lets change at will, so that a false DOWN, a stale result or a ghost
   check can be followed from the request that made it into the alert table, and edits that overlap (the lost update of
   `updateURLCheck`).
2. `Retention`: `url_check_results`, uptime over 24 h, `Purge` after 7 days,
   cascade on delete; the dates of auth log events and their purge.
3. The deferred `db.Close` against collector, purge, relay and handlers that are
   still running when `Shutdown` gives up.
4. Proofs: those of the modules above; an abstract specification of what a page may rely
   on, implemented by `Dashboard`; sharper forms of the theorems that assume a call that
   does not fail, saying what one failure costs.
