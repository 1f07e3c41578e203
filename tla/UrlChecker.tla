----------------------------- MODULE UrlChecker -----------------------------
(***************************************************************************)
(* The URL checker (internal/urlcheck), the url_checks table it writes     *)
(* (internal/storage) and the HTTP handlers that create, edit and delete   *)
(* checks (createURLCheck, updateURLCheck, HandleURLCheckByID).            *)
(*                                                                         *)
(* Each request is served by a goroutine of its own and takes Checker.mu   *)
(* once per step, so the steps of two requests interleave.  A check runs   *)
(* in a goroutine that belongs to a context: main's for the checks found   *)
(* at boot, the request's for a check started by a request.  net/http      *)
(* cancels the latter when the handler returns or the client goes away;    *)
(* main cancels its own on a signal, and the goroutines run on until the   *)
(* process has drained its requests and exits.                             *)
(*                                                                         *)
(* A configuration is a URL and the enabled flag; label, interval and      *)
(* timeout behave like the URL without its uniqueness.  The results table  *)
(* and the 24 h uptime read from it are left out, and so is ResultCh: the  *)
(* send to it never blocks and nothing in the checker reads it.            *)
(***************************************************************************)
EXTENDS Naturals, FiniteSets

CONSTANTS
  URLs,
  UpURLs,          \* the URLs that answer below 400 within their timeout
  Reqs,            \* requests: each is made at most once and owns a context
  None,
  InitIds,         \* the ids handed out before this history begins: 1..InitIds
  MaxId,           \* bound: ids handed out
  MaxInFlight,     \* bound: requests served at the same time
  MaxCrashes,      \* bound: signals and crashes of the process
  DBMayFail        \* may a database call of Start, Add, Update or Remove fail?

Ids == 1..MaxId
Configs == [url : URLs, enabled : BOOLEAN]
Edits == [url : URLs \cup {None}, enabled : BOOLEAN \cup {None}]  \* None: not in the request

(* A goroutine is named after what started it: a request, or, for the one  *)
(* Start launches at boot, the id of its check.                            *)
Starters == Reqs \cup Ids

Goroutine == [id : Ids, check : Configs, stopped : BOOLEAN, up : BOOLEAN,
              pc : {"probe", "store", "wait", "done"}]

ASSUME CheckerAssumption ==
  /\ UpURLs \subseteq URLs
  /\ None \notin URLs /\ None \notin Starters /\ None \notin BOOLEAN
  /\ None \notin Configs \cup Goroutine
  /\ Reqs \cap Ids = {}
  /\ InitIds \in Nat /\ MaxId \in Nat /\ InitIds <= MaxId
  /\ MaxInFlight \in Nat /\ MaxCrashes \in Nat
  /\ DBMayFail \in BOOLEAN

VARIABLES
  rows,            \* table url_checks: id -> configuration
  nextId,          \* its AUTOINCREMENT counter
  proc,            \* "up", "stopping" (main's context is done, no new requests) or "down"
  checks,          \* Checker.checks: id -> the goroutine that holds the stop channel
  summaries,       \* Checker.summaries: id -> [check, last]
  go,              \* per starter: its runCheck goroutine
  req,             \* per request: the operation, where it is and what it holds
  cancelled,       \* the requests whose context is done
  crashes

memory == <<checks, summaries, go>>
vars == <<rows, nextId, proc, checks, summaries, go, req, cancelled, crashes>>

LastResult == [check : Configs, up : BOOLEAN]
Summary == [check : Configs, last : LastResult \cup {None}]
Stage == {"new", "summary", "write", "stop", "relabel", "forget", "delete",
          "start", "respond", "done"}
Request == [at : Stage, id : Ids \cup {None}, check : Configs \cup {None}]

Put(f, x, y) == [i \in DOMAIN f \cup {x} |-> IF i = x THEN y ELSE f[i]]
Drop(f, x) == [i \in DOMAIN f \ {x} |-> f[i]]
Taken(url, id) == \E i \in DOMAIN rows \ {id} : rows[i].url = url

InFlight == {r \in Reqs : req[r].at \notin {"new", "done"}}

-----------------------------------------------------------------------------
(* Boot, restart and crash. *)

Nobody == [i \in Ids |-> None]
NoGoroutines == [s \in Starters |-> None]

Init ==
  /\ \E known \in SUBSET (1..InitIds) :
       rows \in {f \in [known -> Configs] : \A i, j \in known : f[i].url = f[j].url => i = j}
  /\ nextId = InitIds + 1
  /\ proc = "down"
  /\ checks = Nobody /\ summaries = [i \in {} |-> None] /\ go = NoGoroutines
  /\ req = [r \in Reqs |-> [at |-> "new", id |-> None, check |-> None]]
  /\ cancelled = {} /\ crashes = 0

Launched(i, check) ==
  [id |-> i, check |-> check, stopped |-> FALSE, up |-> FALSE, pc |-> "probe"]

(* Start: every enabled row gets a goroutine under main's context, before  *)
(* the first request is served.  The rows of disabled checks are skipped,  *)
(* summary included.                                                       *)
Start ==
  LET on == {i \in DOMAIN rows : rows[i].enabled}
  IN
  /\ proc = "down"
  /\ proc' = "up"
  /\ checks' = [i \in Ids |-> IF i \in on THEN i ELSE None]
  /\ summaries' = [i \in on |-> [check |-> rows[i], last |-> None]]
  /\ go' = [s \in Starters |-> IF s \in on THEN Launched(s, rows[s]) ELSE None]
  /\ UNCHANGED <<rows, nextId, req, cancelled, crashes>>

(* ListURLChecks fails: logged, and the server runs without checks. *)
StartFails ==
  /\ DBMayFail
  /\ proc = "down"
  /\ proc' = "up"
  /\ UNCHANGED <<rows, nextId, memory, req, cancelled, crashes>>

(* The process is gone, with its goroutines and the requests it was serving. *)
MemoryLost ==
  /\ proc' = "down"
  /\ checks' = Nobody /\ summaries' = [i \in {} |-> None] /\ go' = NoGoroutines
  /\ req' = [r \in Reqs |-> IF r \in InFlight THEN [req[r] EXCEPT !.at = "done"] ELSE req[r]]
  /\ UNCHANGED <<rows, nextId, cancelled>>

Crash ==
  /\ proc # "down"
  /\ crashes < MaxCrashes
  /\ crashes' = crashes + 1
  /\ MemoryLost

(* SIGINT or SIGTERM: main cancels its context and closes the listener.  The *)
(* requests in flight go on, and so does every goroutine until its select.   *)
Signal ==
  /\ proc = "up"
  /\ crashes < MaxCrashes
  /\ crashes' = crashes + 1
  /\ proc' = "stopping"
  /\ UNCHANGED <<rows, nextId, memory, req, cancelled>>

(* srv.Shutdown returns, because the requests are served or 10 s are over, *)
(* and main with it.                                                       *)
Exit ==
  /\ proc = "stopping"
  /\ MemoryLost
  /\ UNCHANGED crashes

-----------------------------------------------------------------------------
(* The goroutine of a check. *)

(* The context a goroutine runs under is done: its request's, or main's. *)
Cancelled(s) == s \in cancelled \/ (s \in Ids /\ proc = "stopping")

(* Mutant: closing the stop channel cuts the probe off as well. *)
ProbeUntilStopped(s) ==
  /\ go[s] # None /\ go[s].pc = "probe"
  /\ go' = [go EXCEPT ![s].pc = "store",
                      ![s].up = /\ go[s].check.url \in UpURLs
                                /\ ~Cancelled(s) /\ ~go[s].stopped]
  /\ UNCHANGED <<rows, nextId, proc, checks, summaries, req, cancelled, crashes>>

(* doCheck and InsertURLResult.  Under a context that is done, or is done *)
(* before the answer comes, client.Do fails and the result is "down".     *)
Probe(s) ==
  /\ go[s] # None /\ go[s].pc = "probe"
  /\ go' = [go EXCEPT ![s].pc = "store",
                      ![s].up = go[s].check.url \in UpURLs /\ ~Cancelled(s)]
  /\ UNCHANGED <<rows, nextId, proc, checks, summaries, req, cancelled, crashes>>

(* Mutant: runCheck does not loop. *)
StoreResultAndReturn(s) ==
  /\ go[s] # None /\ go[s].pc = "store"
  /\ go' = [go EXCEPT ![s].pc = "done"]
  /\ UNCHANGED <<rows, nextId, proc, checks, summaries, req, cancelled, crashes>>

(* The result enters the summary, if there is one for this id. *)
StoreResult(s) ==
  /\ go[s] # None /\ go[s].pc = "store"
  /\ go' = [go EXCEPT ![s].pc = "wait", ![s].up = FALSE]
  /\ LET g == go[s]
     IN summaries' = [i \in DOMAIN summaries |->
          IF i = g.id
          THEN [summaries[i] EXCEPT !.last = [check |-> g.check, up |-> g.up]]
          ELSE summaries[i]]
  /\ UNCHANGED <<rows, nextId, proc, checks, req, cancelled, crashes>>

(* The select of runCheck: the ticker, the stop channel or the context. *)
Tick(s) ==
  /\ go[s] # None /\ go[s].pc = "wait"
  /\ go' = [go EXCEPT ![s].pc = "probe"]
  /\ UNCHANGED <<rows, nextId, proc, checks, summaries, req, cancelled, crashes>>

(* Mutant: the select has no case for the stop channel. *)
ReturnOnContextOnly(s) ==
  /\ go[s] # None /\ go[s].pc = "wait"
  /\ Cancelled(s)
  /\ go' = [go EXCEPT ![s].pc = "done"]
  /\ UNCHANGED <<rows, nextId, proc, checks, summaries, req, cancelled, crashes>>

Return(s) ==
  /\ go[s] # None /\ go[s].pc = "wait"
  /\ go[s].stopped \/ Cancelled(s)
  /\ go' = [go EXCEPT ![s].pc = "done"]
  /\ UNCHANGED <<rows, nextId, proc, checks, summaries, req, cancelled, crashes>>

-----------------------------------------------------------------------------
(* Requests.  Each step is one database call or one critical section. *)

(* The handler returns; net/http cancels the request's context. *)
Done(r) ==
  /\ req' = [req EXCEPT ![r].at = "done"]
  /\ cancelled' = cancelled \cup {r}

Goto(r, stage) ==
  /\ req' = [req EXCEPT ![r].at = stage]
  /\ UNCHANGED cancelled

Arrives(r) ==
  /\ proc = "up"
  /\ req[r].at = "new"
  /\ Cardinality(InFlight) < MaxInFlight

(* The url column is UNIQUE. *)
InsertURLCheck(check) ==
  /\ ~Taken(check.url, 0)
  /\ rows' = Put(rows, nextId, check)
  /\ nextId' = nextId + 1

(* POST /api/url-checks: 500 when the row is refused. *)
Add(r, check) ==
  /\ Arrives(r)
  /\ nextId \in Ids
  /\ \/ /\ InsertURLCheck(check)
        /\ req' = [req EXCEPT ![r] = [at |-> "summary", id |-> nextId, check |-> check]]
        /\ UNCHANGED cancelled
     \/ /\ Taken(check.url, 0) \/ DBMayFail
        /\ Done(r)
        /\ UNCHANGED <<rows, nextId>>
  /\ UNCHANGED <<proc, memory, crashes>>

NewSummary(r) ==
  /\ req[r].at = "summary"
  /\ summaries' = Put(summaries, req[r].id, [check |-> req[r].check, last |-> None])
  /\ Goto(r, IF req[r].check.enabled THEN "start" ELSE "respond")
  /\ UNCHANGED <<rows, nextId, proc, checks, go, crashes>>

(* Mutant: fields missing from the request are taken as they are. *)
EditedBlindly(check, edit) == [url |-> edit.url, enabled |-> edit.enabled]

Edited(check, edit) ==
  [url     |-> IF edit.url = None THEN check.url ELSE edit.url,
   enabled |-> IF edit.enabled = None THEN check.enabled ELSE edit.enabled]

(* PUT /api/url-checks/{id}: the row is read and the fields of the request *)
(* are laid over it; 404 when there is no row.                             *)
GetURLCheck(r, id, edit) ==
  /\ Arrives(r)
  /\ \/ /\ id \in DOMAIN rows
        /\ req' = [req EXCEPT ![r] = [at |-> "write", id |-> id,
                                      check |-> Edited(rows[id], edit)]]
        /\ UNCHANGED cancelled
     \/ /\ id \notin DOMAIN rows \/ DBMayFail
        /\ Done(r)
  /\ UNCHANGED <<rows, nextId, proc, memory, crashes>>

(* UPDATE ... WHERE id=?: of a row that is gone it updates nothing and *)
(* reports no error.                                                   *)
UpdateURLCheck(r) ==
  /\ req[r].at = "write"
  /\ \/ /\ req[r].id \in DOMAIN rows => ~Taken(req[r].check.url, req[r].id)
        /\ rows' = [i \in DOMAIN rows |-> IF i = req[r].id THEN req[r].check ELSE rows[i]]
        /\ Goto(r, "stop")
     \/ /\ \/ req[r].id \in DOMAIN rows /\ Taken(req[r].check.url, req[r].id)
           \/ DBMayFail
        /\ Done(r)
        /\ UNCHANGED rows
  /\ UNCHANGED <<nextId, proc, memory, crashes>>

(* Mutant: the entry stays in the map. *)
StopCheckKeepsEntry(id) ==
  /\ go' = IF checks[id] = None THEN go ELSE [go EXCEPT ![checks[id]].stopped = TRUE]
  /\ UNCHANGED checks

(* stopCheck: close the stop channel and forget the goroutine. *)
StopCheck(id) ==
  /\ go' = IF checks[id] = None THEN go ELSE [go EXCEPT ![checks[id]].stopped = TRUE]
  /\ checks' = [checks EXCEPT ![id] = None]

(* Mutant: Update starts the new goroutine beside the old one. *)
UpdateStopSkipped(r) ==
  /\ req[r].at = "stop"
  /\ Goto(r, "relabel")
  /\ UNCHANGED <<rows, nextId, proc, memory, crashes>>

UpdateStop(r) ==
  /\ req[r].at = "stop"
  /\ StopCheck(req[r].id)
  /\ Goto(r, "relabel")
  /\ UNCHANGED <<rows, nextId, proc, summaries, crashes>>

(* Mutant: the summary keeps the old configuration. *)
UpdateSummarySkipped(r) ==
  /\ req[r].at = "relabel"
  /\ Goto(r, IF req[r].check.enabled THEN "start" ELSE "respond")
  /\ UNCHANGED <<rows, nextId, proc, memory, crashes>>

UpdateSummary(r) ==
  /\ req[r].at = "relabel"
  /\ summaries' = [i \in DOMAIN summaries |->
                     IF i = req[r].id THEN [summaries[i] EXCEPT !.check = req[r].check]
                     ELSE summaries[i]]
  /\ Goto(r, IF req[r].check.enabled THEN "start" ELSE "respond")
  /\ UNCHANGED <<rows, nextId, proc, checks, go, crashes>>

(* startCheck, for Add and Update: the goroutine runs under r's context. *)
StartCheck(r) ==
  /\ req[r].at = "start"
  /\ LET id == req[r].id
     IN /\ checks' = [checks EXCEPT ![id] = r]
        /\ summaries' = IF id \in DOMAIN summaries THEN summaries
                        ELSE Put(summaries, id, [check |-> req[r].check, last |-> None])
        /\ go' = [go EXCEPT ![r] = Launched(id, req[r].check)]
  /\ Goto(r, "respond")
  /\ UNCHANGED <<rows, nextId, proc, crashes>>

(* Mutant: the goroutine is neither told nor dropped from the map. *)
RemoveUnstopped(r, id) ==
  /\ Arrives(r)
  /\ req' = [req EXCEPT ![r] = [at |-> "forget", id |-> id, check |-> None]]
  /\ UNCHANGED <<rows, nextId, proc, memory, cancelled, crashes>>

(* DELETE /api/url-checks/{id}: stop, forget the summary, delete the row. *)
Remove(r, id) ==
  /\ Arrives(r)
  /\ StopCheck(id)
  /\ req' = [req EXCEPT ![r] = [at |-> "forget", id |-> id, check |-> None]]
  /\ UNCHANGED <<rows, nextId, proc, summaries, cancelled, crashes>>

RemoveSummary(r) ==
  /\ req[r].at = "forget"
  /\ summaries' = Drop(summaries, req[r].id)
  /\ Goto(r, "delete")
  /\ UNCHANGED <<rows, nextId, proc, checks, go, crashes>>

DeleteURLCheck(r) ==
  /\ req[r].at = "delete"
  /\ \/ rows' = Drop(rows, req[r].id)
     \/ DBMayFail /\ UNCHANGED rows
  /\ Goto(r, "respond")
  /\ UNCHANGED <<nextId, proc, memory, crashes>>

Respond(r) ==
  /\ req[r].at = "respond"
  /\ Done(r)
  /\ UNCHANGED <<rows, nextId, proc, memory, crashes>>

(* The client closes its connection while the request is being served. *)
ClientGone(r) ==
  /\ r \in InFlight \ cancelled
  /\ cancelled' = cancelled \cup {r}
  /\ UNCHANGED <<rows, nextId, proc, memory, req, crashes>>

-----------------------------------------------------------------------------
RunCheck(s) == Probe(s) \/ StoreResult(s) \/ Tick(s) \/ Return(s)

Arrive(r) ==
  \/ \E check \in Configs : Add(r, check)
  \/ \E id \in Ids, edit \in Edits : GetURLCheck(r, id, edit)
  \/ \E id \in Ids : Remove(r, id)

Serve(r) ==
  \/ NewSummary(r) \/ UpdateURLCheck(r) \/ UpdateStop(r) \/ UpdateSummary(r)
  \/ StartCheck(r) \/ RemoveSummary(r) \/ DeleteURLCheck(r) \/ Respond(r)

Next ==
  \/ Start
  \/ StartFails
  \/ Crash
  \/ Signal
  \/ Exit
  \/ \E s \in Starters : RunCheck(s)
  \/ \E r \in Reqs : Arrive(r) \/ Serve(r) \/ ClientGone(r)

Spec == Init /\ [][Next]_vars

(* Probes end by their timeout, tickers tick and a handler that runs        *)
(* returns.  A select in which the stop channel or the context is ready     *)
(* again and again picks it in the end (Go picks among the ready cases at   *)
(* random): strong fairness for Return.                                     *)
Fairness ==
  /\ \A s \in Starters :
       /\ WF_vars(Probe(s)) /\ WF_vars(StoreResult(s))
       /\ WF_vars(Tick(s)) /\ SF_vars(Return(s))
  /\ \A r \in Reqs : WF_vars(Serve(r))

FairSpec == Spec /\ Fairness

-----------------------------------------------------------------------------
TypeTable ==
  /\ nextId \in 1..(MaxId + 1)
  /\ rows \in [DOMAIN rows -> Configs] /\ DOMAIN rows \subseteq 1..(nextId - 1)

TypeChecks ==
  /\ checks \in [Ids -> Starters \cup {None}]
  /\ go \in [Starters -> Goroutine \cup {None}]

TypeSummaries ==
  summaries \in [DOMAIN summaries -> Summary] /\ DOMAIN summaries \subseteq Ids

TypeRequests ==
  /\ proc \in {"up", "stopping", "down"}
  /\ req \in [Reqs -> Request]
  /\ \A r \in InFlight : req[r].id \in Ids
  /\ \A r \in Reqs : req[r].at \in {"summary", "write", "stop", "relabel", "start"} =>
       req[r].check \in Configs
  /\ cancelled \subseteq Reqs
  /\ crashes \in 0..MaxCrashes

TypeOK == TypeTable /\ TypeChecks /\ TypeSummaries /\ TypeRequests

Alive(s) == go[s] # None /\ go[s].pc # "done"

(* The goroutine registered for an id belongs to that id and its stop        *)
(* channel is open, however requests interleave: stopCheck closes it without *)
(* looking, and closing a closed channel panics.                             *)
StopChannelOpen ==
  \A i \in Ids : checks[i] # None =>
    go[checks[i]] # None /\ go[checks[i]].id = i /\ ~go[checks[i]].stopped

(* A goroutine that nothing can stop any more, neither through the checks    *)
(* map nor through the end of a request, does not exist.                     *)
NoImmortalOrphan ==
  \A i \in Ids : Alive(i) /\ ~go[i].stopped => checks[i] = i

(* Between requests that did not overlap, the table, the summaries and the   *)
(* registered goroutines say the same of every check.                        *)
QuietConsistent ==
  proc # "down" /\ InFlight = {} =>
    \A i \in Ids :
      /\ i \in DOMAIN summaries => i \in DOMAIN rows /\ summaries[i].check = rows[i]
      /\ checks[i] # None <=> i \in DOMAIN rows /\ rows[i].enabled
      /\ checks[i] # None => i \in DOMAIN summaries /\ go[checks[i]].check = rows[i]

(* Once every request has returned, no goroutine goes on probing the URL of  *)
(* a check that was deleted, also where an Update or another Remove of the   *)
(* check overlapped: it was stopped, or its context is done.                 *)
DeletedIsLeftAlone ==
  InFlight = {} =>
    \A s \in Starters :
      Alive(s) /\ go[s].id \notin DOMAIN rows => go[s].stopped \/ Cancelled(s)

(* A check whose URL answers is listed as down only because the context of   *)
(* a goroutine that probed this very configuration of it is done             *)
(* (checker.go:178): a request that created or edited it has ended, or main  *)
(* is shutting down.  Edits, deletes and stopped goroutines of the check, or *)
(* of others, never make an outage of a probe.                               *)
FalseDownIsCutOff ==
  \A i \in DOMAIN summaries :
    LET last == summaries[i].last
    IN last # None /\ ~last.up /\ last.check.url \in UpURLs =>
         \E s \in Starters :
           Cancelled(s) /\ go[s] # None /\ go[s].id = i /\ go[s].check = last.check

(* "Add creates a new URL check in DB and starts its goroutine",             *)
(* "Update modifies a URL check and restarts its goroutine"                  *)
(* (checker.go:196, 214): a check that is enabled in the table and           *)
(* registered has a goroutine that still runs.                               *)
EnabledIsWatched ==
  \A i \in DOMAIN rows : rows[i].enabled /\ checks[i] # None => Alive(checks[i])

(* A stopped goroutine, also one whose request is over, returns.             *)
StoppedReturns ==
  \A s \in Starters :
    (Alive(s) /\ (go[s].stopped \/ Cancelled(s))) ~> ~Alive(s)

(* A check found at boot is probed again and again until it is stopped or    *)
(* main shuts down: no request ends it by any other way than stopCheck.      *)
BootChecksKeepProbing ==
  \A i \in Ids :
    (go[i] # None) ~>
      (go[i] = None \/ go[i].stopped \/ Cancelled(i) \/ go[i].pc = "probe")
=============================================================================
