-------------------------- MODULE UrlCheckerProofs --------------------------
(* Proofs about UrlChecker, for every value of its constants: any number of *)
(* checks, of overlapping requests and of crashes, failing database calls   *)
(* included.                                                                *)
EXTENDS UrlChecker, TLAPS

-----------------------------------------------------------------------------
(* The inductive invariant.  Type correctness and the two properties of the *)
(* goroutines hold each other up: closing a stop channel is well typed only *)
(* if the registered goroutine exists, and a registered goroutine is open   *)
(* only because nothing is registered twice.                                *)

(* A request that has a goroutine is past startCheck: it starts no second. *)
StartsOnce ==
  \A r \in Reqs : go[r] # None => req[r].at \in {"respond", "done"}

(* A goroutine launched at boot runs the check it is named after, and that *)
(* id was handed out: InsertURLCheck will not return it again.             *)
BootOwn ==
  \A i \in Ids : go[i] # None => go[i].id = i /\ i < nextId

(* A request about to start a goroutine, or to delete the row, has the boot *)
(* goroutine of its id out of the way: Add because the id is new, Update    *)
(* and Remove because they stopped it and only Start registers one.         *)
BootMoved ==
  \A r \in Reqs : req[r].at \in {"summary", "relabel", "start", "forget", "delete"} =>
    checks[req[r].id] # req[r].id

(* A boot goroutine that is still registered has its row: the row goes only *)
(* after the goroutine was stopped.                                         *)
BootHasRow ==
  \A i \in Ids : checks[i] = i => i \in DOMAIN rows

(* The goroutine of a request that has returned has lost its context.       *)
EndedIsCancelled ==
  \A r \in Reqs : go[r] # None /\ req[r].at = "done" => r \in cancelled

(* A probe that found a URL down that answers was cut off by its context.   *)
DownIsCancelled ==
  \A s \in Starters :
    go[s] # None /\ go[s].pc = "store" /\ ~go[s].up /\ go[s].check.url \in UpURLs =>
      Cancelled(s)

(* No request is served while the process is down. *)
DownIsIdle == proc = "down" => InFlight = {}

CheckerInv ==
  /\ TypeOK /\ StopChannelOpen /\ NoImmortalOrphan
  /\ StartsOnce /\ BootOwn /\ BootMoved /\ DownIsIdle

-----------------------------------------------------------------------------
(* What every request step has in hand. *)
LEMMA Serving ==
  ASSUME TypeRequests, NEW r \in Reqs, req[r].at \notin {"new", "done"}
  PROVE  r \in InFlight /\ req[r].id \in Ids
  BY DEF TypeRequests, InFlight

LEMMA InitInv == Init => CheckerInv
<1> SUFFICES ASSUME Init PROVE CheckerInv
  OBVIOUS
<1> USE CheckerAssumption
<1>1. TypeTable
  <2>1. PICK known \in SUBSET (1..InitIds) : rows \in [known -> Configs]
    BY DEF Init
  <2>2. nextId = InitIds + 1
    BY DEF Init
  <2> QED BY <2>1, <2>2 DEF TypeTable
<1>2. InFlight = {}
  BY DEF Init, InFlight
<1>3. TypeRequests
  BY <1>2 DEF Init, TypeRequests, Request, Stage
<1>4. TypeChecks /\ TypeSummaries
  BY DEF Init, TypeChecks, TypeSummaries, Nobody, NoGoroutines
<1>5. \A s \in Starters : go[s] = None
  BY DEF Init, NoGoroutines
<1>6. \A i \in Ids : checks[i] = None
  BY DEF Init, Nobody
<1>7. StartsOnce /\ BootOwn /\ StopChannelOpen /\ NoImmortalOrphan
  BY <1>5, <1>6 DEF StartsOnce, BootOwn, StopChannelOpen, NoImmortalOrphan, Alive, Starters
<1>8. BootMoved
  BY DEF Init, BootMoved
<1> QED BY <1>1, <1>2, <1>3, <1>4, <1>7, <1>8 DEF CheckerInv, TypeOK, DownIsIdle

-----------------------------------------------------------------------------
(* Type correctness, part by part. *)

LEMMA NextTypeTable == CheckerInv /\ [Next]_vars => TypeTable'
<1> SUFFICES ASSUME CheckerInv, [Next]_vars
             PROVE  TypeTable'
  OBVIOUS
<1> USE CheckerAssumption DEF TypeTable
<1>0. TypeTable /\ TypeRequests
  BY DEF CheckerInv, TypeOK
<1>1. ASSUME UNCHANGED <<rows, nextId>>
      PROVE  TypeTable'
  BY <1>0, <1>1
<1>2. ASSUME NEW r \in Reqs, NEW check \in Configs, Add(r, check)
      PROVE  TypeTable'
  <2>1. CASE rows' = Put(rows, nextId, check) /\ nextId' = nextId + 1
    <3>1. nextId \in Ids
      BY <1>2 DEF Add
    <3>2. DOMAIN rows' = DOMAIN rows \cup {nextId}
      BY <2>1 DEF Put
    <3>3. rows' \in [DOMAIN rows' -> Configs]
      BY <1>0, <2>1 DEF Put
    <3>4. nextId' \in 1..(MaxId + 1) /\ DOMAIN rows' \subseteq 1..(nextId' - 1)
      BY <1>0, <2>1, <3>1, <3>2 DEF Ids
    <3> QED BY <3>3, <3>4
  <2> QED BY <1>1, <1>2, <2>1 DEF Add, InsertURLCheck
<1>3. ASSUME NEW r \in Reqs, UpdateURLCheck(r)
      PROVE  TypeTable'
  <2>1. CASE rows' = [i \in DOMAIN rows |-> IF i = req[r].id THEN req[r].check ELSE rows[i]]
    <3>1. nextId' = nextId /\ req[r].check \in Configs
      BY <1>0, <1>3 DEF UpdateURLCheck, TypeRequests
    <3>2. DOMAIN rows' = DOMAIN rows
      BY <2>1
    <3>3. rows' \in [DOMAIN rows' -> Configs]
      BY <1>0, <2>1, <3>1
    <3> QED BY <1>0, <3>1, <3>2, <3>3
  <2> QED BY <1>1, <1>3, <2>1 DEF UpdateURLCheck
<1>4. ASSUME NEW r \in Reqs, DeleteURLCheck(r)
      PROVE  TypeTable'
  <2>1. CASE rows' = Drop(rows, req[r].id)
    <3>1. nextId' = nextId
      BY <1>4 DEF DeleteURLCheck
    <3>2. DOMAIN rows' = DOMAIN rows \ {req[r].id}
      BY <2>1 DEF Drop
    <3>3. rows' \in [DOMAIN rows' -> Configs]
      BY <1>0, <2>1 DEF Drop
    <3> QED BY <1>0, <3>1, <3>2, <3>3
  <2> QED BY <1>1, <1>4, <2>1 DEF DeleteURLCheck
<1> HIDE DEF TypeTable
<1>5. CASE Start \/ StartFails \/ Signal \/ MemoryLost \/ UNCHANGED vars
  BY <1>1, <1>5 DEF Start, StartFails, Signal, MemoryLost, vars
<1>6. CASE \E s \in Starters : RunCheck(s)
  BY <1>1, <1>6 DEF RunCheck, Probe, StoreResult, Tick, Return
<1>7. CASE \E r \in Reqs : Arrive(r) \/ Serve(r) \/ ClientGone(r)
  BY <1>1, <1>2, <1>3, <1>4, <1>7
     DEF Arrive, GetURLCheck, Remove, Serve, NewSummary, UpdateStop, UpdateSummary,
         StartCheck, RemoveSummary, Respond, ClientGone
<1> QED BY <1>5, <1>6, <1>7 DEF Next, Crash, Exit

LEMMA NextTypeChecks == CheckerInv /\ [Next]_vars => TypeChecks'
<1> SUFFICES ASSUME CheckerInv, [Next]_vars
             PROVE  TypeChecks'
  OBVIOUS
<1> USE CheckerAssumption DEF TypeChecks
<1>0. TypeChecks /\ TypeRequests /\ TypeTable /\ StopChannelOpen
  BY DEF CheckerInv, TypeOK
<1>1. ASSUME UNCHANGED <<checks, go>>
      PROVE  TypeChecks'
  BY <1>0, <1>1
<1>2. CASE Start
  <2>1. DOMAIN rows \subseteq Ids /\ \A i \in DOMAIN rows : rows[i] \in Configs
    BY <1>0 DEF TypeTable, Ids
  <2>2. \A i \in DOMAIN rows : Launched(i, rows[i]) \in Goroutine
    BY <2>1 DEF Launched, Goroutine
  <2>3. checks' \in [Ids -> Starters \cup {None}]
    BY <1>2 DEF Start, Starters
  <2>4. go' \in [Starters -> Goroutine \cup {None}]
    BY <1>2, <2>2 DEF Start
  <2> QED BY <1>0, <2>3, <2>4
<1>3. CASE MemoryLost
  BY <1>3 DEF MemoryLost, Nobody, NoGoroutines
<1>4. ASSUME NEW s \in Starters, RunCheck(s)
      PROVE  TypeChecks'
  <2>1. go[s] \in Goroutine /\ UNCHANGED checks
    BY <1>0, <1>4 DEF RunCheck, Probe, StoreResult, Tick, Return
  <2>2. PICK g \in Goroutine : go' = [go EXCEPT ![s] = g]
    <3>1. CASE Probe(s)
      BY <2>1, <3>1 DEF Probe, Goroutine
    <3>2. CASE StoreResult(s)
      BY <2>1, <3>2 DEF StoreResult, Goroutine
    <3>3. CASE Tick(s)
      BY <2>1, <3>3 DEF Tick, Goroutine
    <3>4. CASE Return(s)
      BY <2>1, <3>4 DEF Return, Goroutine
    <3> QED BY <1>4, <3>1, <3>2, <3>3, <3>4 DEF RunCheck
  <2> QED BY <1>0, <2>1, <2>2
<1>5. ASSUME NEW id \in Ids, StopCheck(id)
      PROVE  TypeChecks'
  <2>1. checks' \in [Ids -> Starters \cup {None}]
    BY <1>0, <1>5 DEF StopCheck
  <2>2. go' \in [Starters -> Goroutine \cup {None}]
    <3>1. CASE checks[id] = None
      BY <1>0, <1>5, <3>1 DEF StopCheck
    <3>2. CASE checks[id] # None
      <4>1. go[checks[id]] \in Goroutine /\ checks[id] \in Starters
        BY <1>0, <3>2 DEF StopChannelOpen
      <4>2. [go[checks[id]] EXCEPT !.stopped = TRUE] \in Goroutine
        BY <4>1 DEF Goroutine
      <4>3. go' = [go EXCEPT ![checks[id]].stopped = TRUE]
        BY <1>5, <3>2 DEF StopCheck
      <4> QED BY <1>0, <4>1, <4>2, <4>3
    <3> QED BY <3>1, <3>2
  <2> QED BY <1>0, <1>5, <2>1, <2>2
<1>6. ASSUME NEW r \in Reqs, StartCheck(r)
      PROVE  TypeChecks'
  <2>1. req[r].id \in Ids /\ req[r].check \in Configs
    BY <1>0, <1>6, Serving DEF StartCheck, TypeRequests
  <2>2. Launched(req[r].id, req[r].check) \in Goroutine
    BY <1>0, <2>1 DEF Launched, Goroutine
  <2>3. r \in Starters
    BY DEF Starters
  <2>4. /\ checks' = [checks EXCEPT ![req[r].id] = r]
        /\ go' = [go EXCEPT ![r] = Launched(req[r].id, req[r].check)]
    BY <1>6 DEF StartCheck
  <2> QED BY <1>0, <2>1, <2>2, <2>3, <2>4
<1> HIDE DEF TypeChecks
<1>7. CASE StartFails \/ Signal \/ UNCHANGED vars
  BY <1>1, <1>7 DEF StartFails, Signal, vars, memory
<1>8. CASE \E r \in Reqs : Arrive(r) \/ ClientGone(r)
  BY <1>1, <1>5, <1>8 DEF Arrive, Add, GetURLCheck, Remove, ClientGone, memory
<1>9. ASSUME NEW r \in Reqs, Serve(r)
      PROVE  TypeChecks'
  <2>1. CASE UpdateStop(r)
    <3>1. req[r].id \in Ids
      BY <1>0, <2>1, Serving DEF UpdateStop
    <3> QED BY <1>5, <2>1, <3>1 DEF UpdateStop
  <2> QED
    BY <1>1, <1>6, <1>9, <2>1
       DEF Serve, NewSummary, UpdateURLCheck, UpdateSummary, RemoveSummary, DeleteURLCheck,
           Respond, memory
<1> QED BY <1>2, <1>3, <1>4, <1>7, <1>8, <1>9 DEF Next, Crash, Exit

LEMMA NextTypeSummaries == CheckerInv /\ [Next]_vars => TypeSummaries'
<1> SUFFICES ASSUME CheckerInv, [Next]_vars
             PROVE  TypeSummaries'
  OBVIOUS
<1> USE CheckerAssumption DEF TypeSummaries
<1>0. TypeSummaries /\ TypeChecks /\ TypeRequests /\ TypeTable
  BY DEF CheckerInv, TypeOK
<1>1. ASSUME UNCHANGED summaries
      PROVE  TypeSummaries'
  BY <1>0, <1>1
<1>2. CASE Start
  <2>1. DOMAIN rows \subseteq Ids /\ \A i \in DOMAIN rows : rows[i] \in Configs
    BY <1>0 DEF TypeTable, Ids
  <2>2. \A i \in DOMAIN rows : [check |-> rows[i], last |-> None] \in Summary
    BY <2>1 DEF Summary
  <2> QED BY <1>2, <2>1, <2>2 DEF Start
<1>3. CASE MemoryLost
  BY <1>3 DEF MemoryLost
<1>4. ASSUME NEW s \in Starters, StoreResult(s)
      PROVE  TypeSummaries'
  <2>1. go[s] \in Goroutine
    BY <1>0, <1>4 DEF StoreResult, TypeChecks
  <2> DEFINE result == [check |-> go[s].check, up |-> go[s].up]
  <2>2. result \in LastResult
    BY <2>1 DEF Goroutine, LastResult
  <2>3. summaries' = [i \in DOMAIN summaries |->
          IF i = go[s].id THEN [summaries[i] EXCEPT !.last = result] ELSE summaries[i]]
    BY <1>4 DEF StoreResult
  <2> HIDE DEF result
  <2>4. \A i \in DOMAIN summaries : [summaries[i] EXCEPT !.last = result] \in Summary
    BY <1>0, <2>2 DEF Summary
  <2> QED BY <1>0, <2>3, <2>4
<1>5. ASSUME NEW i \in Ids, NEW check \in Configs,
             summaries' = Put(summaries, i, [check |-> check, last |-> None])
      PROVE  TypeSummaries'
  <2>1. [check |-> check, last |-> None] \in Summary
    BY DEF Summary
  <2> QED BY <1>0, <1>5, <2>1 DEF Put
<1>6. ASSUME NEW r \in Reqs, UpdateSummary(r)
      PROVE  TypeSummaries'
  <2>1. req[r].check \in Configs
    BY <1>0, <1>6 DEF UpdateSummary, TypeRequests
  <2>2. \A i \in DOMAIN summaries : [summaries[i] EXCEPT !.check = req[r].check] \in Summary
    BY <1>0, <2>1 DEF Summary
  <2> QED BY <1>0, <1>6, <2>2 DEF UpdateSummary
<1>7. ASSUME NEW i, summaries' = Drop(summaries, i)
      PROVE  TypeSummaries'
  BY <1>0, <1>7 DEF Drop
<1> HIDE DEF TypeSummaries
<1>8. CASE StartFails \/ Signal \/ UNCHANGED vars
  BY <1>1, <1>8 DEF StartFails, Signal, vars, memory
<1>9. CASE \E s \in Starters : RunCheck(s)
  BY <1>1, <1>4, <1>9 DEF RunCheck, Probe, Tick, Return
<1>10. CASE \E r \in Reqs : Arrive(r) \/ ClientGone(r)
  BY <1>1, <1>10 DEF Arrive, Add, GetURLCheck, Remove, ClientGone, memory
<1>11. ASSUME NEW r \in Reqs, Serve(r)
       PROVE  TypeSummaries'
  <2>1. CASE NewSummary(r) \/ StartCheck(r)
    <3>1. req[r].id \in Ids /\ req[r].check \in Configs
      BY <1>0, <2>1, Serving DEF NewSummary, StartCheck, TypeRequests
    <3> QED BY <1>1, <1>5, <2>1, <3>1 DEF NewSummary, StartCheck
  <2> QED
    BY <1>1, <1>6, <1>7, <1>11, <2>1
       DEF Serve, UpdateURLCheck, UpdateStop, RemoveSummary, DeleteURLCheck, Respond, memory
<1> QED BY <1>2, <1>3, <1>8, <1>9, <1>10, <1>11 DEF Next, Crash, Exit

(* A step of a request writes its own entry of req only. *)
LEMMA RequestMoves ==
  ASSUME TypeRequests, NEW r \in Reqs, NEW new \in Request,
         new.at \notin {"new", "done"} => new.id \in Ids,
         new.at \in {"summary", "write", "stop", "relabel", "start"} => new.check \in Configs,
         req' = [req EXCEPT ![r] = new],
         cancelled' \in {cancelled, cancelled \cup {r}},
         UNCHANGED <<proc, crashes>>
  PROVE  TypeRequests'
<1> USE DEF TypeRequests
<1>1. req' \in [Reqs -> Request] /\ \A q \in Reqs : req'[q] = IF q = r THEN new ELSE req[q]
  OBVIOUS
<1>2. \A q \in InFlight' : req'[q].id \in Ids
  BY <1>1 DEF InFlight
<1>3. cancelled' \subseteq Reqs
  OBVIOUS
<1> QED BY <1>1, <1>2, <1>3

LEMMA NextTypeRequests == CheckerInv /\ [Next]_vars => TypeRequests'
<1> SUFFICES ASSUME CheckerInv, [Next]_vars
             PROVE  TypeRequests'
  OBVIOUS
<1> USE CheckerAssumption
<1>0. TypeRequests /\ TypeTable
  BY DEF CheckerInv, TypeOK
<1>1. ASSUME UNCHANGED <<proc, req, cancelled, crashes>>
      PROVE  TypeRequests'
  BY <1>0, <1>1 DEF TypeRequests, InFlight
<1>2. CASE Start \/ StartFails \/ Signal
  <2>1. /\ proc' \in {"up", "stopping"} /\ UNCHANGED <<req, cancelled>>
        /\ crashes' = crashes \/ (crashes' = crashes + 1 /\ crashes < MaxCrashes)
    BY <1>2 DEF Start, StartFails, Signal
  <2> QED BY <1>0, <2>1 DEF TypeRequests, InFlight
<1>3. CASE Crash \/ Exit
  <2> USE DEF TypeRequests
  <2>1. /\ proc' = "down" /\ cancelled' = cancelled
        /\ crashes' = crashes \/ (crashes' = crashes + 1 /\ crashes < MaxCrashes)
    BY <1>3 DEF Crash, Exit, MemoryLost
  <2>2. req' \in [Reqs -> Request] /\ \A r \in Reqs : req'[r].at \in {"new", "done"}
    <3>1. \A r \in Reqs : [req[r] EXCEPT !.at = "done"] \in Request
      BY <1>0 DEF Request, Stage
    <3> QED BY <1>0, <1>3, <3>1 DEF Crash, Exit, MemoryLost, InFlight, Request
  <2>3. InFlight' = {}
    BY <2>2 DEF InFlight
  <2>4. crashes' \in 0..MaxCrashes
    BY <1>0, <2>1
  <2> QED BY <1>0, <2>1, <2>2, <2>3, <2>4
<1>4. ASSUME NEW r \in Reqs, NEW stage \in Stage \ {"new"},
             req' = [req EXCEPT ![r].at = stage], cancelled' \in {cancelled, cancelled \cup {r}},
             stage = "done" \/ req[r].id \in Ids,
             stage \in {"stop", "relabel", "start"} => req[r].check \in Configs,
             stage \notin {"summary", "write"},
             UNCHANGED <<proc, crashes>>
      PROVE  TypeRequests'
  <2> DEFINE new == [req[r] EXCEPT !.at = stage]
  <2>1. req[r] \in Request
    BY <1>0 DEF TypeRequests
  <2>2. new \in Request /\ new.at = stage /\ new.id = req[r].id /\ new.check = req[r].check
    BY <2>1 DEF Request
  <2>3. req' = [req EXCEPT ![r] = new]
    BY <1>4
  <2> HIDE DEF new
  <2> QED BY <1>0, <1>4, <2>2, <2>3, RequestMoves
<1>5. ASSUME NEW r \in Reqs, Done(r), UNCHANGED <<proc, crashes>>
      PROVE  TypeRequests'
  <2>1. req' = [req EXCEPT ![r].at = "done"] /\ cancelled' \in {cancelled, cancelled \cup {r}}
    BY <1>5 DEF Done
  <2>2. "done" \in Stage \ {"new"}
    BY DEF Stage
  <2> QED BY <1>4, <1>5, <2>1, <2>2
<1>6. ASSUME NEW r \in Reqs, NEW new \in Request, new.id \in Ids,
             new.at \in {"summary", "write"} => new.check \in Configs,
             new.at \in {"summary", "write", "forget"},
             req' = [req EXCEPT ![r] = new], UNCHANGED <<cancelled, proc, crashes>>
      PROVE  TypeRequests'
  BY <1>0, <1>6, RequestMoves
<1>7. ASSUME NEW r \in Reqs, Arrive(r)
      PROVE  TypeRequests'
  <2>1. ASSUME NEW check \in Configs, Add(r, check)
        PROVE  TypeRequests'
    <3> DEFINE new == [at |-> "summary", id |-> nextId, check |-> check]
    <3>1. nextId \in Ids /\ UNCHANGED <<proc, crashes>>
      BY <2>1 DEF Add
    <3>2. new \in Request /\ new.id \in Ids /\ new.check \in Configs /\ new.at = "summary"
      BY <3>1 DEF Request, Stage
    <3>3. (req' = [req EXCEPT ![r] = new] /\ UNCHANGED cancelled) \/ Done(r)
      BY <2>1 DEF Add
    <3> HIDE DEF new
    <3> QED BY <1>5, <1>6, <3>1, <3>2, <3>3
  <2>2. ASSUME NEW id \in Ids, NEW edit \in Edits, GetURLCheck(r, id, edit)
        PROVE  TypeRequests'
    <3> DEFINE new == [at |-> "write", id |-> id, check |-> Edited(rows[id], edit)]
    <3>1. UNCHANGED <<proc, crashes>>
      BY <2>2 DEF GetURLCheck
    <3>2. CASE Done(r)
      BY <1>5, <3>1, <3>2
    <3>3. CASE id \in DOMAIN rows /\ req' = [req EXCEPT ![r] = new] /\ UNCHANGED cancelled
      <4>1. rows[id] \in Configs
        BY <1>0, <3>3 DEF TypeTable
      <4>2. Edited(rows[id], edit) \in Configs
        BY <4>1 DEF Edited, Configs, Edits
      <4>3. new \in Request /\ new.id \in Ids /\ new.check \in Configs /\ new.at = "write"
        BY <4>2 DEF Request, Stage
      <4> HIDE DEF new
      <4> QED BY <1>6, <3>1, <3>3, <4>3
    <3> QED BY <2>2, <3>2, <3>3 DEF GetURLCheck
  <2>3. ASSUME NEW id \in Ids, Remove(r, id)
        PROVE  TypeRequests'
    <3> DEFINE new == [at |-> "forget", id |-> id, check |-> None]
    <3>1. req' = [req EXCEPT ![r] = new] /\ UNCHANGED <<cancelled, proc, crashes>>
      BY <2>3 DEF Remove
    <3>2. new \in Request /\ new.id \in Ids /\ new.at = "forget"
      BY DEF Request, Stage
    <3> HIDE DEF new
    <3> QED BY <1>6, <3>1, <3>2
  <2> QED BY <1>7, <2>1, <2>2, <2>3 DEF Arrive
<1>8. ASSUME NEW r \in Reqs, Serve(r)
      PROVE  TypeRequests'
  <2>1. req[r].at \notin {"new", "done"} /\ UNCHANGED <<proc, crashes>>
    BY <1>8
       DEF Serve, NewSummary, UpdateURLCheck, UpdateStop, UpdateSummary, StartCheck,
           RemoveSummary, DeleteURLCheck, Respond
  <2>2. req[r].id \in Ids
    BY <1>0, <2>1, Serving
  <2>3. CASE Done(r)
    BY <1>5, <2>1, <2>3
  <2>4. ASSUME NEW stage \in {"stop", "relabel", "start", "delete", "respond"}, Goto(r, stage),
               stage \in {"stop", "relabel", "start"} => req[r].check \in Configs
        PROVE  TypeRequests'
    BY <1>4, <2>1, <2>2, <2>4 DEF Goto, Stage
  <2>5. req[r].at \in {"summary", "write", "stop", "relabel"} => req[r].check \in Configs
    BY <1>0 DEF TypeRequests
  <2> QED
    BY <1>8, <2>3, <2>4, <2>5
       DEF Serve, NewSummary, UpdateURLCheck, UpdateStop, UpdateSummary, StartCheck,
           RemoveSummary, DeleteURLCheck, Respond
<1>9. ASSUME NEW r \in Reqs, ClientGone(r)
      PROVE  TypeRequests'
  <2>1. cancelled' = cancelled \cup {r} /\ UNCHANGED <<proc, req, crashes>>
    BY <1>9 DEF ClientGone
  <2> QED BY <1>0, <2>1 DEF TypeRequests, InFlight
<1>10. CASE \E s \in Starters : RunCheck(s)
  BY <1>1, <1>10 DEF RunCheck, Probe, StoreResult, Tick, Return
<1>11. CASE UNCHANGED vars
  BY <1>1, <1>11 DEF vars
<1> QED BY <1>2, <1>3, <1>7, <1>8, <1>9, <1>10, <1>11 DEF Next

-----------------------------------------------------------------------------
(* The goroutines and the checks map. *)

(* A goroutine that runs keeps its id, its check and its stop channel. *)
LEMMA Running ==
  ASSUME TypeChecks, NEW s \in Starters, RunCheck(s)
  PROVE  /\ UNCHANGED <<checks, req, proc, nextId, rows, cancelled>>
         /\ go[s] # None /\ go[s].pc # "done" /\ go'[s] # None
         /\ go'[s].id = go[s].id /\ go'[s].stopped = go[s].stopped
         /\ go'[s].check = go[s].check
         /\ \A t \in Starters \ {s} : go'[t] = go[t]
<1> USE CheckerAssumption
<1>1. go[s] \in Goroutine /\ go[s] # None /\ go[s].pc # "done"
      /\ UNCHANGED <<checks, req, proc, nextId, rows, cancelled>>
  BY DEF TypeChecks, RunCheck, Probe, StoreResult, Tick, Return
<1>2. /\ go'[s] \in Goroutine /\ go'[s].id = go[s].id /\ go'[s].stopped = go[s].stopped
      /\ go'[s].check = go[s].check
      /\ \A t \in Starters \ {s} : go'[t] = go[t]
  <2>1. CASE Probe(s)
    BY <1>1, <2>1 DEF Probe, Goroutine, TypeChecks
  <2>2. CASE StoreResult(s)
    BY <1>1, <2>2 DEF StoreResult, Goroutine, TypeChecks
  <2>3. CASE Tick(s)
    BY <1>1, <2>3 DEF Tick, Goroutine, TypeChecks
  <2>4. CASE Return(s)
    BY <1>1, <2>4 DEF Return, Goroutine, TypeChecks
  <2> QED BY <2>1, <2>2, <2>3, <2>4 DEF RunCheck
<1> QED BY <1>1, <1>2

(* stopCheck marks at most one goroutine, and never makes or loses one. *)
LEMMA Stopping ==
  ASSUME TypeChecks, StopChannelOpen, NEW id \in Ids, StopCheck(id)
  PROVE  /\ checks' = [checks EXCEPT ![id] = None]
         /\ \A s \in Starters \ {checks[id]} : go'[s] = go[s]
         /\ checks[id] # None => /\ go'[checks[id]] # None /\ go'[checks[id]].stopped
                                 /\ go'[checks[id]].id = go[checks[id]].id
                                 /\ go'[checks[id]].check = go[checks[id]].check
                                 /\ go'[checks[id]].pc = go[checks[id]].pc
                                 /\ go'[checks[id]].up = go[checks[id]].up
<1> USE CheckerAssumption
<1>1. CASE checks[id] = None
  BY <1>1 DEF StopCheck
<1>2. CASE checks[id] # None
  <2>1. go[checks[id]] \in Goroutine /\ checks[id] \in Starters
    BY <1>2 DEF StopChannelOpen, TypeChecks
  <2>2. go' = [go EXCEPT ![checks[id]].stopped = TRUE] /\ checks' = [checks EXCEPT ![id] = None]
    BY <1>2 DEF StopCheck
  <2> DEFINE g == [go[checks[id]] EXCEPT !.stopped = TRUE]
  <2>3. /\ g \in Goroutine /\ g.stopped /\ g.id = go[checks[id]].id
        /\ g.check = go[checks[id]].check /\ g.pc = go[checks[id]].pc
        /\ g.up = go[checks[id]].up
    BY <2>1 DEF Goroutine
  <2>4. go'[checks[id]] = g /\ \A s \in Starters \ {checks[id]} : go'[s] = go[s]
    BY <2>1, <2>2 DEF TypeChecks
  <2> HIDE DEF g
  <2> QED BY <2>2, <2>3, <2>4
<1> QED BY <1>1, <1>2

(* startCheck registers the request's goroutine, which did not exist. *)
LEMMA Starting ==
  ASSUME CheckerInv, NEW r \in Reqs, StartCheck(r)
  PROVE  /\ req[r].id \in Ids /\ r \in Starters \ Ids /\ go[r] = None
         /\ checks' = [checks EXCEPT ![req[r].id] = r]
         /\ go'[r] # None /\ go'[r].id = req[r].id /\ ~go'[r].stopped
         /\ go'[r].check = req[r].check /\ go'[r].pc = "probe"
         /\ \A s \in Starters \ {r} : go'[s] = go[s]
<1> USE CheckerAssumption
<1>1. TypeChecks /\ TypeRequests /\ req[r].at = "start"
  BY DEF CheckerInv, TypeOK, StartCheck
<1>2. req[r].id \in Ids /\ req[r].check \in Configs
  BY <1>1, Serving DEF TypeRequests
<1>3. r \in Starters \ Ids /\ go[r] = None
  BY <1>1 DEF CheckerInv, StartsOnce, Starters
<1> DEFINE g == Launched(req[r].id, req[r].check)
<1>4. /\ g \in Goroutine /\ g.id = req[r].id /\ ~g.stopped
      /\ g.check = req[r].check /\ g.pc = "probe"
  BY <1>1, <1>2 DEF Launched, Goroutine, TypeChecks
<1>5. checks' = [checks EXCEPT ![req[r].id] = r] /\ go' = [go EXCEPT ![r] = g]
  BY DEF StartCheck
<1> HIDE DEF g
<1>6. go'[r] = g /\ \A s \in Starters \ {r} : go'[s] = go[s]
  BY <1>1, <1>3, <1>5 DEF TypeChecks
<1> QED BY <1>2, <1>3, <1>4, <1>5, <1>6

LEMMA NextStopChannelOpen == CheckerInv /\ [Next]_vars => StopChannelOpen'
<1> SUFFICES ASSUME CheckerInv, [Next]_vars
             PROVE  StopChannelOpen'
  OBVIOUS
<1> USE CheckerAssumption
<1>0. TypeChecks /\ TypeRequests /\ TypeTable /\ StopChannelOpen
  BY DEF CheckerInv, TypeOK
<1>1. ASSUME UNCHANGED <<checks, go>>
      PROVE  StopChannelOpen'
  BY <1>0, <1>1 DEF StopChannelOpen
<1>2. CASE Start
  <2>1. DOMAIN rows \subseteq Ids /\ Ids \subseteq Starters
    BY <1>0 DEF TypeTable, Ids, Starters
  <2>2. \A i \in DOMAIN rows : LET g == Launched(i, rows[i])
                               IN g \in Goroutine /\ g.id = i /\ ~g.stopped
    BY <1>0, <2>1 DEF Launched, Goroutine, TypeTable
  <2>3. \A i \in Ids : checks'[i] # None =>
          i \in DOMAIN rows /\ checks'[i] = i /\ go'[i] = Launched(i, rows[i])
    BY <1>2, <2>1 DEF Start
  <2> QED BY <2>2, <2>3 DEF StopChannelOpen
<1>3. CASE MemoryLost
  BY <1>3 DEF MemoryLost, Nobody, StopChannelOpen
<1>4. ASSUME NEW s \in Starters, RunCheck(s)
      PROVE  StopChannelOpen'
  BY <1>0, <1>4, Running DEF StopChannelOpen, TypeChecks
<1>5. ASSUME NEW id \in Ids, StopCheck(id)
      PROVE  StopChannelOpen'
  <2>1. \A i \in Ids \ {id} : checks[i] # None => checks[i] # checks[id]
    BY <1>0 DEF StopChannelOpen
  <2>2. checks'[id] = None /\ \A i \in Ids \ {id} : checks'[i] = checks[i]
    BY <1>0, <1>5, Stopping DEF TypeChecks
  <2>3. \A i \in Ids \ {id} : checks[i] # None => go'[checks[i]] = go[checks[i]]
    BY <1>0, <1>5, <2>1, Stopping DEF TypeChecks
  <2> QED BY <1>0, <2>2, <2>3 DEF StopChannelOpen
<1>6. ASSUME NEW r \in Reqs, StartCheck(r)
      PROVE  StopChannelOpen'
  <2>1. \A i \in Ids : checks[i] # None => checks[i] # r
    BY <1>0, <1>6, Starting DEF StopChannelOpen
  <2>2. checks'[req[r].id] = r /\ \A i \in Ids \ {req[r].id} : checks'[i] = checks[i]
    BY <1>0, <1>6, Starting DEF TypeChecks
  <2>3. \A i \in Ids \ {req[r].id} : checks[i] # None => go'[checks[i]] = go[checks[i]]
    BY <1>0, <1>6, <2>1, Starting DEF TypeChecks
  <2> QED BY <1>0, <1>6, <2>2, <2>3, Starting DEF StopChannelOpen
<1>7. CASE StartFails \/ Signal \/ UNCHANGED vars
  BY <1>1, <1>7 DEF StartFails, Signal, vars, memory
<1>8. CASE \E r \in Reqs : Arrive(r) \/ ClientGone(r)
  BY <1>1, <1>5, <1>8 DEF Arrive, Add, GetURLCheck, Remove, ClientGone, memory
<1>9. ASSUME NEW r \in Reqs, Serve(r)
      PROVE  StopChannelOpen'
  <2>1. UpdateStop(r) => req[r].id \in Ids
    BY <1>0, Serving DEF UpdateStop
  <2> QED
    BY <1>1, <1>5, <1>6, <1>9, <2>1
       DEF Serve, NewSummary, UpdateURLCheck, UpdateStop, UpdateSummary, RemoveSummary,
           DeleteURLCheck, Respond, memory
<1> QED BY <1>2, <1>3, <1>4, <1>7, <1>8, <1>9 DEF Next, Crash, Exit

LEMMA NextNoImmortalOrphan == CheckerInv /\ [Next]_vars => NoImmortalOrphan'
<1> SUFFICES ASSUME CheckerInv, [Next]_vars
             PROVE  NoImmortalOrphan'
  OBVIOUS
<1> USE CheckerAssumption
<1>0. TypeChecks /\ TypeRequests /\ TypeTable /\ StopChannelOpen /\ NoImmortalOrphan
      /\ Ids \subseteq Starters
  BY DEF CheckerInv, TypeOK, Starters
<1>1. ASSUME UNCHANGED <<checks, go>>
      PROVE  NoImmortalOrphan'
  BY <1>0, <1>1 DEF NoImmortalOrphan, Alive
<1>2. CASE Start
  <2>1. \A i \in Ids : go'[i] # None => checks'[i] = i
    BY <1>0, <1>2 DEF Start
  <2> QED BY <2>1 DEF NoImmortalOrphan, Alive
<1>3. CASE MemoryLost
  BY <1>0, <1>3 DEF MemoryLost, NoGoroutines, NoImmortalOrphan, Alive
<1>4. ASSUME NEW s \in Starters, RunCheck(s)
      PROVE  NoImmortalOrphan'
  BY <1>0, <1>4, Running DEF NoImmortalOrphan, Alive
<1>5. ASSUME NEW id \in Ids, StopCheck(id)
      PROVE  NoImmortalOrphan'
  <2> SUFFICES ASSUME NEW i \in Ids, Alive(i)', ~go'[i].stopped
               PROVE  checks'[i] = i
    BY DEF NoImmortalOrphan
  <2>1. i # checks[id]
    BY <1>0, <1>5, Stopping
  <2>2. go'[i] = go[i]
    BY <1>0, <1>5, <2>1, Stopping
  <2>3. checks[i] = i
    BY <1>0, <2>2 DEF NoImmortalOrphan, Alive
  <2> QED BY <1>0, <1>5, <2>1, <2>3, Stopping DEF TypeChecks
<1>6. ASSUME NEW r \in Reqs, StartCheck(r)
      PROVE  NoImmortalOrphan'
  <2> SUFFICES ASSUME NEW i \in Ids, Alive(i)', ~go'[i].stopped
               PROVE  checks'[i] = i
    BY DEF NoImmortalOrphan
  <2>1. go'[i] = go[i]
    BY <1>0, <1>6, Starting
  <2>2. checks[i] = i
    BY <1>0, <2>1 DEF NoImmortalOrphan, Alive
  <2>3. i # req[r].id
    BY <1>6, <2>2 DEF CheckerInv, BootMoved, StartCheck
  <2> QED BY <1>0, <1>6, <2>2, <2>3, Starting DEF TypeChecks
<1>7. CASE StartFails \/ Signal \/ UNCHANGED vars
  BY <1>1, <1>7 DEF StartFails, Signal, vars, memory
<1>8. CASE \E r \in Reqs : Arrive(r) \/ ClientGone(r)
  BY <1>1, <1>5, <1>8 DEF Arrive, Add, GetURLCheck, Remove, ClientGone, memory
<1>9. ASSUME NEW r \in Reqs, Serve(r)
      PROVE  NoImmortalOrphan'
  <2>1. UpdateStop(r) => req[r].id \in Ids
    BY <1>0, Serving DEF UpdateStop
  <2> QED
    BY <1>1, <1>5, <1>6, <1>9, <2>1
       DEF Serve, NewSummary, UpdateURLCheck, UpdateStop, UpdateSummary, RemoveSummary,
           DeleteURLCheck, Respond, memory
<1> QED BY <1>2, <1>3, <1>4, <1>7, <1>8, <1>9 DEF Next, Crash, Exit

(* Which goroutines exist: StopCheck and RunCheck make none. *)
LEMMA NextStartsOnce == CheckerInv /\ [Next]_vars => StartsOnce'
<1> SUFFICES ASSUME CheckerInv, [Next]_vars
             PROVE  StartsOnce'
  OBVIOUS
<1> USE CheckerAssumption
<1>0. TypeChecks /\ TypeRequests /\ TypeTable /\ StopChannelOpen /\ StartsOnce
      /\ Reqs \subseteq Starters
  BY DEF CheckerInv, TypeOK, Starters
<1>1. CASE Start
  <2>1. DOMAIN rows \subseteq Ids
    BY <1>0 DEF TypeTable, Ids
  <2>2. \A r \in Reqs : go'[r] = None
    BY <1>0, <1>1, <2>1 DEF Start
  <2> QED BY <2>2 DEF StartsOnce
<1>2. CASE MemoryLost
  BY <1>0, <1>2 DEF MemoryLost, NoGoroutines, StartsOnce
<1>3. ASSUME NEW s \in Starters, RunCheck(s)
      PROVE  StartsOnce'
  BY <1>0, <1>3, Running DEF StartsOnce
<1>4. ASSUME NEW r \in Reqs, req[r].at \notin {"respond", "done"},
             \A q \in Reqs \ {r} : req'[q] = req[q],
             go' = go \/ \E id \in Ids : StopCheck(id)
      PROVE  StartsOnce'
  <2>1. \A q \in Reqs : go'[q] # None => go[q] # None
    BY <1>0, <1>4, Stopping DEF StopChannelOpen
  <2> QED BY <1>0, <1>4, <2>1 DEF StartsOnce
<1>5. ASSUME NEW r \in Reqs, Arrive(r)
      PROVE  StartsOnce'
  <2>1. req[r].at = "new" /\ (go' = go \/ \E id \in Ids : StopCheck(id))
    BY <1>5 DEF Arrive, Add, GetURLCheck, Remove, Arrives, memory
  <2>2. \A q \in Reqs \ {r} : req'[q] = req[q]
    BY <1>0, <1>5 DEF Arrive, Add, GetURLCheck, Remove, Done, TypeRequests
  <2> QED BY <1>4, <2>1, <2>2
<1>6. ASSUME NEW r \in Reqs, Serve(r)
      PROVE  StartsOnce'
  <2>1. CASE StartCheck(r)
    <3>1. req'[r].at = "respond" /\ \A q \in Reqs \ {r} : req'[q] = req[q]
      BY <1>0, <2>1 DEF StartCheck, Goto, TypeRequests, Request
    <3> QED BY <1>0, <2>1, <3>1, Starting DEF StartsOnce
  <2>2. CASE Respond(r)
    <3>1. req'[r].at = "done" /\ \A q \in Reqs \ {r} : req'[q] = req[q]
      BY <1>0, <2>2 DEF Respond, Done, TypeRequests, Request
    <3> QED BY <1>0, <2>2, <3>1 DEF Respond, memory, StartsOnce
  <2>3. CASE ~StartCheck(r) /\ ~Respond(r)
    <3>1. req[r].at \notin {"new", "respond", "done"}
      BY <1>6, <2>3
         DEF Serve, NewSummary, UpdateURLCheck, UpdateStop, UpdateSummary, RemoveSummary,
             DeleteURLCheck
    <3>2. req[r].id \in Ids
      BY <1>0, <3>1, Serving
    <3>3. go' = go \/ StopCheck(req[r].id)
      BY <1>6, <2>3
         DEF Serve, NewSummary, UpdateURLCheck, UpdateStop, UpdateSummary, RemoveSummary,
             DeleteURLCheck, memory
    <3>4. \A q \in Reqs \ {r} : req'[q] = req[q]
      BY <1>0, <1>6, <2>3
         DEF Serve, NewSummary, UpdateURLCheck, UpdateStop, UpdateSummary, RemoveSummary,
             DeleteURLCheck, Goto, Done, TypeRequests
    <3> QED BY <1>4, <3>1, <3>2, <3>3, <3>4
  <2> QED BY <2>1, <2>2, <2>3
<1>7. CASE StartFails \/ Signal \/ UNCHANGED vars \/ \E r \in Reqs : ClientGone(r)
  BY <1>0, <1>7 DEF StartFails, Signal, vars, ClientGone, memory, StartsOnce
<1> QED BY <1>1, <1>2, <1>3, <1>5, <1>6, <1>7 DEF Next, Crash, Exit

LEMMA NextBootOwn == CheckerInv /\ [Next]_vars => BootOwn'
<1> SUFFICES ASSUME CheckerInv, [Next]_vars
             PROVE  BootOwn'
  OBVIOUS
<1> USE CheckerAssumption
<1>0. TypeChecks /\ TypeRequests /\ TypeTable /\ StopChannelOpen /\ BootOwn
      /\ Ids \subseteq Starters
  BY DEF CheckerInv, TypeOK, Starters
<1>1. CASE Start
  <2>1. DOMAIN rows \subseteq Ids /\ nextId' = nextId /\ \A i \in DOMAIN rows : i < nextId
    BY <1>0, <1>1 DEF TypeTable, Ids, Start
  <2>2. \A i \in Ids : go'[i] # None => i \in DOMAIN rows /\ go'[i] = Launched(i, rows[i])
    BY <1>0, <1>1, <2>1 DEF Start
  <2>3. \A i \in DOMAIN rows : Launched(i, rows[i]).id = i
    BY DEF Launched
  <2> QED BY <2>1, <2>2, <2>3 DEF BootOwn
<1>2. CASE MemoryLost
  BY <1>0, <1>2 DEF MemoryLost, NoGoroutines, BootOwn
<1>3. ASSUME NEW s \in Starters, RunCheck(s)
      PROVE  BootOwn'
  BY <1>0, <1>3, Running DEF BootOwn
<1>4. ASSUME \A i \in Ids : go'[i] = go[i], nextId' = nextId \/ nextId' = nextId + 1
      PROVE  BootOwn'
  <2>1. \A i \in Ids : i < nextId => i < nextId'
    BY <1>0, <1>4 DEF TypeTable, Ids
  <2> QED BY <1>0, <1>4, <2>1 DEF BootOwn
<1>5. ASSUME NEW id \in Ids, StopCheck(id), nextId' = nextId
      PROVE  BootOwn'
  <2>1. \A i \in Ids : go'[i] # None => go[i] # None /\ go'[i].id = go[i].id
    BY <1>0, <1>5, Stopping DEF StopChannelOpen
  <2> QED BY <1>0, <1>5, <2>1 DEF BootOwn
<1>6. ASSUME NEW r \in Reqs, StartCheck(r)
      PROVE  BootOwn'
  <2>1. \A i \in Ids : go'[i] = go[i]
    BY <1>0, <1>6, Starting
  <2> QED BY <1>4, <1>6, <2>1 DEF StartCheck
<1>7. CASE StartFails \/ Signal \/ UNCHANGED vars
  BY <1>4, <1>7 DEF StartFails, Signal, vars, memory
<1>8. CASE \E r \in Reqs : Arrive(r) \/ ClientGone(r)
  BY <1>4, <1>5, <1>8
     DEF Arrive, Add, InsertURLCheck, GetURLCheck, Remove, ClientGone, memory
<1>9. ASSUME NEW r \in Reqs, Serve(r)
      PROVE  BootOwn'
  <2>1. UpdateStop(r) => req[r].id \in Ids
    BY <1>0, Serving DEF UpdateStop
  <2> QED
    BY <1>4, <1>5, <1>6, <1>9, <2>1
       DEF Serve, NewSummary, UpdateURLCheck, UpdateStop, UpdateSummary, RemoveSummary,
           DeleteURLCheck, Respond, memory
<1> QED BY <1>1, <1>2, <1>3, <1>7, <1>8, <1>9 DEF Next, Crash, Exit

LEMMA NextBootMoved == CheckerInv /\ [Next]_vars => BootMoved'
<1> SUFFICES ASSUME CheckerInv, [Next]_vars
             PROVE  BootMoved'
  OBVIOUS
<1> USE CheckerAssumption
<1> DEFINE Pending == {"summary", "relabel", "start", "forget", "delete"}
<1>0. TypeChecks /\ TypeRequests /\ TypeTable /\ StopChannelOpen /\ BootMoved
      /\ \A q \in Reqs : req[q].at \in Pending => req[q].id \in Ids
  BY Serving DEF CheckerInv, TypeOK
<1>1. ASSUME UNCHANGED <<checks, req>>
      PROVE  BootMoved'
  BY <1>0, <1>1 DEF BootMoved
<1>2. CASE Start
  <2>1. \A r \in Reqs : req'[r].at \in {"new", "done"}
    BY <1>2 DEF Start, CheckerInv, DownIsIdle, InFlight
  <2> QED BY <2>1 DEF BootMoved
<1>3. CASE MemoryLost
  <2>1. \A r \in Reqs : req'[r].at \in {"new", "done"}
    BY <1>0, <1>3 DEF MemoryLost, InFlight, TypeRequests, Request
  <2> QED BY <2>1 DEF BootMoved
<1>4. ASSUME NEW s \in Starters, RunCheck(s)
      PROVE  BootMoved'
  BY <1>0, <1>1, <1>4, Running DEF RunCheck, Probe, StoreResult, Tick, Return
(* A step of r that stops nothing or stops a check, and takes r to a stage *)
(* that is harmless or that r was already ready for.                       *)
<1>5. ASSUME NEW r \in Reqs,
             \A q \in Reqs \ {r} : req'[q] = req[q],
             \A i \in Ids : checks'[i] \in {checks[i], None},
             req'[r].at \in Pending => req'[r].id \in Ids /\ checks'[req'[r].id] # req'[r].id
      PROVE  BootMoved'
  <2>1. \A i \in Ids : None # i
    BY DEF Starters
  <2>2. \A q \in Reqs \ {r} : req'[q].at \in Pending => checks'[req'[q].id] # req'[q].id
    BY <1>0, <1>5, <2>1 DEF BootMoved
  <2> QED BY <1>5, <2>2 DEF BootMoved
<1>6. ASSUME NEW id \in Ids, StopCheck(id)
      PROVE  checks'[id] = None /\ \A i \in Ids : checks'[i] \in {checks[i], None}
  BY <1>0, <1>6, Stopping DEF TypeChecks
<1>7. ASSUME NEW r \in Reqs, Arrive(r)
      PROVE  BootMoved'
  <2>1. \A q \in Reqs \ {r} : req'[q] = req[q]
    BY <1>0, <1>7 DEF Arrive, Add, GetURLCheck, Remove, Done, TypeRequests
  <2>2. \A i \in Ids : checks'[i] \in {checks[i], None}
    BY <1>6, <1>7 DEF Arrive, Add, GetURLCheck, Remove, memory
  <2>3. ASSUME NEW check \in Configs, Add(r, check)
        PROVE  req'[r].at \in Pending => req'[r].id \in Ids /\ checks'[req'[r].id] # req'[r].id
    <3>1. nextId \in Ids /\ checks' = checks
      BY <2>3 DEF Add, memory
    <3>2. checks[nextId] # nextId
      <4> SUFFICES ASSUME checks[nextId] = nextId PROVE FALSE
        OBVIOUS
      <4>1. go[nextId] # None
        BY <1>0, <3>1 DEF StopChannelOpen, Starters
      <4>2. nextId < nextId
        BY <3>1, <4>1 DEF CheckerInv, BootOwn
      <4> QED BY <1>0, <4>2 DEF TypeTable
    <3>3. req'[r].at = "done" \/ (req'[r].at = "summary" /\ req'[r].id = nextId)
      BY <1>0, <2>3 DEF Add, Done, TypeRequests, Request
    <3> QED BY <3>1, <3>2, <3>3
  <2>4. CASE \E id \in Ids, edit \in Edits : GetURLCheck(r, id, edit)
    <3>1. req'[r].at \in {"done", "write"}
      BY <1>0, <2>4 DEF GetURLCheck, Done, TypeRequests, Request
    <3> QED BY <1>5, <2>1, <2>2, <3>1
  <2>5. ASSUME NEW id \in Ids, Remove(r, id)
        PROVE  req'[r].id \in Ids /\ checks'[req'[r].id] # req'[r].id
    <3>1. req'[r].id = id
      BY <1>0, <2>5 DEF Remove, TypeRequests
    <3>2. checks'[id] = None
      BY <1>6, <2>5 DEF Remove
    <3>3. id # None
      BY DEF Starters
    <3> QED BY <3>1, <3>2, <3>3
  <2> QED BY <1>5, <1>7, <2>1, <2>2, <2>3, <2>4, <2>5 DEF Arrive
<1>8. ASSUME NEW r \in Reqs, Serve(r)
      PROVE  BootMoved'
  <2>0. req[r].at \notin {"new", "done"} /\ req[r] \in Request
    BY <1>0, <1>8
       DEF Serve, NewSummary, UpdateURLCheck, UpdateStop, UpdateSummary, StartCheck,
           RemoveSummary, DeleteURLCheck, Respond, TypeRequests
  <2>1. req[r].id \in Ids
    BY <1>0, <2>0, Serving
  <2>2. \A q \in Reqs \ {r} : req'[q] = req[q]
    BY <1>0, <1>8
       DEF Serve, NewSummary, UpdateURLCheck, UpdateStop, UpdateSummary, StartCheck,
           RemoveSummary, DeleteURLCheck, Respond, Goto, Done, TypeRequests
  <2>3. CASE UpdateStop(r)
    <3>1. checks'[req[r].id] = None /\ \A i \in Ids : checks'[i] \in {checks[i], None}
      BY <1>6, <2>1, <2>3 DEF UpdateStop
    <3>2. req'[r].id = req[r].id
      BY <1>0, <2>0, <2>3 DEF UpdateStop, Goto, Request, TypeRequests
    <3>3. req[r].id # None
      BY <2>1 DEF Starters
    <3> QED BY <1>5, <2>1, <2>2, <3>1, <3>2, <3>3
  <2>4. CASE NewSummary(r) \/ UpdateSummary(r) \/ RemoveSummary(r)
    <3>1. checks' = checks /\ req[r].at \in Pending
      BY <2>4 DEF NewSummary, UpdateSummary, RemoveSummary
    <3>2. req'[r].id = req[r].id
      BY <1>0, <2>0, <2>4
         DEF NewSummary, UpdateSummary, RemoveSummary, Goto, Request, TypeRequests
    <3> QED BY <1>0, <1>5, <2>1, <2>2, <3>1, <3>2 DEF BootMoved
  <2>5. CASE StartCheck(r)
    <3>1. checks'[req[r].id] = r /\ \A i \in Ids \ {req[r].id} : checks'[i] = checks[i]
      BY <1>0, <2>5, Starting DEF TypeChecks
    <3>2. r \notin Ids
      OBVIOUS
    <3>3. req'[r].at = "respond"
      BY <1>0, <2>0, <2>5 DEF StartCheck, Goto, Request, TypeRequests
    <3> QED BY <1>0, <2>1, <2>2, <3>1, <3>2, <3>3 DEF BootMoved
  <2>6. CASE UpdateURLCheck(r) \/ DeleteURLCheck(r) \/ Respond(r)
    <3>1. checks' = checks
      BY <2>6 DEF UpdateURLCheck, DeleteURLCheck, Respond, memory
    <3>2. req'[r].at \in {"stop", "respond", "done"}
      BY <1>0, <2>0, <2>6
         DEF UpdateURLCheck, DeleteURLCheck, Respond, Goto, Done, Request, TypeRequests
    <3> QED BY <1>5, <2>2, <3>1, <3>2
  <2> QED BY <1>8, <2>3, <2>4, <2>5, <2>6 DEF Serve
<1>9. CASE StartFails \/ Signal \/ UNCHANGED vars \/ \E r \in Reqs : ClientGone(r)
  BY <1>1, <1>9 DEF StartFails, Signal, vars, ClientGone, memory
<1> QED BY <1>2, <1>3, <1>4, <1>7, <1>8, <1>9 DEF Next, Crash, Exit

LEMMA NextDownIsIdle == CheckerInv /\ [Next]_vars => DownIsIdle'
<1> SUFFICES ASSUME CheckerInv, [Next]_vars
             PROVE  DownIsIdle'
  OBVIOUS
<1>0. TypeRequests /\ DownIsIdle
  BY DEF CheckerInv, TypeOK
<1>1. ASSUME proc' # "down"
      PROVE  DownIsIdle'
  BY <1>1 DEF DownIsIdle
<1>2. ASSUME UNCHANGED <<proc, req>>
      PROVE  DownIsIdle'
  BY <1>0, <1>2 DEF DownIsIdle, InFlight
<1>3. CASE MemoryLost
  <2>1. \A r \in Reqs : req'[r].at \in {"new", "done"}
    BY <1>0, <1>3 DEF MemoryLost, InFlight, TypeRequests, Request
  <2> QED BY <2>1 DEF DownIsIdle, InFlight
<1>4. ASSUME NEW r \in Reqs, Arrive(r)
      PROVE  DownIsIdle'
  BY <1>1, <1>4 DEF Arrive, Add, GetURLCheck, Remove, Arrives
<1>5. ASSUME NEW r \in Reqs, Serve(r)
      PROVE  DownIsIdle'
  <2>1. req[r].at \notin {"new", "done"} /\ proc' = proc
    BY <1>5
       DEF Serve, NewSummary, UpdateURLCheck, UpdateStop, UpdateSummary, StartCheck,
           RemoveSummary, DeleteURLCheck, Respond
  <2>2. proc # "down"
    BY <1>0, <2>1 DEF DownIsIdle, InFlight, TypeRequests
  <2> QED BY <1>1, <2>1, <2>2
<1>6. CASE \E s \in Starters : RunCheck(s)
  BY <1>2, <1>6 DEF RunCheck, Probe, StoreResult, Tick, Return
<1>7. CASE UNCHANGED vars \/ \E r \in Reqs : ClientGone(r)
  BY <1>2, <1>7 DEF vars, ClientGone
<1> QED BY <1>1, <1>3, <1>4, <1>5, <1>6, <1>7 DEF Next, Crash, Exit, Start, StartFails, Signal

-----------------------------------------------------------------------------
LEMMA InvHolds == Spec => []CheckerInv
<1>1. CheckerInv /\ [Next]_vars => CheckerInv'
  BY NextTypeTable, NextTypeChecks, NextTypeSummaries, NextTypeRequests, NextStopChannelOpen,
     NextNoImmortalOrphan, NextStartsOnce, NextBootOwn, NextBootMoved, NextDownIsIdle
     DEF CheckerInv, TypeOK
<1> QED BY <1>1, InitInv, PTL DEF Spec

(* The table, the maps, the goroutines and the requests keep their types     *)
(* however requests, probes and crashes interleave: every row has an id      *)
(* below the counter, every request served an id and, to write, a check.     *)
THEOREM TypeCorrect == Spec => []TypeOK
<1>1. CheckerInv => TypeOK
  BY DEF CheckerInv
<1> QED BY <1>1, InvHolds, PTL

(* stopCheck never closes a channel twice and never closes that of another   *)
(* check, for any number of overlapping creates, edits and deletes.          *)
THEOREM StopChannelOpenHolds == Spec => []StopChannelOpen
<1>1. CheckerInv => StopChannelOpen
  BY DEF CheckerInv
<1> QED BY <1>1, InvHolds, PTL

(* A goroutine under main's context, which no request's end cancels, always  *)
(* stays within reach of stopCheck.                                          *)
THEOREM NoImmortalOrphanHolds == Spec => []NoImmortalOrphan
<1>1. CheckerInv => NoImmortalOrphan
  BY DEF CheckerInv
<1> QED BY <1>1, InvHolds, PTL

-----------------------------------------------------------------------------
(* What a running goroutine is about never changes: only a start or a crash *)
(* of the process takes a goroutine away.                                   *)
GoroutinesKept ==
  \A s \in Starters : go[s] # None =>
    go'[s] # None /\ go'[s].id = go[s].id /\ go'[s].check = go[s].check

LEMMA GoroutinesLast ==
  ASSUME CheckerInv, [Next]_vars, ~Start, ~MemoryLost
  PROVE  GoroutinesKept
<1> USE CheckerAssumption
<1>0. TypeChecks /\ TypeRequests /\ StopChannelOpen
  BY DEF CheckerInv, TypeOK
<1>1. ASSUME UNCHANGED go
      PROVE  GoroutinesKept
  BY <1>1 DEF GoroutinesKept
<1>2. ASSUME NEW s \in Starters, RunCheck(s)
      PROVE  GoroutinesKept
  BY <1>0, <1>2, Running DEF GoroutinesKept
<1>3. ASSUME NEW id \in Ids, StopCheck(id)
      PROVE  GoroutinesKept
  BY <1>0, <1>3, Stopping DEF GoroutinesKept, TypeChecks
<1>4. ASSUME NEW r \in Reqs, StartCheck(r)
      PROVE  GoroutinesKept
  BY <1>4, Starting DEF GoroutinesKept
<1>5. CASE StartFails \/ Signal \/ UNCHANGED vars
  BY <1>1, <1>5 DEF StartFails, Signal, vars, memory
<1>6. CASE \E r \in Reqs : Arrive(r) \/ ClientGone(r)
  BY <1>1, <1>3, <1>6 DEF Arrive, Add, GetURLCheck, Remove, ClientGone, memory
<1>7. ASSUME NEW r \in Reqs, Serve(r)
      PROVE  GoroutinesKept
  <2>1. UpdateStop(r) => req[r].id \in Ids
    BY <1>0, Serving DEF UpdateStop
  <2> QED
    BY <1>1, <1>3, <1>4, <1>7, <2>1
       DEF Serve, NewSummary, UpdateURLCheck, UpdateStop, UpdateSummary, RemoveSummary,
           DeleteURLCheck, Respond, memory
<1> QED BY <1>2, <1>5, <1>6, <1>7 DEF Next, Crash, Exit

(* A context that is done stays done. *)
LEMMA CancelledGrows ==
  ASSUME [Next]_vars
  PROVE  cancelled \subseteq cancelled'
<1>1. CASE Start \/ StartFails \/ Signal \/ MemoryLost \/ UNCHANGED vars
  BY <1>1 DEF Start, StartFails, Signal, MemoryLost, vars
<1>2. CASE \E s \in Starters : RunCheck(s)
  BY <1>2 DEF RunCheck, Probe, StoreResult, Tick, Return
<1>3. CASE \E r \in Reqs : Arrive(r) \/ ClientGone(r)
  BY <1>3 DEF Arrive, Add, GetURLCheck, Remove, Done, ClientGone
<1>4. CASE \E r \in Reqs : Serve(r)
  BY <1>4
     DEF Serve, NewSummary, UpdateURLCheck, UpdateStop, UpdateSummary, StartCheck,
         RemoveSummary, DeleteURLCheck, Respond, Goto, Done
<1> QED BY <1>1, <1>2, <1>3, <1>4 DEF Next, Crash, Exit

LEMMA CancelledLasts ==
  ASSUME [Next]_vars, ~MemoryLost, NEW s, Cancelled(s)
  PROVE  Cancelled(s)'
<1>1. cancelled \subseteq cancelled'
  BY CancelledGrows
<1>2. proc = "stopping" => proc' = "stopping"
  <2>1. CASE Start \/ StartFails \/ Signal \/ UNCHANGED vars
    BY <2>1 DEF Start, StartFails, Signal, vars
  <2>2. CASE \E t \in Starters : RunCheck(t)
    BY <2>2 DEF RunCheck, Probe, StoreResult, Tick, Return
  <2>3. CASE \E r \in Reqs : Arrive(r) \/ ClientGone(r)
    BY <2>3 DEF Arrive, Add, GetURLCheck, Remove, ClientGone
  <2>4. CASE \E r \in Reqs : Serve(r)
    BY <2>4
       DEF Serve, NewSummary, UpdateURLCheck, UpdateStop, UpdateSummary, StartCheck,
           RemoveSummary, DeleteURLCheck, Respond
  <2> QED BY <2>1, <2>2, <2>3, <2>4 DEF Next, Crash, Exit
<1> QED BY <1>1, <1>2 DEF Cancelled

-----------------------------------------------------------------------------
(* Deleted checks.  The goroutine of a request that is over has lost its    *)
(* context; that of boot was stopped before its row could go.               *)

LEMMA NextBootHasRow == CheckerInv /\ BootHasRow /\ [Next]_vars => BootHasRow'
<1> SUFFICES ASSUME CheckerInv, BootHasRow, [Next]_vars
             PROVE  BootHasRow'
  OBVIOUS
<1> USE CheckerAssumption
<1>0. TypeChecks /\ TypeRequests /\ TypeTable /\ StopChannelOpen
  BY DEF CheckerInv, TypeOK
<1>1. ASSUME \A i \in Ids : checks'[i] = i => checks[i] = i, DOMAIN rows \subseteq DOMAIN rows'
      PROVE  BootHasRow'
  BY <1>1 DEF BootHasRow
<1>2. CASE Start
  BY <1>2 DEF Start, BootHasRow, Starters
<1>3. CASE MemoryLost
  BY <1>3 DEF MemoryLost, Nobody, BootHasRow, Starters
<1>4. ASSUME NEW s \in Starters, RunCheck(s)
      PROVE  BootHasRow'
  BY <1>0, <1>1, <1>4, Running
<1>5. ASSUME NEW id \in Ids, StopCheck(id), rows' = rows
      PROVE  BootHasRow'
  <2>1. \A i \in Ids : checks'[i] = i => checks[i] = i
    BY <1>0, <1>5, Stopping DEF TypeChecks, Starters
  <2> QED BY <1>1, <1>5, <2>1
<1>6. ASSUME NEW r \in Reqs, StartCheck(r)
      PROVE  BootHasRow'
  <2>1. \A i \in Ids : checks'[i] = i => checks[i] = i
    BY <1>0, <1>6, Starting DEF TypeChecks
  <2> QED BY <1>1, <1>6, <2>1 DEF StartCheck
<1>7. ASSUME NEW r \in Reqs, DeleteURLCheck(r)
      PROVE  BootHasRow'
  <2>1. checks' = checks /\ checks[req[r].id] # req[r].id
    BY <1>7 DEF DeleteURLCheck, memory, CheckerInv, BootMoved
  <2>2. \A i \in DOMAIN rows : i # req[r].id => i \in DOMAIN rows'
    BY <1>7 DEF DeleteURLCheck, Drop
  <2> QED BY <2>1, <2>2 DEF BootHasRow
<1>8. CASE StartFails \/ Signal \/ UNCHANGED vars
  BY <1>1, <1>8 DEF StartFails, Signal, vars, memory
<1>9. ASSUME NEW r \in Reqs, Arrive(r) \/ ClientGone(r)
      PROVE  BootHasRow'
  <2>1. ASSUME NEW check \in Configs, Add(r, check)
        PROVE  BootHasRow'
    <3>1. checks' = checks /\ DOMAIN rows \subseteq DOMAIN rows'
      BY <2>1 DEF Add, InsertURLCheck, Put, memory
    <3> QED BY <1>1, <3>1
  <2> QED BY <1>1, <1>5, <1>9, <2>1 DEF Arrive, GetURLCheck, Remove, ClientGone, memory
<1>10. ASSUME NEW r \in Reqs, Serve(r)
       PROVE  BootHasRow'
  <2>1. UpdateStop(r) => req[r].id \in Ids
    BY <1>0, Serving DEF UpdateStop
  <2>2. UpdateURLCheck(r) => checks' = checks /\ DOMAIN rows' = DOMAIN rows
    BY DEF UpdateURLCheck, memory
  <2> QED
    BY <1>1, <1>5, <1>6, <1>7, <1>10, <2>1, <2>2
       DEF Serve, NewSummary, UpdateStop, UpdateSummary, RemoveSummary, Respond, memory
<1> QED BY <1>2, <1>3, <1>4, <1>8, <1>9, <1>10 DEF Next, Crash, Exit

LEMMA NextEndedIsCancelled == CheckerInv /\ EndedIsCancelled /\ [Next]_vars => EndedIsCancelled'
<1> SUFFICES ASSUME CheckerInv, EndedIsCancelled, [Next]_vars
             PROVE  EndedIsCancelled'
  OBVIOUS
<1> USE CheckerAssumption
<1>0. TypeChecks /\ TypeRequests /\ TypeTable /\ StopChannelOpen /\ StartsOnce
      /\ Reqs \subseteq Starters /\ cancelled \subseteq cancelled'
  BY CancelledGrows DEF CheckerInv, TypeOK, Starters
(* A step in which r alone moves, and no request gets a goroutine. *)
<1>1. ASSUME NEW r \in Reqs, \A q \in Reqs \ {r} : req'[q] = req[q],
             \A q \in Reqs : go'[q] # None => go[q] # None,
             req'[r].at # "done" \/ r \in cancelled'
      PROVE  EndedIsCancelled'
  BY <1>0, <1>1 DEF EndedIsCancelled
<1>2. ASSUME UNCHANGED req, \A q \in Reqs : go'[q] # None => go[q] # None
      PROVE  EndedIsCancelled'
  BY <1>0, <1>2 DEF EndedIsCancelled
<1>3. CASE Start \/ MemoryLost
  <2>1. DOMAIN rows \subseteq Ids
    BY <1>0 DEF TypeTable, Ids
  <2>2. \A r \in Reqs : go'[r] = None
    BY <1>0, <1>3, <2>1 DEF Start, MemoryLost, NoGoroutines
  <2> QED BY <2>2 DEF EndedIsCancelled
<1>4. ASSUME NEW s \in Starters, RunCheck(s)
      PROVE  EndedIsCancelled'
  BY <1>0, <1>2, <1>4, Running
<1>5. ASSUME NEW id \in Ids, StopCheck(id)
      PROVE  \A q \in Reqs : go'[q] # None => go[q] # None
  BY <1>0, <1>5, Stopping DEF StopChannelOpen
<1>6. ASSUME NEW r \in Reqs, Arrive(r)
      PROVE  EndedIsCancelled'
  <2>1. \A q \in Reqs \ {r} : req'[q] = req[q]
    BY <1>0, <1>6 DEF Arrive, Add, GetURLCheck, Remove, Done, TypeRequests
  <2>2. \A q \in Reqs : go'[q] # None => go[q] # None
    BY <1>5, <1>6 DEF Arrive, Add, GetURLCheck, Remove, memory
  <2>3. req'[r].at # "done" \/ r \in cancelled'
    BY <1>0, <1>6 DEF Arrive, Add, GetURLCheck, Remove, Done, TypeRequests, Request
  <2> QED BY <1>1, <2>1, <2>2, <2>3
<1>7. ASSUME NEW r \in Reqs, Serve(r)
      PROVE  EndedIsCancelled'
  <2>1. \A q \in Reqs \ {r} : req'[q] = req[q]
    BY <1>0, <1>7
       DEF Serve, NewSummary, UpdateURLCheck, UpdateStop, UpdateSummary, StartCheck,
           RemoveSummary, DeleteURLCheck, Respond, Goto, Done, TypeRequests
  <2>2. req'[r].at # "done" \/ r \in cancelled'
    BY <1>0, <1>7
       DEF Serve, NewSummary, UpdateURLCheck, UpdateStop, UpdateSummary, StartCheck,
           RemoveSummary, DeleteURLCheck, Respond, Goto, Done, TypeRequests, Request
  <2>3. CASE StartCheck(r)
    <3>1. \A q \in Reqs \ {r} : go'[q] = go[q]
      BY <1>0, <2>3, Starting
    <3> QED BY <1>0, <2>1, <2>2, <3>1 DEF EndedIsCancelled
  <2>4. CASE ~StartCheck(r)
    <3>1. UpdateStop(r) => req[r].id \in Ids
      BY <1>0, Serving DEF UpdateStop
    <3>2. \A q \in Reqs : go'[q] # None => go[q] # None
      BY <1>5, <1>7, <2>4, <3>1
         DEF Serve, NewSummary, UpdateURLCheck, UpdateStop, UpdateSummary,
             RemoveSummary, DeleteURLCheck, Respond, memory
    <3> QED BY <1>1, <2>1, <2>2, <3>2
  <2> QED BY <2>3, <2>4
<1>8. CASE StartFails \/ Signal \/ UNCHANGED vars \/ \E r \in Reqs : ClientGone(r)
  BY <1>2, <1>8 DEF StartFails, Signal, vars, ClientGone, memory
<1> QED BY <1>3, <1>4, <1>6, <1>7, <1>8 DEF Next, Crash, Exit

(* However creates, edits and deletes of a check overlap, once they have all *)
(* returned no goroutine goes on probing a check that has no row: it was     *)
(* stopped, or the context it runs under is done.                            *)
THEOREM DeletedIsLeftAloneHolds == Spec => []DeletedIsLeftAlone
<1> DEFINE Inv == BootHasRow /\ EndedIsCancelled
<1>1. Init => Inv
  <2> SUFFICES ASSUME Init PROVE Inv
    OBVIOUS
  <2> USE CheckerAssumption
  <2>1. \A i \in Ids : checks[i] = None
    BY DEF Init, Nobody
  <2>2. \A r \in Reqs : go[r] = None
    BY DEF Init, NoGoroutines, Starters
  <2>3. \A i \in Ids : i # None
    BY DEF Starters
  <2> QED BY <2>1, <2>2, <2>3 DEF BootHasRow, EndedIsCancelled
<1>2. Inv /\ CheckerInv /\ [Next]_vars => Inv'
  BY NextBootHasRow, NextEndedIsCancelled
<1>3. Inv /\ CheckerInv => DeletedIsLeftAlone
  <2> SUFFICES ASSUME Inv, CheckerInv, InFlight = {}, NEW s \in Starters,
                      Alive(s), go[s].id \notin DOMAIN rows, ~go[s].stopped
               PROVE  s \in cancelled
    BY DEF DeletedIsLeftAlone, Cancelled
  <2>1. go[s] # None
    BY DEF Alive
  <2>2. s \notin Ids
    <3> SUFFICES ASSUME s \in Ids PROVE FALSE
      OBVIOUS
    <3>1. checks[s] = s
      BY DEF CheckerInv, NoImmortalOrphan
    <3>2. go[s].id = s
      BY <2>1 DEF CheckerInv, BootOwn
    <3> QED BY <3>1, <3>2 DEF BootHasRow
  <2>3. s \in Reqs
    BY <2>2 DEF Starters
  <2>4. req[s].at = "done"
    BY <2>1, <2>3 DEF CheckerInv, StartsOnce, InFlight
  <2> QED BY <2>1, <2>3, <2>4 DEF EndedIsCancelled
<1> HIDE DEF Inv
<1> QED BY <1>1, <1>2, <1>3, InvHolds, PTL DEF Spec

-----------------------------------------------------------------------------
(* False alarms.  A result enters a summary two steps after the probe saw   *)
(* the context, so the reason is carried from the probe to the store and    *)
(* from there as long as the result is shown.                               *)

LEMMA StepDownIsCancelled ==
  ASSUME CheckerInv, DownIsCancelled, [Next]_vars, ~MemoryLost
  PROVE  DownIsCancelled'
<1> USE CheckerAssumption
<1>0. TypeChecks /\ TypeRequests /\ TypeTable /\ StopChannelOpen
  BY DEF CheckerInv, TypeOK
<1>c. \A s \in Starters : Cancelled(s) => Cancelled(s)'
  BY CancelledLasts
<1>1. ASSUME \A s \in Starters : go'[s] # None /\ go'[s].pc = "store" =>
               /\ go[s] # None /\ go[s].pc = "store"
               /\ go'[s].up = go[s].up /\ go'[s].check = go[s].check
      PROVE  DownIsCancelled'
  BY <1>c, <1>1 DEF DownIsCancelled
<1>2. CASE Start
  <2>1. \A s \in Starters : go'[s] # None => go'[s].pc = "probe"
    BY <1>2 DEF Start, Launched
  <2> QED BY <2>1 DEF DownIsCancelled
<1>4. ASSUME NEW s \in Starters, Probe(s)
      PROVE  DownIsCancelled'
  <2>1. go[s] \in Goroutine /\ RunCheck(s)
    BY <1>0, <1>4 DEF Probe, RunCheck, TypeChecks
  <2>2. go'[s].up = (go[s].check.url \in UpURLs /\ ~Cancelled(s))
    BY <1>0, <1>4, <2>1 DEF Probe, Goroutine, TypeChecks
  <2>3. go'[s].check = go[s].check /\ \A t \in Starters \ {s} : go'[t] = go[t]
    BY <1>0, <2>1, Running
  <2> QED BY <1>c, <2>2, <2>3 DEF DownIsCancelled
<1>5. ASSUME NEW s \in Starters, StoreResult(s) \/ Tick(s) \/ Return(s)
      PROVE  DownIsCancelled'
  <2>1. go[s] \in Goroutine /\ RunCheck(s)
    BY <1>0, <1>5 DEF StoreResult, Tick, Return, RunCheck, TypeChecks
  <2>2. go'[s].pc # "store"
    BY <1>0, <1>5, <2>1 DEF StoreResult, Tick, Return, Goroutine, TypeChecks
  <2>3. \A t \in Starters \ {s} : go'[t] = go[t]
    BY <1>0, <2>1, Running
  <2> QED BY <1>1, <2>2, <2>3
<1>6. ASSUME NEW id \in Ids, StopCheck(id)
      PROVE  DownIsCancelled'
  <2>1. \A s \in Starters \ {checks[id]} : go'[s] = go[s]
    BY <1>0, <1>6, Stopping
  <2>2. checks[id] # None =>
          /\ go[checks[id]] # None /\ go'[checks[id]].pc = go[checks[id]].pc
          /\ go'[checks[id]].up = go[checks[id]].up
          /\ go'[checks[id]].check = go[checks[id]].check
    BY <1>0, <1>6, Stopping DEF StopChannelOpen
  <2> QED BY <1>1, <2>1, <2>2
<1>7. ASSUME NEW r \in Reqs, StartCheck(r)
      PROVE  DownIsCancelled'
  <2>1. go'[r].pc # "store" /\ \A s \in Starters \ {r} : go'[s] = go[s]
    BY <1>7, Starting
  <2> QED BY <1>1, <2>1
<1>8. ASSUME UNCHANGED go
      PROVE  DownIsCancelled'
  BY <1>1, <1>8
<1>9. CASE StartFails \/ Signal \/ UNCHANGED vars
  BY <1>8, <1>9 DEF StartFails, Signal, vars, memory
<1>10. CASE \E r \in Reqs : Arrive(r) \/ ClientGone(r)
  BY <1>6, <1>8, <1>10 DEF Arrive, Add, GetURLCheck, Remove, ClientGone, memory
<1>11. ASSUME NEW r \in Reqs, Serve(r)
       PROVE  DownIsCancelled'
  <2>1. UpdateStop(r) => req[r].id \in Ids
    BY <1>0, Serving DEF UpdateStop
  <2> QED
    BY <1>6, <1>7, <1>8, <1>11, <2>1
       DEF Serve, NewSummary, UpdateURLCheck, UpdateStop, UpdateSummary, RemoveSummary,
           DeleteURLCheck, Respond, memory
<1> QED BY <1>2, <1>4, <1>5, <1>9, <1>10, <1>11 DEF Next, Crash, Exit, RunCheck

LEMMA NextDownIsCancelled == CheckerInv /\ DownIsCancelled /\ [Next]_vars => DownIsCancelled'
<1>1. MemoryLost => DownIsCancelled'
  BY DEF MemoryLost, NoGoroutines, DownIsCancelled
<1> QED BY <1>1, StepDownIsCancelled

LEMMA NextFalseDownIsCutOff ==
  CheckerInv /\ DownIsCancelled /\ FalseDownIsCutOff /\ [Next]_vars => FalseDownIsCutOff'
<1> SUFFICES ASSUME CheckerInv, DownIsCancelled, FalseDownIsCutOff, [Next]_vars
             PROVE  FalseDownIsCutOff'
  OBVIOUS
<1> USE CheckerAssumption
<1>0. TypeChecks /\ TypeRequests /\ TypeSummaries
  BY DEF CheckerInv, TypeOK
(* Results that stay where they are: what was cut off stays on record. *)
<1>1. ASSUME ~Start, ~MemoryLost, NEW i \in DOMAIN summaries, i \in DOMAIN summaries',
             summaries'[i].last = summaries[i].last,
             summaries'[i].last # None, ~summaries'[i].last.up,
             summaries'[i].last.check.url \in UpURLs
      PROVE  \E t \in Starters :
               /\ Cancelled(t)' /\ go'[t] # None
               /\ go'[t].id = i /\ go'[t].check = summaries'[i].last.check
  <2>1. PICK t \in Starters :
          Cancelled(t) /\ go[t] # None /\ go[t].id = i /\ go[t].check = summaries[i].last.check
    BY <1>1 DEF FalseDownIsCutOff
  <2>2. Cancelled(t)' /\ go'[t] # None /\ go'[t].id = i /\ go'[t].check = go[t].check
    BY <1>1, <2>1, CancelledLasts, GoroutinesLast DEF GoroutinesKept
  <2> QED BY <1>1, <2>1, <2>2
<1>2. ASSUME ~Start, ~MemoryLost,
             \A i \in DOMAIN summaries' :
               \/ summaries'[i].last = None
               \/ i \in DOMAIN summaries /\ summaries'[i].last = summaries[i].last
      PROVE  FalseDownIsCutOff'
  BY <1>1, <1>2 DEF FalseDownIsCutOff
<1>3. CASE Start \/ MemoryLost
  <2>1. \A i \in DOMAIN summaries' : summaries'[i].last = None
    BY <1>3 DEF Start, MemoryLost
  <2> QED BY <2>1 DEF FalseDownIsCutOff
<1>4. ASSUME ~Start, ~MemoryLost, NEW s \in Starters, StoreResult(s)
      PROVE  FalseDownIsCutOff'
  <2>1. go[s] \in Goroutine /\ go[s].pc = "store" /\ RunCheck(s)
    BY <1>0, <1>4 DEF StoreResult, RunCheck, TypeChecks
  <2> DEFINE result == [check |-> go[s].check, up |-> go[s].up]
  <2>2. summaries' = [i \in DOMAIN summaries |->
          IF i = go[s].id THEN [summaries[i] EXCEPT !.last = result] ELSE summaries[i]]
    BY <1>4 DEF StoreResult
  <2>3. result.check = go[s].check /\ result.up = go[s].up
    OBVIOUS
  <2> HIDE DEF result
  <2>4. ASSUME NEW i \in DOMAIN summaries'
        PROVE  /\ i \in DOMAIN summaries
               /\ i # go[s].id => summaries'[i].last = summaries[i].last
               /\ i = go[s].id => summaries'[i].last = result
    BY <1>0, <2>2, <2>4 DEF TypeSummaries, Summary
  <2>5. go'[s] # None /\ go'[s].id = go[s].id /\ go'[s].check = go[s].check
    BY <1>0, <2>1, Running
  <2>6. ~go[s].up /\ go[s].check.url \in UpURLs => Cancelled(s)'
    BY <1>4, <2>1, CancelledLasts DEF DownIsCancelled
  <2>7. ASSUME NEW i \in DOMAIN summaries', i = go[s].id,
               ~summaries'[i].last.up, summaries'[i].last.check.url \in UpURLs
        PROVE  \E t \in Starters :
                 /\ Cancelled(t)' /\ go'[t] # None
                 /\ go'[t].id = i /\ go'[t].check = summaries'[i].last.check
    BY <2>3, <2>4, <2>5, <2>6, <2>7
  <2> QED BY <1>1, <1>4, <2>4, <2>7 DEF FalseDownIsCutOff
<1>5. ASSUME ~Start, ~MemoryLost, UNCHANGED summaries
      PROVE  FalseDownIsCutOff'
  BY <1>2, <1>5
<1>6. ASSUME ~Start, ~MemoryLost, NEW i, NEW check,
             summaries' = Put(summaries, i, [check |-> check, last |-> None])
      PROVE  FalseDownIsCutOff'
  BY <1>2, <1>6 DEF Put
<1>7. ASSUME ~Start, ~MemoryLost, NEW r \in Reqs, UpdateSummary(r)
      PROVE  FalseDownIsCutOff'
  <2>1. \A i \in DOMAIN summaries' : i \in DOMAIN summaries /\ summaries'[i].last = summaries[i].last
    BY <1>0, <1>7 DEF UpdateSummary, TypeSummaries, Summary
  <2> QED BY <1>2, <1>7, <2>1
<1>8. ASSUME ~Start, ~MemoryLost, NEW i, summaries' = Drop(summaries, i)
      PROVE  FalseDownIsCutOff'
  BY <1>2, <1>8 DEF Drop
<1>9. CASE ~Start /\ ~MemoryLost /\ (StartFails \/ Signal \/ UNCHANGED vars)
  BY <1>5, <1>9 DEF StartFails, Signal, vars, memory
<1>10. ASSUME ~Start, ~MemoryLost, NEW s \in Starters, RunCheck(s)
       PROVE  FalseDownIsCutOff'
  BY <1>4, <1>5, <1>10 DEF RunCheck, Probe, Tick, Return
<1>11. CASE ~Start /\ ~MemoryLost /\ \E r \in Reqs : Arrive(r) \/ ClientGone(r)
  BY <1>5, <1>11 DEF Arrive, Add, GetURLCheck, Remove, ClientGone, memory
<1>12. ASSUME ~Start, ~MemoryLost, NEW r \in Reqs, Serve(r)
       PROVE  FalseDownIsCutOff'
  BY <1>5, <1>6, <1>7, <1>8, <1>12
     DEF Serve, NewSummary, StartCheck, UpdateURLCheck, UpdateStop, RemoveSummary,
         DeleteURLCheck, Respond, memory
<1> QED BY <1>3, <1>9, <1>10, <1>11, <1>12 DEF Next, Crash, Exit

(* A check whose URL answers is shown as down only while the context is done *)
(* of a goroutine that probed this very check as the result was taken of it: *)
(* the request that had created or edited it has ended, or main has been     *)
(* told to stop.  For any number of overlapping requests, edits, signals and *)
(* crashes no other probe is ever booked as an outage of the site.           *)
THEOREM FalseDownIsCutOffHolds == Spec => []FalseDownIsCutOff
<1>1. Init => DownIsCancelled /\ FalseDownIsCutOff
  BY DEF Init, NoGoroutines, DownIsCancelled, FalseDownIsCutOff
<1> QED BY <1>1, NextDownIsCancelled, NextFalseDownIsCutOff, InvHolds, PTL DEF Spec
=============================================================================
