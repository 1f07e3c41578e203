------------------------ MODULE UrlSequentialProofs -------------------------
(* Proofs about UrlChecker where requests do not overlap and the database   *)
(* does not fail, for any number of checks, of requests one after another   *)
(* and of signals and crashes in the middle of one.                         *)
EXTENDS UrlCheckerProofs, FiniteSetTheorems

(* The table, the summaries and the goroutines say the same of a check.     *)
Settled(i) ==
  /\ i \in DOMAIN summaries => i \in DOMAIN rows /\ summaries[i].check = rows[i]
  /\ checks[i] # None <=> i \in DOMAIN rows /\ rows[i].enabled
  /\ checks[i] # None => i \in DOMAIN summaries /\ go[checks[i]].check = rows[i]

(* What a request has brought about so far of the check it is about: its    *)
(* stages name what is still out of step.                                   *)
Underway(r) ==
  /\ req[r].at \in {"summary", "write", "stop", "relabel", "start"} => req[r].id \in DOMAIN rows
  /\ req[r].at \in {"summary", "stop", "relabel", "start"} => rows[req[r].id] = req[r].check
  /\ req[r].at \in {"summary", "relabel", "start", "forget", "delete"} => checks[req[r].id] = None
  /\ req[r].at \in {"write", "respond"} => Settled(req[r].id)
  /\ req[r].at = "start" =>
       /\ rows[req[r].id].enabled
       /\ req[r].id \in DOMAIN summaries => summaries[req[r].id].check = rows[req[r].id]
  /\ req[r].at = "delete" => req[r].id \notin DOMAIN summaries

(* One request at a time; every check but the one it is about is settled.   *)
Solo == \A q, r \in InFlight : q = r

OthersSettled ==
  proc # "down" => \A i \in Ids : (\A r \in InFlight : req[r].id # i) => Settled(i)

InStep == proc # "down" => \A r \in InFlight : Underway(r)

SequentialInv == Solo /\ OthersSettled /\ InStep

-----------------------------------------------------------------------------
(* A step that leaves alone all that Settled speaks of. *)
Untouched(i) ==
  /\ i \in DOMAIN rows' <=> i \in DOMAIN rows
  /\ i \in DOMAIN rows => rows'[i] = rows[i]
  /\ i \in DOMAIN summaries' <=> i \in DOMAIN summaries
  /\ i \in DOMAIN summaries => summaries'[i].check = summaries[i].check
  /\ checks'[i] = checks[i]
  /\ checks[i] # None => go'[checks[i]].check = go[checks[i]].check

LEMMA StaysSettled ==
  ASSUME NEW i \in Ids, Settled(i), Untouched(i)
  PROVE  Settled(i)'
BY DEF Settled, Untouched

(* With one request at a time, a request arrives only when none is served.  *)
LEMMA ArrivesAlone ==
  ASSUME MaxInFlight = 1, Solo, NEW r \in Reqs, Arrives(r)
  PROVE  InFlight = {}
<1> SUFFICES ASSUME NEW q \in InFlight PROVE FALSE
  OBVIOUS
<1>1. InFlight = {q}
  BY DEF Solo
<1>2. Cardinality(InFlight) = 1
  BY <1>1, FS_Singleton
<1>3. Cardinality(InFlight) < 1
  BY DEF Arrives
<1> QED BY <1>2, <1>3

(* A step of the request r, which is about i: what is left to show is what  *)
(* it says of i.                                                            *)
LEMMA OneMoves ==
  ASSUME CheckerInv, SequentialInv, NEW r \in Reqs, InFlight \subseteq {r}, proc # "down",
         UNCHANGED proc, \A q \in Reqs \ {r} : req'[q] = req[q],
         NEW i \in Ids, r \in InFlight => req[r].id = i, \A j \in Ids \ {i} : Untouched(j),
         \/ req'[r].at \in {"new", "done"} /\ Settled(i)'
         \/ req'[r].at \notin {"new", "done"} /\ req'[r].id = i /\ Underway(r)'
  PROVE  SequentialInv'
<1>1. InFlight' \subseteq {r}
  BY DEF InFlight
<1>2. Solo'
  BY <1>1 DEF Solo
<1>3. \A j \in Ids \ {i} : Settled(j)'
  BY StaysSettled DEF SequentialInv, OthersSettled
<1>4. ASSUME \A q \in InFlight' : req'[q].id # i
      PROVE  Settled(i)'
  BY <1>4 DEF InFlight
<1>5. OthersSettled'
  BY <1>3, <1>4 DEF OthersSettled
<1>6. InStep'
  BY <1>1 DEF InStep, InFlight
<1> QED BY <1>2, <1>5, <1>6 DEF SequentialInv

-----------------------------------------------------------------------------
LEMMA InitSequential == Init => SequentialInv
<1> SUFFICES ASSUME Init PROVE SequentialInv
  OBVIOUS
<1>1. InFlight = {} /\ proc = "down"
  BY DEF Init, InFlight
<1> QED BY <1>1 DEF SequentialInv, Solo, OthersSettled, InStep

LEMMA ProcessSequential ==
  ASSUME CheckerInv, SequentialInv, Start \/ MemoryLost
  PROVE  SequentialInv'
<1> USE CheckerAssumption
<1>0. TypeChecks /\ TypeRequests /\ TypeTable
  BY DEF CheckerInv, TypeOK
<1>1. CASE Start
  <2>1. InFlight' = {}
    BY <1>1 DEF Start, CheckerInv, DownIsIdle, InFlight
  <2>2. DOMAIN rows \subseteq Ids /\ Ids \subseteq Starters
    BY <1>0 DEF TypeTable, Ids, Starters
  <2>3. ASSUME NEW i \in Ids
        PROVE  Settled(i)'
    <3> DEFINE on == {j \in DOMAIN rows : rows[j].enabled}
    <3>1. rows' = rows /\ i # None /\ i \in Starters
      BY <1>1, <2>2 DEF Start
    <3>2. checks'[i] = IF i \in on THEN i ELSE None
      BY <1>1 DEF Start
    <3>3. DOMAIN summaries' = on /\ (i \in on => summaries'[i].check = rows[i])
      BY <1>1 DEF Start
    <3>4. i \in on => go'[i].check = rows[i]
      BY <1>1, <3>1 DEF Start, Launched
    <3> QED BY <3>1, <3>2, <3>3, <3>4 DEF Settled
  <2> QED BY <2>1, <2>3 DEF SequentialInv, Solo, OthersSettled, InStep
<1>2. CASE MemoryLost
  <2>1. \A r \in Reqs : req'[r].at \in {"new", "done"}
    BY <1>0, <1>2 DEF MemoryLost, InFlight, TypeRequests, Request
  <2>2. InFlight' = {} /\ proc' = "down"
    BY <1>2, <2>1 DEF MemoryLost, InFlight
  <2> QED BY <2>2 DEF SequentialInv, Solo, OthersSettled, InStep
<1> QED BY <1>1, <1>2

(* Steps that leave every check and every request alone. *)
LEMMA NobodyMoves ==
  ASSUME SequentialInv, UNCHANGED req, proc' # "down" => proc # "down", \A i \in Ids : Untouched(i),
         UNCHANGED <<rows, checks>>, DOMAIN summaries' = DOMAIN summaries, TypeRequests
  PROVE  SequentialInv'
<1>1. InFlight' = InFlight /\ Solo'
  BY DEF InFlight, Solo, SequentialInv
<1>2. OthersSettled'
  BY <1>1, StaysSettled DEF SequentialInv, OthersSettled
<1>3. ASSUME NEW r \in InFlight, proc # "down"
      PROVE  Underway(r)'
  <2>1. Underway(r) /\ req[r].id \in Ids /\ req'[r] = req[r]
    BY <1>3 DEF SequentialInv, InStep, TypeRequests
  <2>2. Settled(req[r].id) => Settled(req[r].id)'
    BY <2>1, StaysSettled
  <2>3. Untouched(req[r].id)
    BY <2>1
  <2> QED BY <2>1, <2>2, <2>3 DEF Underway, Untouched
<1> QED BY <1>1, <1>2, <1>3 DEF SequentialInv, InStep

LEMMA RunningSequential ==
  ASSUME CheckerInv, SequentialInv, NEW s \in Starters, RunCheck(s)
  PROVE  SequentialInv'
<1> USE CheckerAssumption
<1>0. TypeChecks /\ TypeRequests /\ TypeSummaries
  BY DEF CheckerInv, TypeOK
<1>1. UNCHANGED <<proc, req, rows, checks>>
  BY <1>0, Running
<1>2. /\ DOMAIN summaries' = DOMAIN summaries
      /\ \A i \in DOMAIN summaries : summaries'[i].check = summaries[i].check
  <2>1. CASE StoreResult(s)
    BY <1>0, <2>1 DEF StoreResult, TypeSummaries, Summary
  <2> QED BY <2>1 DEF RunCheck, Probe, Tick, Return
<1>3. \A t \in Starters : go'[t].check = go[t].check
  BY <1>0, Running
<1>4. \A i \in Ids : Untouched(i)
  BY <1>0, <1>1, <1>2, <1>3 DEF Untouched, TypeChecks
<1> QED BY <1>0, <1>1, <1>2, <1>4, NobodyMoves

-----------------------------------------------------------------------------
(* stopCheck leaves the other checks alone, and this one unwatched. *)
LEMMA StoppingAlone ==
  ASSUME CheckerInv, NEW id \in Ids, StopCheck(id)
  PROVE  /\ checks'[id] = None
         /\ \A j \in Ids \ {id} : /\ checks'[j] = checks[j]
                                  /\ checks[j] # None => go'[checks[j]].check = go[checks[j]].check
<1> USE CheckerAssumption
<1>0. TypeChecks /\ StopChannelOpen
  BY DEF CheckerInv, TypeOK
<1>1. checks' = [checks EXCEPT ![id] = None]
  BY <1>0, Stopping
<1>2. \A s \in Starters : go[s] # None => go'[s].check = go[s].check
  BY <1>0, Stopping DEF TypeChecks
<1> QED BY <1>0, <1>1, <1>2 DEF TypeChecks, StopChannelOpen

LEMMA ArrivingSequential ==
  ASSUME MaxInFlight = 1, ~DBMayFail, CheckerInv, SequentialInv, NEW r \in Reqs, Arrive(r)
  PROVE  SequentialInv'
<1> USE CheckerAssumption
<1>0. TypeChecks /\ TypeRequests /\ TypeTable /\ TypeSummaries
  BY DEF CheckerInv, TypeOK
<1>1. Arrives(r) /\ UNCHANGED proc /\ UNCHANGED summaries
  BY DEF Arrive, Add, GetURLCheck, Remove, memory
<1>2. InFlight = {} /\ proc = "up"
  BY <1>1, ArrivesAlone DEF SequentialInv, Arrives
<1>3. \A i \in Ids : Settled(i)
  BY <1>2 DEF SequentialInv, OthersSettled
<1>4. \A q \in Reqs \ {r} : req'[q] = req[q]
  BY <1>0 DEF Arrive, Add, GetURLCheck, Remove, Done, TypeRequests
<1>5. ASSUME NEW i \in Ids, UNCHANGED <<rows, checks, go>>, req'[r].at = "done"
      PROVE  SequentialInv'
  <2>1. \A j \in Ids : Untouched(j)
    BY <1>1, <1>5 DEF Untouched
  <2>2. Settled(i)'
    BY <1>3, <2>1, StaysSettled
  <2> QED BY <1>1, <1>2, <1>4, <1>5, <2>1, <2>2, OneMoves
<1>6. ASSUME NEW check \in Configs, Add(r, check)
      PROVE  SequentialInv'
  <2>0. nextId \in Ids /\ UNCHANGED <<checks, go>>
    BY <1>6 DEF Add, memory
  <2>1. CASE Done(r) /\ UNCHANGED rows
    <3>1. req'[r].at = "done"
      BY <1>0, <2>1 DEF Done, TypeRequests, Request
    <3> QED BY <1>5, <2>0, <2>1, <3>1
  <2>2. CASE /\ InsertURLCheck(check)
             /\ req' = [req EXCEPT ![r] = [at |-> "summary", id |-> nextId, check |-> check]]
    <3>1. rows' = Put(rows, nextId, check) /\ nextId \notin DOMAIN rows
      BY <1>0, <2>2 DEF InsertURLCheck, TypeTable
    <3>2. nextId \in DOMAIN rows' /\ rows'[nextId] = check
      BY <3>1 DEF Put
    <3>3. checks[nextId] = None
      BY <1>3, <2>0, <3>1 DEF Settled
    <3>4. \A j \in Ids \ {nextId} : Untouched(j)
      BY <1>1, <2>0, <3>1 DEF Untouched, Put
    <3>5. req'[r].at = "summary" /\ req'[r].id = nextId /\ req'[r].check = check
      BY <1>0, <2>2 DEF TypeRequests
    <3>6. Underway(r)'
      BY <2>0, <3>2, <3>3, <3>5 DEF Underway
    <3> QED BY <1>1, <1>2, <1>4, <2>0, <3>4, <3>5, <3>6, OneMoves
  <2> QED BY <1>6, <2>1, <2>2 DEF Add
<1>7. ASSUME NEW id \in Ids, NEW edit \in Edits, GetURLCheck(r, id, edit)
      PROVE  SequentialInv'
  <2>0. UNCHANGED <<rows, checks, go>>
    BY <1>7 DEF GetURLCheck, memory
  <2>1. CASE Done(r)
    <3>1. req'[r].at = "done"
      BY <1>0, <2>1 DEF Done, TypeRequests, Request
    <3> QED BY <1>5, <2>0, <3>1
  <2>2. CASE /\ id \in DOMAIN rows
             /\ req' = [req EXCEPT ![r] = [at |-> "write", id |-> id,
                                          check |-> Edited(rows[id], edit)]]
    <3>1. req'[r].at = "write" /\ req'[r].id = id
      BY <1>0, <2>2 DEF TypeRequests
    <3>2. \A j \in Ids : Untouched(j)
      BY <1>1, <2>0 DEF Untouched
    <3>3. Settled(id)'
      BY <1>3, <3>2, StaysSettled
    <3>4. Underway(r)'
      BY <2>0, <2>2, <3>1, <3>3 DEF Underway, Settled
    <3> QED BY <1>1, <1>2, <1>4, <3>1, <3>2, <3>4, OneMoves
  <2> QED BY <1>7, <2>1, <2>2 DEF GetURLCheck
<1>8. ASSUME NEW id \in Ids, Remove(r, id)
      PROVE  SequentialInv'
  <2>0. StopCheck(id) /\ rows' = rows
    BY <1>8 DEF Remove
  <2>1. req'[r].at = "forget" /\ req'[r].id = id
    BY <1>0, <1>8 DEF Remove, TypeRequests
  <2>2. \A j \in Ids \ {id} : Untouched(j)
    BY <1>1, <2>0, StoppingAlone DEF Untouched
  <2>3. checks'[id] = None
    BY <2>0, StoppingAlone
  <2>4. Underway(r)'
    BY <2>1, <2>3 DEF Underway
  <2> QED BY <1>1, <1>2, <1>4, <2>1, <2>2, <2>4, OneMoves
<1> QED BY <1>6, <1>7, <1>8 DEF Arrive

LEMMA ServingSequential ==
  ASSUME ~DBMayFail, CheckerInv, SequentialInv, NEW r \in Reqs, Serve(r)
  PROVE  SequentialInv'
<1> USE CheckerAssumption
<1>0. TypeChecks /\ TypeRequests /\ TypeTable /\ TypeSummaries
  BY DEF CheckerInv, TypeOK
<1>1. /\ req[r].at \notin {"new", "done"} /\ req[r] \in Request /\ UNCHANGED proc
      /\ \A q \in Reqs \ {r} : req'[q] = req[q]
  BY <1>0
     DEF Serve, NewSummary, UpdateURLCheck, UpdateStop, UpdateSummary, StartCheck,
         RemoveSummary, DeleteURLCheck, Respond, Goto, Done, TypeRequests
<1>2. r \in InFlight
  BY <1>0, <1>1, Serving
<1>3. PICK i \in Ids : i = req[r].id
  BY <1>0, <1>1, Serving
<1>4. PICK check : check = req[r].check
  OBVIOUS
<1>5. InFlight \subseteq {r} /\ proc # "down"
  BY <1>0, <1>2 DEF SequentialInv, Solo, CheckerInv, DownIsIdle, TypeRequests
<1>6. Underway(r)
  BY <1>2, <1>5 DEF SequentialInv, InStep
<1>7. ASSUME NEW stage, Goto(r, stage)
      PROVE  req'[r].at = stage /\ req'[r].id = i /\ req'[r].check = check
  BY <1>0, <1>1, <1>3, <1>4, <1>7 DEF Goto, TypeRequests, Request
<1>8. Done(r) => req'[r].at = "done"
  BY <1>0, <1>1 DEF Done, TypeRequests, Request
<1>9. ASSUME \A j \in Ids \ {i} : Untouched(j),
             \/ req'[r].at = "done" /\ Settled(i)'
             \/ req'[r].at \notin {"new", "done"} /\ req'[r].id = i /\ Underway(r)'
      PROVE  SequentialInv'
  BY <1>1, <1>3, <1>5, <1>9, OneMoves
<1>10. CASE NewSummary(r)
  <2>1. i \in DOMAIN rows /\ rows[i] = check /\ checks[i] = None
    BY <1>3, <1>4, <1>6, <1>10 DEF Underway, NewSummary
  <2>2. summaries' = Put(summaries, i, [check |-> check, last |-> None])
    BY <1>3, <1>4, <1>10 DEF NewSummary
  <2>3. UNCHANGED <<rows, checks, go>> /\ Goto(r, IF check.enabled THEN "start" ELSE "respond")
    BY <1>4, <1>10 DEF NewSummary
  <2>4. i \in DOMAIN summaries' /\ summaries'[i].check = check
    BY <2>2 DEF Put
  <2>5. \A j \in Ids \ {i} : Untouched(j)
    BY <2>2, <2>3 DEF Untouched, Put
  <2>6. CASE check.enabled
    <3>1. req'[r].at = "start" /\ req'[r].id = i /\ req'[r].check = check
      BY <1>7, <2>3, <2>6
    <3>2. Underway(r)'
      BY <2>1, <2>3, <2>4, <2>6, <3>1 DEF Underway
    <3> QED BY <1>9, <2>5, <3>1, <3>2
  <2>7. CASE ~check.enabled
    <3>1. req'[r].at = "respond" /\ req'[r].id = i
      BY <1>7, <2>3, <2>7
    <3>2. Settled(i)'
      BY <2>1, <2>3, <2>4, <2>7 DEF Settled
    <3>3. Underway(r)'
      BY <3>1, <3>2 DEF Underway, Settled
    <3> QED BY <1>9, <2>5, <3>1, <3>3
  <2> QED BY <2>6, <2>7
<1>11. CASE UpdateURLCheck(r)
  <2>1. i \in DOMAIN rows /\ Settled(i) /\ UNCHANGED <<checks, go, summaries>>
    BY <1>3, <1>6, <1>11 DEF Underway, UpdateURLCheck, memory
  <2>2. CASE Done(r) /\ UNCHANGED rows
    <3>1. \A j \in Ids : Untouched(j)
      BY <2>1, <2>2 DEF Untouched
    <3>2. Settled(i)'
      BY <2>1, <3>1, StaysSettled
    <3> QED BY <1>8, <1>9, <2>2, <3>1, <3>2
  <2>3. CASE /\ rows' = [j \in DOMAIN rows |-> IF j = req[r].id THEN req[r].check ELSE rows[j]]
             /\ Goto(r, "stop")
    <3>1. req'[r].at = "stop" /\ req'[r].id = i /\ req'[r].check = check
      BY <1>7, <2>3
    <3>2. i \in DOMAIN rows' /\ rows'[i] = check
      BY <1>3, <1>4, <2>1, <2>3
    <3>3. \A j \in Ids \ {i} : Untouched(j)
      BY <1>3, <2>1, <2>3 DEF Untouched
    <3>4. Underway(r)'
      BY <3>1, <3>2 DEF Underway
    <3> QED BY <1>9, <3>1, <3>3, <3>4
  <2> QED BY <1>11, <2>2, <2>3 DEF UpdateURLCheck
<1>12. CASE UpdateStop(r)
  <2>1. i \in DOMAIN rows /\ rows[i] = check /\ UNCHANGED <<rows, summaries>>
    BY <1>3, <1>4, <1>6, <1>12 DEF Underway, UpdateStop
  <2>2. StopCheck(i) /\ Goto(r, "relabel")
    BY <1>3, <1>12 DEF UpdateStop
  <2>3. req'[r].at = "relabel" /\ req'[r].id = i /\ req'[r].check = check
    BY <1>7, <2>2
  <2>4. checks'[i] = None
    BY <2>2, StoppingAlone
  <2>5. \A j \in Ids \ {i} : Untouched(j)
    BY <2>1, <2>2, StoppingAlone DEF Untouched
  <2>6. Underway(r)'
    BY <2>1, <2>3, <2>4 DEF Underway
  <2> QED BY <1>9, <2>3, <2>5, <2>6
<1>13. CASE UpdateSummary(r)
  <2>1. i \in DOMAIN rows /\ rows[i] = check /\ checks[i] = None
    BY <1>3, <1>4, <1>6, <1>13 DEF Underway, UpdateSummary
  <2>2. summaries' = [j \in DOMAIN summaries |->
                        IF j = i THEN [summaries[j] EXCEPT !.check = check] ELSE summaries[j]]
    BY <1>3, <1>4, <1>13 DEF UpdateSummary
  <2>3. UNCHANGED <<rows, checks, go>> /\ Goto(r, IF check.enabled THEN "start" ELSE "respond")
    BY <1>4, <1>13 DEF UpdateSummary
  <2>4. i \in DOMAIN summaries' => summaries'[i].check = check
    BY <1>0, <2>2 DEF TypeSummaries, Summary
  <2>5. \A j \in Ids \ {i} : Untouched(j)
    BY <2>2, <2>3 DEF Untouched
  <2>6. CASE check.enabled
    <3>1. req'[r].at = "start" /\ req'[r].id = i /\ req'[r].check = check
      BY <1>7, <2>3, <2>6
    <3>2. Underway(r)'
      BY <2>1, <2>3, <2>4, <2>6, <3>1 DEF Underway
    <3> QED BY <1>9, <2>5, <3>1, <3>2
  <2>7. CASE ~check.enabled
    <3>1. req'[r].at = "respond" /\ req'[r].id = i
      BY <1>7, <2>3, <2>7
    <3>2. Settled(i)'
      BY <2>1, <2>3, <2>4, <2>7 DEF Settled
    <3>3. Underway(r)'
      BY <3>1, <3>2 DEF Underway, Settled
    <3> QED BY <1>9, <2>5, <3>1, <3>3
  <2> QED BY <2>6, <2>7
<1>14. CASE StartCheck(r)
  <2>1. /\ i \in DOMAIN rows /\ rows[i] = check /\ rows[i].enabled
        /\ i \in DOMAIN summaries => summaries[i].check = rows[i]
    BY <1>3, <1>4, <1>6, <1>14 DEF Underway, StartCheck
  <2>2. /\ checks' = [checks EXCEPT ![i] = r] /\ go[r] = None
        /\ go'[r].check = check /\ \A s \in Starters \ {r} : go'[s] = go[s]
    BY <1>3, <1>4, <1>14, Starting
  <2>3. /\ rows' = rows /\ Goto(r, "respond")
        /\ summaries' = IF i \in DOMAIN summaries THEN summaries
                        ELSE Put(summaries, i, [check |-> check, last |-> None])
    BY <1>3, <1>4, <1>14 DEF StartCheck
  <2>4. i \in DOMAIN summaries' /\ summaries'[i].check = check
    BY <2>1, <2>3 DEF Put
  <2>5. checks'[i] = r /\ r # None
    BY <1>0, <2>2 DEF TypeChecks, Starters
  <2>6. Settled(i)'
    BY <2>1, <2>2, <2>3, <2>4, <2>5 DEF Settled
  <2>7. \A j \in Ids \ {i} : checks[j] # r /\ checks'[j] = checks[j]
    BY <1>0, <2>2, <2>5 DEF CheckerInv, StopChannelOpen, TypeChecks
  <2>8. \A j \in Ids \ {i} : Untouched(j)
    BY <1>0, <2>2, <2>3, <2>7 DEF Untouched, Put, TypeChecks
  <2>9. req'[r].at = "respond" /\ req'[r].id = i
    BY <1>7, <2>3
  <2>10. Underway(r)'
    BY <2>6, <2>9 DEF Underway, Settled
  <2> QED BY <1>9, <2>8, <2>9, <2>10
<1>15. CASE RemoveSummary(r)
  <2>1. checks[i] = None /\ UNCHANGED <<rows, checks, go>>
    BY <1>3, <1>6, <1>15 DEF Underway, RemoveSummary
  <2>2. summaries' = Drop(summaries, i) /\ Goto(r, "delete")
    BY <1>3, <1>15 DEF RemoveSummary
  <2>3. req'[r].at = "delete" /\ req'[r].id = i
    BY <1>7, <2>2
  <2>4. \A j \in Ids \ {i} : Untouched(j)
    BY <2>1, <2>2 DEF Untouched, Drop
  <2>5. Underway(r)'
    BY <2>1, <2>2, <2>3 DEF Underway, Drop
  <2> QED BY <1>9, <2>3, <2>4, <2>5
<1>16. CASE DeleteURLCheck(r)
  <2>1. checks[i] = None /\ i \notin DOMAIN summaries /\ UNCHANGED <<summaries, checks, go>>
    BY <1>3, <1>6, <1>16 DEF Underway, DeleteURLCheck, memory
  <2>2. rows' = Drop(rows, i) /\ Goto(r, "respond")
    BY <1>3, <1>16 DEF DeleteURLCheck
  <2>3. req'[r].at = "respond" /\ req'[r].id = i
    BY <1>7, <2>2
  <2>4. \A j \in Ids \ {i} : Untouched(j)
    BY <2>1, <2>2 DEF Untouched, Drop
  <2>5. Settled(i)'
    BY <2>1, <2>2 DEF Settled, Drop
  <2>6. Underway(r)'
    BY <2>3, <2>5 DEF Underway, Settled
  <2> QED BY <1>9, <2>3, <2>4, <2>6
<1>17. CASE Respond(r)
  <2>1. Settled(i) /\ Done(r) /\ UNCHANGED <<rows, summaries, checks, go>>
    BY <1>3, <1>6, <1>17 DEF Underway, Respond, memory
  <2>2. \A j \in Ids : Untouched(j)
    BY <2>1 DEF Untouched
  <2> QED BY <1>8, <1>9, <2>1, <2>2, StaysSettled
<1> QED BY <1>10, <1>11, <1>12, <1>13, <1>14, <1>15, <1>16, <1>17 DEF Serve

(* Where requests come one after the other and the database does not fail,   *)
(* every one of them, finished or broken off by a crash and a restart,       *)
(* leaves the table, the summaries and the registered goroutines in step for *)
(* every check, however many there are and whatever they were edited to.     *)
THEOREM QuietConsistentHolds ==
  MaxInFlight = 1 /\ ~DBMayFail => (Spec => []QuietConsistent)
<1> SUFFICES ASSUME MaxInFlight = 1 /\ ~DBMayFail
             PROVE  Spec => []QuietConsistent
  OBVIOUS
<1>1. CheckerInv /\ SequentialInv /\ [Next]_vars => SequentialInv'
  <2> SUFFICES ASSUME CheckerInv, SequentialInv, [Next]_vars
               PROVE  SequentialInv'
    OBVIOUS
  <2>1. TypeRequests
    BY DEF CheckerInv, TypeOK
  <2>2. CASE UNCHANGED vars \/ Signal \/ \E r \in Reqs : ClientGone(r)
    <3>1. UNCHANGED <<rows, checks, summaries, go, req>> /\ (proc' # "down" => proc # "down")
      BY <2>2 DEF vars, Signal, ClientGone, memory
    <3>2. \A i \in Ids : Untouched(i)
      BY <3>1 DEF Untouched
    <3> QED BY <2>1, <3>1, <3>2, NobodyMoves
  <2>3. CASE Start \/ MemoryLost
    BY <2>3, ProcessSequential
  <2>4. ~StartFails
    BY DEF StartFails
  <2>5. CASE \E s \in Starters : RunCheck(s)
    BY <2>5, RunningSequential
  <2>6. CASE \E r \in Reqs : Arrive(r) \/ Serve(r)
    BY <2>6, ArrivingSequential, ServingSequential
  <2> QED BY <2>2, <2>3, <2>4, <2>5, <2>6 DEF Next, Crash, Exit
<1>2. SequentialInv => QuietConsistent
  BY DEF SequentialInv, OthersSettled, Settled, QuietConsistent
<1> QED BY <1>1, <1>2, InitSequential, InvHolds, PTL DEF Spec
=============================================================================
