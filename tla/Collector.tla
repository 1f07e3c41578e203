----------------------------- MODULE Collector ------------------------------
(***************************************************************************)
(* runCollector (cmd/server) with what it drives: the system collector     *)
(* (IORates), the tunnel detector (TunnelDetector), the security and the   *)
(* service monitor, and the cache behind the GET handlers (LatestData,     *)
(* UpdateLatest in internal/http).  One goroutine serves a fast and a slow *)
(* ticker; when the next tick of either is due is the clock's business.    *)
(* The alert evaluation of the fast tick is AlertEngine, the parser of the *)
(* slow tick AuthLog: of the former nothing comes back, of the latter the  *)
(* rows it inserts.                                                        *)
(*                                                                         *)
(* App and Network are cached with System, by the same call, and like it   *)
(* are never nil: they are left out.                                       *)
(***************************************************************************)
EXTENDS IORates, TunnelDetector, FiniteSets

CONSTANTS
  None,
  SSHLimit,        \* how many ssh_events a snapshot shows (50)
  Bytes,           \* what a device moves at a time
  MaxChanges,      \* bound: changes of the machine, and purges
  MaxFaults,       \* bound: calls that fail
  MaxLives         \* bound: restarts of the process

Security == [shown : SUBSET (1..MaxChanges), complete : BOOLEAN]

ASSUME CollectorAssumption ==
  /\ None \notin Status \cup Security \cup {"snapshot"}
  /\ \A S \in SUBSET Devs : None \notin [S -> Count]
  /\ Bytes \subseteq Nat /\ SSHLimit \in Nat \ {0}
  /\ MaxChanges \in Nat /\ MaxFaults \in Nat /\ MaxLives \in Nat

VARIABLES
  pc,              \* runCollector: "idle" (the select), "system", "tunnel", "parsed" or "returned"
  ctxDone,         \* has a signal cancelled the context?
  sshRows,         \* table ssh_events: its rows, numbered from the oldest
  latest,          \* Handler.latest
  changes, faults, lives   \* budgets spent

loop == <<pc, ctxDone>>
budgets == <<changes, faults, lives>>
vars == <<ctr, prevIO, since, rates, moved, restarted,
          cloudflared, lastRunning, version, tunnelEvents, status, connectedOnce, unrecorded,
          pc, ctxDone, sshRows, latest, changes, faults, lives>>

Parts == {"system", "tunnel", "security", "services"}
NoData == [p \in Parts |-> None]

Init ==
  /\ IOInit /\ TunnelInit
  /\ pc = "idle" /\ ctxDone = FALSE
  /\ sshRows = {} /\ latest = NoData
  /\ changes = 0 /\ faults = 0 /\ lives = 0

(* The calls of a step succeed, or some fail, be it because the signal has *)
(* cancelled their context.                                                *)
Outcome(ok) ==
  \/ ok /\ UNCHANGED faults
  \/ ~ok /\ faults < MaxFaults /\ faults' = faults + 1

-----------------------------------------------------------------------------
(* The cache. *)

(* Mutant: the cached value is replaced as a whole. *)
UpdateLatestReplaces(d) == latest' = [p \in Parts |-> IF p \in DOMAIN d THEN d[p] ELSE None]

(* Mutant: only the parts that are still empty are set. *)
UpdateLatestOnce(d) ==
  latest' = [p \in Parts |-> IF p \in DOMAIN d /\ latest[p] = None THEN d[p] ELSE latest[p]]

(* Parts that d does not have are nil in the code's LatestData. *)
UpdateLatest(d) == latest' = [p \in Parts |-> IF p \in DOMAIN d THEN d[p] ELSE latest[p]]

(* The GET handlers: null in the answer is None. *)
HandleMetrics == latest["system"]
HandleTunnel == latest["tunnel"]
HandleSecurity == latest["security"]
HandleServices == latest["services"]

-----------------------------------------------------------------------------
(* The fast tick: system, tunnel, then the broadcasts and the cache. *)

TakeFast ==
  /\ pc = "idle"
  /\ pc' = "system"
  /\ \E unread \in {{}, Disks, Ifaces, Devs} : CollectIO(unread) /\ Outcome(unread = {})
  /\ UNCHANGED <<tunnelVars, ctxDone, sshRows, latest, changes, lives>>

CollectTunnel ==
  /\ pc = "system"
  /\ pc' = "tunnel"
  /\ \E listed, inserted, fetched \in BOOLEAN, answer \in Version :
       /\ DetectTunnel(listed, inserted, fetched, answer)
       /\ Outcome(listed /\ inserted /\ fetched /\ answer = "known")
  /\ UNCHANGED <<ioVars, ctxDone, sshRows, latest, changes, lives>>

PublishFast ==
  /\ pc = "tunnel"
  /\ pc' = "idle"
  /\ UpdateLatest([system |-> rates, tunnel |-> status])
  /\ UNCHANGED <<ioVars, tunnelVars, ctxDone, sshRows, budgets>>

-----------------------------------------------------------------------------
(* The slow tick: auth log, security, services. *)

(* The parser finds nothing in the log, or a login after those it has found. *)
Parse ==
  \/ UNCHANGED <<sshRows, changes>>
  \/ /\ changes < MaxChanges /\ changes' = changes + 1
     /\ sshRows' = sshRows \cup {changes + 1}

(* Mutant: a fast tick that is due, a second after the last one, comes first. *)
TakeSlowLast ==
  /\ pc = "idle" /\ since = 0
  /\ pc' = "parsed"
  /\ Parse
  /\ UNCHANGED <<ioVars, tunnelVars, ctxDone, latest, faults, lives>>

TakeSlow ==
  /\ pc = "idle"
  /\ pc' = "parsed"
  /\ Parse
  /\ UNCHANGED <<ioVars, tunnelVars, ctxDone, latest, faults, lives>>

(* The newest rows, as many as the query's LIMIT. *)
RecentSSHEvents == {r \in sshRows : Cardinality({q \in sshRows : q > r}) < SSHLimit}

(* Monitor.Snapshot: when a query fails it returns what it has, and that is *)
(* not nil.  shown are the events of the snapshot, complete says that both  *)
(* queries were answered.                                                   *)
Snapshot(recent, byIP) ==
  [shown |-> IF recent THEN RecentSSHEvents ELSE {}, complete |-> recent /\ byIP]

(* services.Monitor.Collect keeps no state and always has a snapshot. *)
CollectServices == "snapshot"

PublishSlow ==
  /\ pc = "parsed"
  /\ pc' = "idle"
  /\ \E recent, byIP \in BOOLEAN :
       /\ UpdateLatest([security |-> Snapshot(recent, byIP), services |-> CollectServices])
       /\ Outcome(recent /\ byIP)
  /\ UNCHANGED <<ioVars, tunnelVars, ctxDone, sshRows, changes, lives>>

(* ctx.Done: one ready case among up to three. *)
Return ==
  /\ pc = "idle" /\ ctxDone
  /\ pc' = "returned"
  /\ UNCHANGED <<ioVars, tunnelVars, ctxDone, sshRows, latest, budgets>>

-----------------------------------------------------------------------------
(* Clock, machine, purge job and process. *)

Time == Second /\ UNCHANGED <<tunnelVars, loop, sshRows, latest, budgets>>

Change ==
  /\ changes < MaxChanges
  /\ changes' = changes + 1
  /\ UNCHANGED <<loop, latest, faults, lives>>

DeviceChanges ==
  /\ Change
  /\ \E d \in Devs : Unplug(d) \/ Plug(d) \/ \E b \in Bytes : Traffic(d, b)
  /\ UNCHANGED <<tunnelVars, sshRows>>

CloudflaredChanges == Change /\ ProcessChanges /\ UNCHANGED <<ioVars, sshRows>>

Purge ==
  /\ Change
  /\ \E n \in 0..Len(tunnelEvents) : PurgeTunnelEvents(n)
  /\ \E cutoff \in 0..MaxChanges : sshRows' = {r \in sshRows : r > cutoff}
  /\ UNCHANGED ioVars

(* The process ends and systemd starts it again: memory is new. *)
Reboot ==
  /\ NewCollector /\ NewDetector
  /\ pc' = "idle" /\ ctxDone' = FALSE
  /\ latest' = NoData
  /\ lives' = lives + 1
  /\ UNCHANGED <<sshRows, changes, faults>>

Crash == lives < MaxLives /\ ~ctxDone /\ Reboot

Signal ==
  /\ lives < MaxLives /\ ~ctxDone
  /\ ctxDone' = TRUE
  /\ UNCHANGED <<ioVars, tunnelVars, pc, sshRows, latest, budgets>>

(* main returns, wherever the collector is. *)
Exit == ctxDone /\ Reboot

-----------------------------------------------------------------------------
Next ==
  \/ TakeFast \/ CollectTunnel \/ PublishFast
  \/ TakeSlow \/ PublishSlow \/ Return
  \/ Time \/ DeviceChanges \/ CloudflaredChanges \/ Purge
  \/ Crash \/ Signal \/ Exit

Spec == Init /\ [][Next]_vars

(* Time passes, a tick that was taken is served to its end, and main returns *)
(* within the limit of Shutdown.  The select picks at random among what is   *)
(* ready: a tick that is due again and again is taken.                       *)
Fairness ==
  /\ WF_vars(Time) /\ SF_vars(TakeFast) /\ SF_vars(TakeSlow)
  /\ WF_vars(CollectTunnel) /\ WF_vars(PublishFast) /\ WF_vars(PublishSlow)
  /\ WF_vars(Exit)

FairSpec == Spec /\ Fairness

-----------------------------------------------------------------------------
TypeOK ==
  /\ TypeIO /\ TypeTunnel
  /\ pc \in {"idle", "system", "tunnel", "parsed", "returned"}
  /\ ctxDone \in BOOLEAN
  /\ sshRows \subseteq 1..changes
  /\ DOMAIN latest = Parts
  /\ HandleTunnel \in Status \cup {None} /\ HandleSecurity \in Security \cup {None}
  /\ changes \in 0..MaxChanges /\ faults \in 0..MaxFaults /\ lives \in 0..MaxLives

(* No byte is lost or counted twice in the rates of a fast tick, whatever    *)
(* was plugged in, failed to be read or wrapped before.                      *)
BytesCountedOnce == [][pc = "idle" /\ pc' = "system" => EachByteOnce]_vars

(* A part of the dashboard's data that was served once is served for the     *)
(* rest of the process's life: neither tick erases what the other one        *)
(* cached (handlers.go:44).                                                  *)
CacheKeeps ==
  [][lives' = lives => \A p \in Parts : latest[p] # None => latest'[p] # None]_vars

(* GET /api/tunnel comes to tell whether cloudflared runs, and stays with    *)
(* it, after failed listings, restarts and ticks that were dropped.          *)
TunnelConverges ==
  \A b \in BOOLEAN :
    <>[](cloudflared = b) => <>[](HandleTunnel # None /\ HandleTunnel.running = b)

(* GET /api/security recovers from a snapshot cut short by a failing query   *)
(* and comes to show the newest rows, as many as the LIMIT allows, however   *)
(* busy the fast ticker is.                                                  *)
SecurityRecovers ==
  <>[](/\ HandleSecurity # None /\ HandleSecurity.complete
       /\ HandleSecurity.shown \subseteq sshRows
       /\ \A old \in sshRows \ HandleSecurity.shown :
            /\ Cardinality(HandleSecurity.shown) = SSHLimit
            /\ \A new \in HandleSecurity.shown : old < new)
=============================================================================
