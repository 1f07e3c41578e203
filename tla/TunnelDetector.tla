--------------------------- MODULE TunnelDetector ---------------------------
(***************************************************************************)
(* The tunnel detector (internal/tunnel): looks for a cloudflared process, *)
(* compares with what it saw last and records the transition.  The pid,    *)
(* the uptime and the tunnel's name are left out: they are read anew each  *)
(* time and nothing depends on them.                                       *)
(***************************************************************************)
EXTENDS Naturals, Sequences

CONSTANT RecentLimit       \* how many events a status carries (10)

ASSUME TunnelAssumption == RecentLimit \in Nat

VARIABLES
  cloudflared,     \* environment: is the process running?
  lastRunning,     \* Detector.lastRunning
  version,         \* cachedVersion, or "undetected" before versionDetected is set
  tunnelEvents,    \* table tunnel_events, oldest first
  status,          \* the status being made
  connectedOnce,   \* history: a "connected" transition in this life
  unrecorded       \* history: the insert of the last transition failed

tunnelVars == <<cloudflared, lastRunning, version, tunnelEvents, status, connectedOnce, unrecorded>>

Event == {"connected", "disconnected"}
Version == {"", "known"}
NoStatus == [running |-> FALSE, version |-> "", recent |-> <<>>]

TunnelInit ==
  /\ cloudflared \in BOOLEAN
  /\ lastRunning = FALSE /\ version = "undetected" /\ status = NoStatus
  /\ tunnelEvents = <<>>
  /\ connectedOnce = FALSE /\ unrecorded = FALSE

NewDetector ==
  /\ lastRunning' = FALSE /\ version' = "undetected" /\ status' = NoStatus
  /\ connectedOnce' = FALSE /\ unrecorded' = FALSE
  /\ UNCHANGED <<cloudflared, tunnelEvents>>

(* getVersion: the first answer is kept for the life of the process, also *)
(* when there was none.                                                   *)
GetVersion(answer) == IF version = "undetected" THEN answer ELSE version

(* Mutant: the LIMIT is dropped. *)
RecentTunnelEventsAll(events) ==
  [i \in 1..Len(events) |-> events[Len(events) + 1 - i]]

(* ORDER BY occurred_at DESC LIMIT RecentLimit *)
RecentTunnelEvents(events) ==
  LET n == Len(events)
  IN [i \in 1..(IF n < RecentLimit THEN n ELSE RecentLimit) |-> events[n + 1 - i]]

(* Mutant: a process that is gone is not looked for. *)
TransitionUpOnly(running) == running /\ ~lastRunning

Transition(running) == running # lastRunning

(* Detector.Collect.  A listing that fails, or a process whose name cannot  *)
(* be read, counts as no process; the errors of the two database calls are  *)
(* dropped.                                                                 *)
DetectTunnel(listed, inserted, fetched, answer) ==
  LET running == listed /\ cloudflared
      event == IF running THEN "connected" ELSE "disconnected"
  IN
  /\ lastRunning' = running
  /\ version' = IF running THEN GetVersion(answer) ELSE version
  /\ tunnelEvents' = IF Transition(running) /\ inserted
                     THEN Append(tunnelEvents, event) ELSE tunnelEvents
  /\ status' = [running |-> running,
                version |-> IF running THEN GetVersion(answer) ELSE "",
                recent  |-> IF fetched THEN RecentTunnelEvents(tunnelEvents') ELSE <<>>]
  /\ connectedOnce' = (connectedOnce \/ running)
  /\ unrecorded' = IF running # lastRunning THEN ~inserted ELSE unrecorded
  /\ UNCHANGED cloudflared

ProcessChanges ==
  /\ cloudflared' = ~cloudflared
  /\ UNCHANGED <<lastRunning, version, tunnelEvents, status, connectedOnce, unrecorded>>

(* Purge deletes the events older than 30 days: which are, the clock says. *)
PurgeTunnelEvents(n) ==
  /\ tunnelEvents' = SubSeq(tunnelEvents, n + 1, Len(tunnelEvents))
  /\ UNCHANGED <<cloudflared, lastRunning, version, status, connectedOnce, unrecorded>>

-----------------------------------------------------------------------------
Status == [running : BOOLEAN, version : Version, recent : Seq(Event)]

TypeTunnel ==
  /\ cloudflared \in BOOLEAN /\ lastRunning \in BOOLEAN
  /\ version \in Version \cup {"undetected"}
  /\ tunnelEvents \in Seq(Event)
  /\ status \in Status /\ Len(status.recent) <= RecentLimit
  /\ connectedOnce \in BOOLEAN /\ unrecorded \in BOOLEAN

(* The events tell what the detector saw: while it sees the tunnel up the    *)
(* newest one is "connected", and once it has seen it go in this life, it is *)
(* "disconnected"; across restarts, false listings and the purge, unless the *)
(* insert of the last transition failed.                                     *)
EventsTellState ==
  tunnelEvents # <<>> /\ ~unrecorded =>
    LET newest == tunnelEvents[Len(tunnelEvents)]
    IN IF lastRunning THEN newest = "connected"
                      ELSE connectedOnce => newest = "disconnected"
=============================================================================
