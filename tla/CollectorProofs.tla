-------------------------- MODULE CollectorProofs ---------------------------
(***************************************************************************)
(* Theorems about Collector, for every set of devices, every width of the  *)
(* counters and any number of changes, failing calls and restarts.         *)
(***************************************************************************)
EXTENDS Collector, TLAPS

-----------------------------------------------------------------------------
(* Arithmetic of counters that wrap. *)

LEMMA ModBound ==
  ASSUME NEW n \in Nat \ {0}, NEW x \in Int
  PROVE  x % n \in 0..(n - 1)
OBVIOUS

LEMMA DivBound ==
  ASSUME NEW n \in Nat \ {0}, NEW x \in 0..(n - 1), NEW k \in Nat \ {0}
  PROVE  x \div k \in 0..(n - 1)
OBVIOUS

(* A remainder below n determines itself. *)
LEMMA ModUnique ==
  ASSUME NEW n \in Nat \ {0}, NEW q \in Int, NEW r \in 0..(n - 1)
  PROVE  (n * q + r) % n = r
<1> DEFINE x == n * q + r
           d == q - (x \div n)
<1>1. x \in Int /\ x % n \in 0..(n - 1) /\ x \div n \in Int /\ d \in Int
  OBVIOUS
<1>2. x = n * (x \div n) + (x % n)
  BY <1>1
<1>3. n * d = (x % n) - r
  BY <1>1, <1>2
<1>4. n * d < n /\ n * d > -n
  BY <1>1, <1>3
<1> HIDE DEF d
<1>5. d = 0
  <2>1. ASSUME d >= 1 PROVE n * d >= n
    BY <2>1, <1>1
  <2>2. ASSUME d <= -1 PROVE n * d <= -n
    BY <2>2, <1>1
  <2> QED
    BY <2>1, <2>2, <1>1, <1>4
<1> QED
  BY <1>1, <1>3, <1>5

(* The distance from p to a counter modulo n grows by b as the counter does, *)
(* wherever it wraps, until it would reach n.                                *)
LEMMA ModAdd ==
  ASSUME NEW n \in Nat \ {0}, NEW a \in Int, NEW p \in Int, NEW b \in Nat,
         ((a - p) % n) + b < n
  PROVE  (((a + b) % n) - p) % n = ((a - p) % n) + b
<1> DEFINE q == (a - p) \div n
           m == (a + b) \div n
           r == (a - p) % n
<1>1. q \in Int /\ m \in Int /\ r \in 0..(n - 1)
  OBVIOUS
<1>2. a - p = n * q + r
  OBVIOUS
<1>3. (a + b) % n = a + b - n * m
  OBVIOUS
<1>4. r + b \in 0..(n - 1)
  BY <1>1
<1> HIDE DEF q, m, r
<1>5. ((a + b) % n) - p = n * (q - m) + (r + b)
  <2>1. n * (q - m) = n * q - n * m
    BY <1>1
  <2>2. n * q \in Int /\ n * m \in Int
    BY <1>1
  <2> QED
    BY <1>1, <1>2, <1>3, <2>1, <2>2
<1>6. (n * (q - m) + (r + b)) % n = r + b
  BY <1>1, <1>4, ModUnique
<1> QED
  BY <1>5, <1>6 DEF r

-----------------------------------------------------------------------------
(* The I/O rates. *)

Distance(d) == (ctr[d] - prevIO[d]) % W

(* The distance from the counter that was read last to the counter there is  *)
(* now says what the device has moved since.                                 *)
CountersTell ==
  \A d \in (DOMAIN prevIO \cap DOMAIN ctr) \ restarted : Distance(d) = moved[d]

IOInv == TypeIO /\ CountersTell

LEMMA IOInvStarts == IOInit => IOInv
<1> SUFFICES ASSUME IOInit PROVE IOInv
  OBVIOUS
<1>1. TypeIO
  <2>0. 0 \in Count
    BY IOAssumption DEF Count
  <2>1. ctr \in [Devs -> Count]
    <3>1. ctr \in [Devs -> InitCounts] /\ InitCounts \subseteq Count
      BY IOAssumption DEF IOInit
    <3> QED
      BY <3>1
  <2>2. prevIO = [d \in {} |-> 0] /\ rates = [d \in {} |-> 0] /\ moved = [d \in Devs |-> 0]
    BY DEF IOInit
  <2>3. since \in 0..MaxSeconds /\ restarted \subseteq Devs
    BY IOAssumption DEF IOInit
  <2> QED
    BY <2>0, <2>1, <2>2, <2>3 DEF TypeIO
<1>2. CountersTell
  BY DEF IOInit, CountersTell
<1> QED
  BY <1>1, <1>2 DEF IOInv

LEMMA NewCollectorKeepsIOInv ==
  ASSUME IOInv, NewCollector
  PROVE  IOInv'
<1>1. TypeIO'
  BY IOAssumption DEF NewCollector, IOInv, TypeIO, Count
<1>2. CountersTell'
  BY DEF NewCollector, CountersTell
<1> QED
  BY <1>1, <1>2 DEF IOInv

(* A snapshot: its rates are right, the counters it has read are those there *)
(* are, while nothing has moved since, and the others tell what they told.   *)
LEMMA CollectKeepsIOInv ==
  ASSUME IOInv, NEW unread \in SUBSET Devs, CollectIO(unread)
  PROVE  IOInv' /\ EachByteOnce
<1> DEFINE read == DOMAIN ctr \ unread
           kept == DOMAIN prevIO \cap unread
<1>1. /\ W \in Nat \ {0} /\ since \in Nat \ {0} /\ Count = 0..(W - 1)
      /\ \A d \in DOMAIN ctr : ctr[d] \in Count
      /\ \A d \in DOMAIN prevIO : prevIO[d] \in Count
      /\ \A d \in Devs : moved[d] \in Count
      /\ DOMAIN ctr \subseteq Devs /\ DOMAIN prevIO \subseteq Devs
  BY IOAssumption DEF CollectIO, IOInv, TypeIO, Count
<1>2. /\ rates' = [d \in read \cap DOMAIN prevIO |-> Rate(d)]
      /\ prevIO' = [d \in read \cup kept |-> IF d \in read THEN ctr[d] ELSE prevIO[d]]
      /\ since' = 0 /\ moved' = [d \in Devs |-> IF d \in kept THEN moved[d] ELSE 0]
      /\ restarted' = restarted \cap kept /\ ctr' = ctr
  BY DEF CollectIO
<1>3. \A d \in DOMAIN ctr \cap DOMAIN prevIO :
        Distance(d) \in Count /\ Rate(d) = Distance(d) \div since /\ Rate(d) \in Count
  <2> TAKE d \in DOMAIN ctr \cap DOMAIN prevIO
  <2>1. ctr[d] - prevIO[d] \in Int
    BY <1>1
  <2>2. Distance(d) \in 0..(W - 1)
    BY <1>1, <2>1, ModBound DEF Distance
  <2>3. Rate(d) = Distance(d) \div since
    BY DEF Rate, Distance
  <2> QED
    BY <1>1, <2>2, <2>3, DivBound
<1>4. TypeIO'
  <2>1. rates' \in [DOMAIN rates' -> Count] /\ DOMAIN rates' \subseteq Devs
    BY <1>1, <1>2, <1>3
  <2>2. prevIO' \in [DOMAIN prevIO' -> Count] /\ DOMAIN prevIO' \subseteq Devs
    BY <1>1, <1>2
  <2>3. moved' \in [Devs -> Count] /\ since' \in 0..MaxSeconds
    BY <1>1, <1>2, IOAssumption
  <2>4. restarted' \subseteq Devs
    BY <1>1, <1>2
  <2> QED
    BY <1>2, <2>1, <2>2, <2>3, <2>4 DEF IOInv, TypeIO
<1>5. CountersTell'
  <2> SUFFICES ASSUME NEW d \in (DOMAIN prevIO' \cap DOMAIN ctr') \ restarted'
               PROVE  Distance(d)' = moved'[d]
    BY DEF CountersTell
  <2>1. /\ d \in DOMAIN ctr /\ d \in read \cup kept /\ d \in Devs
        /\ prevIO'[d] = IF d \in read THEN ctr[d] ELSE prevIO[d]
        /\ moved'[d] = IF d \in kept THEN moved[d] ELSE 0
    BY <1>1, <1>2
  <2>2. Distance(d)' = (ctr[d] - prevIO'[d]) % W
    BY <1>2 DEF Distance
  <2>3. CASE d \in read
    <3>1. moved'[d] = 0 /\ prevIO'[d] = ctr[d]
      BY <2>1, <2>3
    <3>2. ctr[d] - ctr[d] = 0 /\ 0 % W = 0
      BY <1>1, <2>1
    <3> QED
      BY <2>2, <3>1, <3>2
  <2>4. CASE d \notin read
    <3>1. d \in kept /\ d \notin restarted /\ moved'[d] = moved[d] /\ prevIO'[d] = prevIO[d]
      BY <1>2, <2>1, <2>4
    <3>2. Distance(d) = moved[d]
      BY <2>1, <3>1 DEF IOInv, CountersTell
    <3> QED
      BY <2>2, <3>1, <3>2 DEF Distance
  <2> QED
    BY <2>3, <2>4
<1>6. EachByteOnce
  <2> SUFFICES ASSUME NEW d \in DOMAIN rates' \ restarted
               PROVE  rates'[d] = moved[d] \div since
    BY DEF EachByteOnce
  <2>1. /\ d \in (DOMAIN prevIO \cap DOMAIN ctr) \ restarted
        /\ rates'[d] = Distance(d) \div since
    BY <1>1, <1>2, <1>3
  <2>2. Distance(d) = moved[d]
    BY <2>1 DEF IOInv, CountersTell
  <2> QED
    BY <2>1, <2>2
<1> QED
  BY <1>4, <1>5, <1>6 DEF IOInv

(* Traffic moves counter and distance alike, across the wrap. *)
LEMMA TrafficKeepsIOInv ==
  ASSUME IOInv, NEW d \in Devs, NEW bytes \in Nat, Traffic(d, bytes)
  PROVE  IOInv'
<1>1. /\ W \in Nat \ {0} /\ Count = 0..(W - 1)
      /\ \A e \in DOMAIN ctr : ctr[e] \in Count
      /\ \A e \in DOMAIN prevIO : prevIO[e] \in Count
      /\ moved \in [Devs -> Count] /\ d \in DOMAIN ctr
  BY IOAssumption DEF Traffic, IOInv, TypeIO, Count
<1>2. /\ ctr' = [ctr EXCEPT ![d] = (ctr[d] + bytes) % W]
      /\ moved' = [moved EXCEPT ![d] = moved[d] + bytes]
      /\ moved[d] + bytes \in Count
      /\ UNCHANGED <<prevIO, since, rates, restarted>>
  BY DEF Traffic
<1>3. TypeIO'
  <2>1. (ctr[d] + bytes) % W \in Count
    <3>1. ctr[d] + bytes \in Int
      BY <1>1
    <3> QED
      BY <1>1, <3>1, ModBound
  <2>2. ctr' \in [DOMAIN ctr' -> Count] /\ DOMAIN ctr' = DOMAIN ctr
    BY <1>2, <2>1 DEF IOInv, TypeIO
  <2>3. moved' \in [Devs -> Count]
    BY <1>1, <1>2
  <2> QED
    BY <1>2, <2>2, <2>3 DEF IOInv, TypeIO
<1>4. CountersTell'
  <2> SUFFICES ASSUME NEW e \in (DOMAIN prevIO' \cap DOMAIN ctr') \ restarted'
               PROVE  Distance(e)' = moved'[e]
    BY DEF CountersTell
  <2>1. /\ e \in (DOMAIN prevIO \cap DOMAIN ctr) \ restarted
        /\ ctr[e] \in Int /\ prevIO[e] \in Int /\ e \in Devs
    BY <1>1, <1>2 DEF IOInv, TypeIO
  <2>2. Distance(e) = moved[e]
    BY <2>1 DEF IOInv, CountersTell
  <2>3. CASE e = d
    <3>1. ((ctr[d] - prevIO[d]) % W) + bytes < W
      BY <1>1, <1>2, <2>2, <2>3 DEF Distance
    <3>2. (((ctr[d] + bytes) % W) - prevIO[d]) % W = ((ctr[d] - prevIO[d]) % W) + bytes
      BY <1>1, <2>1, <2>3, <3>1, ModAdd
    <3>3. Distance(d)' = Distance(d) + bytes /\ moved'[d] = moved[d] + bytes
      BY <1>1, <1>2, <3>2 DEF Distance
    <3> QED
      BY <2>2, <2>3, <3>3
  <2>4. CASE e # d
    BY <1>1, <1>2, <2>1, <2>2, <2>4 DEF Distance
  <2> QED
    BY <2>3, <2>4
<1> QED
  BY <1>3, <1>4 DEF IOInv

LEMMA UnplugKeepsIOInv ==
  ASSUME IOInv, NEW d \in Devs, Unplug(d)
  PROVE  IOInv'
<1>1. TypeIO'
  BY DEF Unplug, IOInv, TypeIO
<1>2. CountersTell'
  BY DEF Unplug, IOInv, CountersTell, Distance
<1> QED
  BY <1>1, <1>2 DEF IOInv

(* A device that comes back is one of restarted if it was known. *)
LEMMA PlugKeepsIOInv ==
  ASSUME IOInv, NEW d \in Devs, Plug(d)
  PROVE  IOInv'
<1>1. TypeIO'
  <2>1. 0 \in Count
    BY IOAssumption DEF Count
  <2> QED
    BY <2>1 DEF Plug, IOInv, TypeIO
<1>2. CountersTell'
  BY DEF Plug, IOInv, CountersTell, Distance
<1> QED
  BY <1>1, <1>2 DEF IOInv

LEMMA SecondKeepsIOInv ==
  ASSUME IOInv, Second
  PROVE  IOInv'
<1>1. TypeIO'
  BY IOAssumption DEF Second, IOInv, TypeIO
<1>2. CountersTell'
  BY DEF Second, IOInv, CountersTell, Distance
<1> QED
  BY <1>1, <1>2 DEF IOInv

LEMMA UnchangedKeepsIOInv ==
  ASSUME IOInv, UNCHANGED ioVars
  PROVE  IOInv'
<1>1. TypeIO'
  BY DEF IOInv, TypeIO, ioVars
<1>2. CountersTell'
  BY DEF IOInv, CountersTell, Distance, ioVars
<1> QED
  BY <1>1, <1>2 DEF IOInv

-----------------------------------------------------------------------------
(* The tunnel's history. *)

(* The events are a sequence and the two flags of the detector are Booleans: *)
(* all of the type invariant that the tunnel's history rests on.             *)
TunnelTyped ==
  /\ tunnelEvents \in Seq(Event)
  /\ lastRunning \in BOOLEAN /\ connectedOnce \in BOOLEAN /\ unrecorded \in BOOLEAN
  /\ cloudflared \in BOOLEAN

TunnelInv == TunnelTyped /\ EventsTellState

LEMMA TunnelInvStarts == Init => TunnelInv
<1> SUFFICES ASSUME Init PROVE TunnelInv
  OBVIOUS
<1>1. tunnelEvents = <<>>
  BY DEF Init, TunnelInit
<1>2. EventsTellState
  BY <1>1 DEF EventsTellState
<1>3. tunnelEvents \in Seq(Event)
  BY <1>1
<1>4. /\ lastRunning \in BOOLEAN /\ connectedOnce \in BOOLEAN /\ unrecorded \in BOOLEAN
      /\ cloudflared \in BOOLEAN
  BY DEF Init, TunnelInit
<1> QED
  BY <1>2, <1>3, <1>4 DEF TunnelInv, TunnelTyped

(* One look for the process keeps the history right, whichever of its calls  *)
(* fail: a recorded transition is the newest event, one that could not be    *)
(* recorded is marked, and without a transition nothing moves.               *)
LEMMA DetectKeepsTunnelInv ==
  ASSUME TunnelInv,
         NEW listed \in BOOLEAN, NEW inserted \in BOOLEAN, NEW fetched \in BOOLEAN,
         NEW answer \in Version,
         DetectTunnel(listed, inserted, fetched, answer)
  PROVE  TunnelInv'
<1> DEFINE running == listed /\ cloudflared
           event == IF running THEN "connected" ELSE "disconnected"
<1>0. running \in BOOLEAN /\ event \in Event
  BY DEF TunnelInv, TunnelTyped, Event
<1>1. /\ lastRunning' = running
      /\ tunnelEvents' = IF Transition(running) /\ inserted
                         THEN Append(tunnelEvents, event) ELSE tunnelEvents
      /\ connectedOnce' = (connectedOnce \/ running)
      /\ unrecorded' = IF running # lastRunning THEN ~inserted ELSE unrecorded
      /\ cloudflared' = cloudflared
  BY DEF DetectTunnel
<1> HIDE DEF running, event
<1>2. TunnelTyped'
  BY <1>0, <1>1 DEF TunnelInv, TunnelTyped
<1>3. CASE Transition(running) /\ inserted
  <2>1. tunnelEvents' # <<>> /\ tunnelEvents'[Len(tunnelEvents')] = event
    BY <1>0, <1>1, <1>3 DEF TunnelInv, TunnelTyped
  <2>2. EventsTellState'
    BY <2>1, <1>1 DEF EventsTellState, event
  <2> QED
    BY <2>2, <1>2 DEF TunnelInv
<1>4. CASE Transition(running) /\ ~inserted
  BY <1>1, <1>2, <1>4 DEF TunnelInv, EventsTellState, Transition
<1>5. CASE ~Transition(running)
  <2>1. running = lastRunning /\ tunnelEvents' = tunnelEvents /\ unrecorded' = unrecorded
    BY <1>0, <1>1, <1>5 DEF Transition
  <2>2. EventsTellState'
    BY <2>1, <1>1 DEF TunnelInv, TunnelTyped, EventsTellState
  <2> QED
    BY <2>2, <1>2 DEF TunnelInv
<1> QED
  BY <1>3, <1>4, <1>5

(* The purge takes the oldest events: the newest, if one is left, is the one *)
(* it was.                                                                   *)
LEMMA PurgeKeepsTunnelInv ==
  ASSUME TunnelInv, NEW n \in 0..Len(tunnelEvents), PurgeTunnelEvents(n)
  PROVE  TunnelInv'
<1> DEFINE len == Len(tunnelEvents)
<1>1. len \in Nat /\ tunnelEvents \in Seq(Event)
  BY DEF TunnelInv, TunnelTyped
<1>2. /\ tunnelEvents' = SubSeq(tunnelEvents, n + 1, len)
      /\ UNCHANGED <<cloudflared, lastRunning, connectedOnce, unrecorded>>
  BY DEF PurgeTunnelEvents
<1>3. /\ tunnelEvents' \in Seq(Event) /\ Len(tunnelEvents') = len - n
      /\ \A i \in 1..(len - n) : tunnelEvents'[i] = tunnelEvents[n + i]
  BY <1>1, <1>2
<1>4. CASE n = len
  BY <1>2, <1>3, <1>4 DEF TunnelInv, TunnelTyped, EventsTellState
<1>5. CASE n # len
  <2>1. tunnelEvents # <<>> /\ tunnelEvents'[Len(tunnelEvents')] = tunnelEvents[len]
    BY <1>1, <1>3, <1>5
  <2> QED
    BY <1>2, <1>3, <2>1 DEF TunnelInv, TunnelTyped, EventsTellState
<1> QED
  BY <1>4, <1>5

LEMMA UnchangedKeepsTunnelInv ==
  ASSUME TunnelInv, UNCHANGED tunnelVars
  PROVE  TunnelInv'
BY DEF TunnelInv, TunnelTyped, EventsTellState, tunnelVars

LEMMA StepKeepsTunnelInv ==
  ASSUME TunnelInv, [Next]_vars
  PROVE  TunnelInv'
<1>1. CASE CollectTunnel
  BY <1>1, DetectKeepsTunnelInv DEF CollectTunnel
<1>2. CASE Purge
  BY <1>2, PurgeKeepsTunnelInv DEF Purge
<1>3. CASE CloudflaredChanges
  BY <1>3 DEF CloudflaredChanges, ProcessChanges, TunnelInv, TunnelTyped, EventsTellState
<1>4. CASE Crash \/ Exit
  BY <1>4 DEF Crash, Exit, Reboot, NewDetector, TunnelInv, TunnelTyped, EventsTellState
<1>5. CASE TakeFast \/ PublishFast \/ TakeSlow \/ PublishSlow \/ Return
  BY <1>5, UnchangedKeepsTunnelInv DEF TakeFast, PublishFast, TakeSlow, PublishSlow, Return
<1>6. CASE Time \/ DeviceChanges \/ Signal
  BY <1>6, UnchangedKeepsTunnelInv DEF Time, DeviceChanges, Signal
<1>7. CASE UNCHANGED vars
  BY <1>7, UnchangedKeepsTunnelInv DEF vars, tunnelVars
<1> QED
  BY <1>1, <1>2, <1>3, <1>4, <1>5, <1>6, <1>7 DEF Next

-----------------------------------------------------------------------------
(* Steps of the collector, and the rates it reports. *)

LEMMA StepKeepsIOInv ==
  ASSUME IOInv, [Next]_vars
  PROVE  IOInv' /\ (pc = "idle" /\ pc' = "system" => EachByteOnce)
<1>1. CASE TakeFast
  <2>1. PICK unread \in {{}, Disks, Ifaces, Devs} : CollectIO(unread)
    BY <1>1 DEF TakeFast
  <2>2. unread \in SUBSET Devs
    BY DEF Devs
  <2> QED
    BY <2>1, <2>2, CollectKeepsIOInv
<1>2. CASE DeviceChanges
  <2>1. PICK d \in Devs : Unplug(d) \/ Plug(d) \/ \E b \in Bytes : Traffic(d, b)
    BY <1>2 DEF DeviceChanges
  <2>2. IOInv'
    BY <2>1, UnplugKeepsIOInv, PlugKeepsIOInv, TrafficKeepsIOInv, CollectorAssumption
  <2>3. pc' = pc
    BY <1>2 DEF DeviceChanges, Change, loop
  <2> QED
    BY <2>2, <2>3
<1>3. CASE Time
  <2>1. IOInv' /\ pc' = pc
    BY <1>3, SecondKeepsIOInv DEF Time, loop
  <2> QED
    BY <2>1
<1>4. CASE Crash \/ Exit
  <2>1. IOInv' /\ pc' = "idle"
    BY <1>4, NewCollectorKeepsIOInv DEF Crash, Exit, Reboot
  <2> QED
    BY <2>1
<1>5. CASE CollectTunnel \/ PublishFast \/ TakeSlow \/ PublishSlow \/ Return
  <2>1. UNCHANGED ioVars /\ pc' \in {"tunnel", "idle", "parsed", "returned"}
    BY <1>5 DEF CollectTunnel, PublishFast, TakeSlow, PublishSlow, Return
  <2> QED
    BY <2>1, UnchangedKeepsIOInv
<1>6. CASE CloudflaredChanges \/ Purge \/ Signal
  <2>1. UNCHANGED ioVars /\ pc' = pc
    BY <1>6 DEF CloudflaredChanges, Purge, Signal, Change, loop
  <2> QED
    BY <2>1, UnchangedKeepsIOInv
<1>7. CASE UNCHANGED vars
  <2>1. UNCHANGED ioVars /\ pc' = pc
    BY <1>7 DEF vars, ioVars
  <2> QED
    BY <2>1, UnchangedKeepsIOInv
<1> QED
  BY <1>1, <1>2, <1>3, <1>4, <1>5, <1>6, <1>7 DEF Next

-----------------------------------------------------------------------------
(* The other types, and the cache. *)

TypeStatus ==
  /\ version \in Version \cup {"undetected"}
  /\ status \in Status /\ Len(status.recent) <= RecentLimit

TypeLoop ==
  /\ pc \in {"idle", "system", "tunnel", "parsed", "returned"}
  /\ ctxDone \in BOOLEAN /\ sshRows \subseteq 1..changes
  /\ changes \in 0..MaxChanges /\ faults \in 0..MaxFaults /\ lives \in 0..MaxLives

TypeLatest ==
  /\ DOMAIN latest = Parts
  /\ HandleTunnel \in Status \cup {None} /\ HandleSecurity \in Security \cup {None}

(* A signal is taken only where a restart is still to come.  *)
SignalInBudget == ctxDone => lives < MaxLives

TypeInv == TypeStatus /\ TypeLoop /\ TypeLatest /\ SignalInBudget

LEMMA TypeInvStarts == Init => TypeInv
<1> SUFFICES ASSUME Init PROVE TypeInv
  OBVIOUS
<1>1. TypeStatus
  <2>1. version = "undetected" /\ status = [running |-> FALSE, version |-> "", recent |-> <<>>]
    BY DEF Init, TunnelInit, NoStatus
  <2>2. <<>> \in Seq(Event) /\ Len(<<>>) <= RecentLimit
    BY TunnelAssumption
  <2> QED
    BY <2>1, <2>2 DEF TypeStatus, Status, Version
<1>2. TypeLoop
  <2>1. MaxChanges \in Nat /\ MaxFaults \in Nat /\ MaxLives \in Nat
    BY CollectorAssumption
  <2>2. /\ pc = "idle" /\ ctxDone = FALSE /\ sshRows = {}
        /\ changes = 0 /\ faults = 0 /\ lives = 0
    BY DEF Init
  <2>3. ctxDone \in BOOLEAN
    BY <2>2
  <2>4. /\ pc = "idle" /\ sshRows = {} /\ changes = 0 /\ faults = 0 /\ lives = 0
    BY <2>2
  <2> QED
    BY <2>1, <2>3, <2>4 DEF TypeLoop
<1>3. TypeLatest
  BY DEF Init, TypeLatest, NoData, Parts, HandleTunnel, HandleSecurity
<1>4. SignalInBudget
  BY DEF Init, SignalInBudget
<1> QED
  BY <1>1, <1>2, <1>3, <1>4 DEF TypeInv

(* The newest events are events, and no more of them than the limit. *)
LEMMA RecentTyped ==
  ASSUME NEW events \in Seq(Event)
  PROVE  RecentTunnelEvents(events) \in Seq(Event) /\ Len(RecentTunnelEvents(events)) <= RecentLimit
<1> DEFINE n == Len(events)
           k == IF n < RecentLimit THEN n ELSE RecentLimit
<1>1. n \in Nat /\ k \in Nat /\ k <= n /\ k <= RecentLimit
  BY TunnelAssumption
<1>2. RecentTunnelEvents(events) = [i \in 1..k |-> events[n + 1 - i]]
  BY DEF RecentTunnelEvents
<1> HIDE DEF k
<1>3. \A i \in 1..k : events[n + 1 - i] \in Event
  BY <1>1
<1>4. RecentTunnelEvents(events) \in Seq(Event) /\ Len(RecentTunnelEvents(events)) = k
  BY <1>1, <1>2, <1>3
<1> QED
  BY <1>1, <1>4

LEMMA DetectKeepsTypeStatus ==
  ASSUME TypeStatus, TunnelInv, TunnelInv',
         NEW listed \in BOOLEAN, NEW inserted \in BOOLEAN, NEW fetched \in BOOLEAN,
         NEW answer \in Version,
         DetectTunnel(listed, inserted, fetched, answer)
  PROVE  TypeStatus'
<1> DEFINE running == listed /\ cloudflared
           recent == IF fetched THEN RecentTunnelEvents(tunnelEvents') ELSE <<>>
<1>1. running \in BOOLEAN /\ GetVersion(answer) \in Version
  BY DEF TypeStatus, TunnelInv, TunnelTyped, GetVersion
<1>2. version' = IF running THEN GetVersion(answer) ELSE version
  BY DEF DetectTunnel
<1>3. status' = [running |-> running, version |-> IF running THEN GetVersion(answer) ELSE "",
                 recent |-> recent]
  BY DEF DetectTunnel
<1>4. recent \in Seq(Event) /\ Len(recent) <= RecentLimit
  <2>1. tunnelEvents' \in Seq(Event)
    BY DEF TunnelInv, TunnelTyped
  <2>2. <<>> \in Seq(Event) /\ Len(<<>>) <= RecentLimit
    BY TunnelAssumption
  <2> QED
    BY <2>1, <2>2, RecentTyped
<1> HIDE DEF running, recent
<1>5. status' \in Status /\ status'.recent = recent
  BY <1>1, <1>3, <1>4 DEF Status, Version
<1>6. version' \in Version \cup {"undetected"}
  BY <1>1, <1>2 DEF TypeStatus
<1> QED
  BY <1>4, <1>5, <1>6 DEF TypeStatus

(* A tick puts values into the cache that are of their types, none of them   *)
(* nil.                                                                      *)
LEMMA FastUpdateTyped ==
  ASSUME TypeInv, TypeIO, UpdateLatest([system |-> rates, tunnel |-> status])
  PROVE  TypeLatest' /\ \A p \in Parts : latest[p] # None => latest'[p] # None
<1> DEFINE d == [system |-> rates, tunnel |-> status]
<1>1. /\ DOMAIN d = {"system", "tunnel"} /\ d["system"] = rates /\ d["tunnel"] = status
  OBVIOUS
<1>2. rates # None /\ status # None
  BY CollectorAssumption DEF TypeIO, TypeInv, TypeStatus
<1>3. latest' = [p \in Parts |-> IF p \in DOMAIN d THEN d[p] ELSE latest[p]]
  BY DEF UpdateLatest
<1> HIDE DEF d
<1>4. /\ DOMAIN latest' = Parts
      /\ latest'["tunnel"] = status /\ latest'["security"] = latest["security"]
  BY <1>1, <1>3 DEF Parts
<1>5. TypeLatest'
  BY <1>4 DEF TypeInv, TypeStatus, TypeLatest, HandleTunnel, HandleSecurity
<1> QED
  BY <1>1, <1>2, <1>3, <1>5

LEMMA SlowUpdateTyped ==
  ASSUME TypeInv, NEW recent \in BOOLEAN, NEW byIP \in BOOLEAN,
         UpdateLatest([security |-> Snapshot(recent, byIP), services |-> CollectServices])
  PROVE  TypeLatest' /\ \A p \in Parts : latest[p] # None => latest'[p] # None
<1> DEFINE snap == Snapshot(recent, byIP)
           d == [security |-> snap, services |-> CollectServices]
<1>1. snap \in Security
  <2>1. sshRows \subseteq 1..MaxChanges
    BY CollectorAssumption DEF TypeInv, TypeLoop
  <2>2. RecentSSHEvents \subseteq 1..MaxChanges
    BY <2>1 DEF RecentSSHEvents
  <2> QED
    BY <2>2 DEF Snapshot, Security
<1>2. snap # None /\ CollectServices # None
  BY <1>1, CollectorAssumption DEF CollectServices
<1>3. /\ DOMAIN d = {"security", "services"}
      /\ d["security"] = snap /\ d["services"] = CollectServices
  OBVIOUS
<1>4. latest' = [p \in Parts |-> IF p \in DOMAIN d THEN d[p] ELSE latest[p]]
  BY DEF UpdateLatest
<1> HIDE DEF d, snap
<1>5. /\ DOMAIN latest' = Parts
      /\ latest'["security"] = snap /\ latest'["tunnel"] = latest["tunnel"]
  BY <1>3, <1>4 DEF Parts
<1>6. TypeLatest'
  BY <1>1, <1>5 DEF TypeInv, TypeLatest, HandleTunnel, HandleSecurity
<1> QED
  BY <1>2, <1>3, <1>4, <1>6

-----------------------------------------------------------------------------
(* Everything but the types of the I/O and of the events, step by step; and  *)
(* no step but a restart makes a part of the cache nil again.                *)
CachedStays == lives' = lives => \A p \in Parts : latest[p] # None => latest'[p] # None

LEMMA StepKeepsTypeInv ==
  ASSUME TypeInv, TypeIO, TunnelInv, TunnelInv', [Next]_vars
  PROVE  TypeInv' /\ CachedStays
<1>0. MaxChanges \in Nat /\ MaxFaults \in Nat /\ MaxLives \in Nat
  BY CollectorAssumption
<1>1. CASE TakeFast
  <2>1. /\ UNCHANGED <<tunnelVars, ctxDone, sshRows, latest, changes, lives>>
        /\ pc' = "system" /\ \E unread : Outcome(unread = {})
    BY <1>1 DEF TakeFast
  <2>2. faults' \in 0..MaxFaults
    BY <1>0, <2>1 DEF Outcome, TypeInv, TypeLoop
  <2>3. TypeStatus' /\ TypeLatest' /\ SignalInBudget' /\ CachedStays
    BY <2>1 DEF TypeInv, TypeStatus, TypeLatest, SignalInBudget, CachedStays, tunnelVars,
                HandleTunnel, HandleSecurity
  <2>4. TypeLoop'
    BY <2>1, <2>2 DEF TypeInv, TypeLoop
  <2> QED
    BY <2>3, <2>4 DEF TypeInv
<1>2. CASE CollectTunnel
  <2>1. PICK listed \in BOOLEAN, inserted \in BOOLEAN, fetched \in BOOLEAN, answer \in Version :
          /\ DetectTunnel(listed, inserted, fetched, answer)
          /\ Outcome(listed /\ inserted /\ fetched /\ answer = "known")
    BY <1>2 DEF CollectTunnel
  <2>2. UNCHANGED <<ctxDone, sshRows, latest, changes, lives>> /\ pc' = "tunnel"
    BY <1>2 DEF CollectTunnel
  <2>3. TypeStatus'
    BY <2>1, DetectKeepsTypeStatus DEF TypeInv
  <2>4. faults' \in 0..MaxFaults
    BY <1>0, <2>1 DEF Outcome, TypeInv, TypeLoop
  <2>5. TypeLoop'
    BY <2>2, <2>4 DEF TypeInv, TypeLoop
  <2>6. TypeLatest' /\ SignalInBudget' /\ CachedStays
    BY <2>2 DEF TypeInv, TypeLatest, SignalInBudget, CachedStays, HandleTunnel, HandleSecurity
  <2> QED
    BY <2>3, <2>5, <2>6 DEF TypeInv
<1>3. CASE PublishFast
  <2>1. /\ UNCHANGED <<tunnelVars, ctxDone, sshRows, budgets>> /\ pc' = "idle"
        /\ UpdateLatest([system |-> rates, tunnel |-> status])
    BY <1>3 DEF PublishFast
  <2>2. TypeLatest' /\ CachedStays
    BY <2>1, FastUpdateTyped DEF CachedStays
  <2>3. TypeStatus' /\ TypeLoop' /\ SignalInBudget'
    BY <2>1 DEF TypeInv, TypeStatus, TypeLoop, SignalInBudget, tunnelVars, budgets
  <2> QED
    BY <2>2, <2>3 DEF TypeInv
<1>4. CASE TakeSlow
  <2>1. /\ UNCHANGED <<tunnelVars, ctxDone, latest, faults, lives>> /\ pc' = "parsed" /\ Parse
    BY <1>4 DEF TakeSlow
  <2>2. sshRows' \subseteq 1..changes' /\ changes' \in 0..MaxChanges
    <3>1. sshRows \subseteq 1..changes /\ changes \in 0..MaxChanges
      BY DEF TypeInv, TypeLoop
    <3>2. CASE UNCHANGED <<sshRows, changes>>
      BY <3>1, <3>2
    <3>3. CASE /\ changes < MaxChanges /\ changes' = changes + 1
               /\ sshRows' = sshRows \cup {changes + 1}
      <4>1. changes' \in 0..MaxChanges /\ changes + 1 \in 1..changes'
        BY <1>0, <3>1, <3>3
      <4>2. 1..changes \subseteq 1..changes'
        BY <1>0, <3>1, <3>3
      <4> QED
        BY <3>1, <3>3, <4>1, <4>2
    <3> QED
      BY <2>1, <3>2, <3>3 DEF Parse
  <2>3. TypeLoop'
    BY <2>1, <2>2 DEF TypeInv, TypeLoop
  <2>4. TypeStatus' /\ TypeLatest' /\ SignalInBudget' /\ CachedStays
    BY <2>1 DEF TypeInv, TypeStatus, TypeLatest, SignalInBudget, CachedStays, tunnelVars,
                HandleTunnel, HandleSecurity
  <2> QED
    BY <2>3, <2>4 DEF TypeInv
<1>5. CASE PublishSlow
  <2>1. PICK recent \in BOOLEAN, byIP \in BOOLEAN :
          /\ UpdateLatest([security |-> Snapshot(recent, byIP), services |-> CollectServices])
          /\ Outcome(recent /\ byIP)
    BY <1>5 DEF PublishSlow
  <2>2. UNCHANGED <<tunnelVars, ctxDone, sshRows, changes, lives>> /\ pc' = "idle"
    BY <1>5 DEF PublishSlow
  <2>3. TypeLatest' /\ CachedStays
    BY <2>1, SlowUpdateTyped DEF CachedStays
  <2>4. faults' \in 0..MaxFaults
    BY <1>0, <2>1 DEF Outcome, TypeInv, TypeLoop
  <2>5. TypeLoop'
    BY <2>2, <2>4 DEF TypeInv, TypeLoop
  <2>6. TypeStatus' /\ SignalInBudget'
    BY <2>2 DEF TypeInv, TypeStatus, SignalInBudget, tunnelVars
  <2> QED
    BY <2>3, <2>5, <2>6 DEF TypeInv
<1>6. CASE DeviceChanges \/ CloudflaredChanges \/ Purge
  <2>1. /\ UNCHANGED <<pc, ctxDone, latest, faults, lives, version, status>>
        /\ changes < MaxChanges /\ changes' = changes + 1
    BY <1>6 DEF DeviceChanges, CloudflaredChanges, Purge, Change, loop, ProcessChanges,
                PurgeTunnelEvents, tunnelVars
  <2>2. sshRows' \subseteq sshRows
    BY <1>6 DEF DeviceChanges, CloudflaredChanges, Purge
  <2>3. TypeLoop'
    BY <1>0, <2>1, <2>2 DEF TypeInv, TypeLoop
  <2>4. TypeStatus' /\ TypeLatest' /\ SignalInBudget' /\ CachedStays
    BY <2>1 DEF TypeInv, TypeStatus, TypeLatest, SignalInBudget, CachedStays,
                HandleTunnel, HandleSecurity
  <2> QED
    BY <2>3, <2>4 DEF TypeInv
<1>7. CASE Crash \/ Exit
  <2>1. Reboot /\ lives < MaxLives
    BY <1>7 DEF Crash, Exit, TypeInv, SignalInBudget
  <2>2. /\ version' = "undetected" /\ status' = NoStatus
        /\ pc' = "idle" /\ ctxDone' = FALSE /\ latest' = NoData /\ lives' = lives + 1
        /\ UNCHANGED <<sshRows, changes, faults>>
    BY <2>1 DEF Reboot, NewDetector
  <2>3. TypeStatus'
    <3>1. status' = [running |-> FALSE, version |-> "", recent |-> <<>>]
      BY <2>2 DEF NoStatus
    <3>2. <<>> \in Seq(Event) /\ Len(<<>>) <= RecentLimit
      BY TunnelAssumption
    <3>3. status' \in Status /\ status'.recent = <<>>
      BY <3>1, <3>2 DEF Status, Version
    <3>4. version' \in Version \cup {"undetected"}
      BY <2>2
    <3> QED
      BY <3>2, <3>3, <3>4 DEF TypeStatus
  <2>4. TypeLoop'
    <3>1. ctxDone' \in BOOLEAN
      BY <2>2
    <3>2. /\ pc' = "idle" /\ lives' = lives + 1 /\ UNCHANGED <<sshRows, changes, faults>>
      BY <2>2
    <3> QED
      BY <1>0, <2>1, <3>1, <3>2 DEF TypeInv, TypeLoop
  <2>5. TypeLatest'
    BY <2>2 DEF TypeLatest, NoData, Parts, HandleTunnel, HandleSecurity
  <2>6. SignalInBudget'
    BY <2>2 DEF SignalInBudget
  <2>7. CachedStays
    BY <1>0, <2>2 DEF CachedStays, TypeInv, TypeLoop
  <2> QED
    BY <2>3, <2>4, <2>5, <2>6, <2>7 DEF TypeInv
<1>8. CASE Signal
  <2>1. /\ lives < MaxLives /\ ctxDone' = TRUE
        /\ UNCHANGED <<tunnelVars, pc, sshRows, latest, budgets>>
    BY <1>8 DEF Signal
  <2> QED
    BY <2>1 DEF TypeInv, TypeStatus, TypeLoop, TypeLatest, SignalInBudget, CachedStays,
                tunnelVars, budgets, HandleTunnel, HandleSecurity
<1>9. CASE Return \/ Time \/ UNCHANGED vars
  <2>1. /\ UNCHANGED <<version, status, ctxDone, sshRows, latest, changes, faults, lives>>
        /\ pc' \in {pc, "returned"}
    BY <1>9 DEF Return, Time, loop, tunnelVars, budgets, vars
  <2> QED
    BY <2>1 DEF TypeInv, TypeStatus, TypeLoop, TypeLatest, SignalInBudget, CachedStays,
                HandleTunnel, HandleSecurity
<1> QED
  BY <1>1, <1>2, <1>3, <1>4, <1>5, <1>6, <1>7, <1>8, <1>9 DEF Next

CollectorInv == IOInv /\ TunnelInv /\ TypeInv

LEMMA CollectorInvStarts == Init => CollectorInv
BY IOInvStarts, TunnelInvStarts, TypeInvStarts DEF Init, CollectorInv

LEMMA StepKeepsCollectorInv ==
  ASSUME CollectorInv, [Next]_vars
  PROVE  CollectorInv' /\ CachedStays /\ (pc = "idle" /\ pc' = "system" => EachByteOnce)
BY StepKeepsIOInv, StepKeepsTunnelInv, StepKeepsTypeInv DEF CollectorInv, IOInv

-----------------------------------------------------------------------------
(* The theorems. *)

(* Counters, events, cache and loop keep their types, at any width of the    *)
(* counters: a rate fits the counter it comes from, and a status carries no  *)
(* more events than the limit of RecentTunnelEvents.                         *)
THEOREM TypeCorrect == Spec => []TypeOK
<1>1. Init => CollectorInv
  BY CollectorInvStarts
<1>2. CollectorInv /\ [Next]_vars => CollectorInv'
  BY StepKeepsCollectorInv
<1>3. CollectorInv => TypeOK
  BY DEF CollectorInv, IOInv, TunnelInv, TunnelTyped, TypeInv, TypeStatus, TypeLoop, TypeLatest,
         TypeOK, TypeTunnel
<1> QED
  BY <1>1, <1>2, <1>3, PTL DEF Spec

(* The rates of a snapshot are made of exactly the bytes each device has     *)
(* moved since its counter was last read, across the wrap of the counter and *)
(* with reads that fail, over the time since the previous snapshot           *)
(* (system.go:133-183).  Devices that started again at 0 since are excepted. *)
THEOREM BytesCountedOnceHolds == Spec => BytesCountedOnce
<1>1. Init => CollectorInv
  BY CollectorInvStarts
<1>2. CollectorInv /\ [Next]_vars => CollectorInv'
  BY StepKeepsCollectorInv
<1>3. CollectorInv /\ [Next]_vars => [pc = "idle" /\ pc' = "system" => EachByteOnce]_vars
  BY StepKeepsCollectorInv
<1> QED
  BY <1>1, <1>2, <1>3, PTL DEF Spec, BytesCountedOnce

(* What the cache has served once it serves until the restart, whichever     *)
(* tick comes next and whatever fails in it (handlers.go:43-65).             *)
THEOREM CacheKeepsHolds == Spec => CacheKeeps
<1>1. Init => CollectorInv
  BY CollectorInvStarts
<1>2. CollectorInv /\ [Next]_vars => CollectorInv'
  BY StepKeepsCollectorInv
<1>3. CollectorInv /\ [Next]_vars => [CachedStays]_vars
  BY StepKeepsCollectorInv
<1> QED
  BY <1>1, <1>2, <1>3, PTL DEF Spec, CacheKeeps, CachedStays

(* The newest tunnel event says what the detector last saw, across restarts, *)
(* failed listings and the purge (tunnel.go:80-99).                          *)
THEOREM EventsTellStateHolds == Spec => []EventsTellState
<1>1. Init => TunnelInv
  BY TunnelInvStarts
<1>2. TunnelInv /\ [Next]_vars => TunnelInv'
  BY StepKeepsTunnelInv
<1>3. TunnelInv => EventsTellState
  BY DEF TunnelInv
<1> QED
  BY <1>1, <1>2, <1>3, PTL DEF Spec
=============================================================================
