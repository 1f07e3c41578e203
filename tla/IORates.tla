------------------------------ MODULE IORates -------------------------------
(***************************************************************************)
(* metrics.Collector: the I/O rates of a system snapshot, computed from    *)
(* the counters kept since the previous one.  The kernel's counters are    *)
(* unsigned and wrap modulo W; a device that is plugged in again, or an    *)
(* interface that is created again, starts at 0.                           *)
(*                                                                         *)
(* Each device has one counter (the code keeps two, which never meet).     *)
(* The loopback interface is read but never reported, and is left out; so  *)
(* are the parts of the snapshot that keep no state: CPU, memory and disk  *)
(* usage, which AlertEngine sees as levels.                                *)
(***************************************************************************)
EXTENDS Integers

CONSTANTS
  Disks, Ifaces,
  W,               \* the counters' modulus, 2^64 in the code
  InitCounts,      \* what the counters may be when this history begins
  MaxSeconds       \* bound: seconds between two calls of Collect

Devs == Disks \cup Ifaces
Count == 0..(W - 1)

ASSUME IOAssumption ==
  /\ Disks \cap Ifaces = {} /\ W \in Nat \ {0} /\ InitCounts \subseteq Count
  /\ MaxSeconds \in Nat \ {0}

VARIABLES
  ctr,             \* environment: the counter of each device there is
  prevIO,          \* prevDiskIO and prevNetIO: the counters as last read
  since,           \* seconds from prevTime to now
  rates,           \* DiskIO and NetworkIO of the snapshot being made
  moved,           \* history: bytes each device has moved since its counter was last read
  restarted        \* history: devices that started again at 0 since their entry was read

ioVars == <<ctr, prevIO, since, rates, moved, restarted>>

IOInit ==
  /\ ctr \in [Devs -> InitCounts]
  /\ prevIO = [d \in {} |-> 0] /\ rates = [d \in {} |-> 0] /\ since = 1
  /\ moved = [d \in Devs |-> 0] /\ restarted = {}

(* NewCollector: a zero Collector.  prevTime is zero as well, and the maps *)
(* are empty until it is set, so the code's test for that never decides.   *)
NewCollector ==
  /\ prevIO' = [d \in {} |-> 0] /\ rates' = [d \in {} |-> 0] /\ since' = 1
  /\ moved' = [d \in Devs |-> 0] /\ restarted' = {}
  /\ UNCHANGED ctr

(* Mutant: a counter below its previous value counts as no traffic. *)
RateClamped(d) == (IF ctr[d] < prevIO[d] THEN 0 ELSE ctr[d] - prevIO[d]) \div since

(* The difference is one of uint64; the conversion from float truncates.  A *)
(* float64 has 53 bits: what it rounds off a longer difference is left out. *)
Rate(d) == ((ctr[d] - prevIO[d]) % W) \div since

(* Collector.Collect; unread are the devices of the reads that fail.  Those *)
(* keep their old counters, but prevTime moves on for all.  The CPU sample  *)
(* inside Collect keeps two calls a second apart; it lies between the time  *)
(* that is taken and the counters that are read, each time for one second,  *)
(* so that since is also the time between two reads.                        *)
CollectIO(unread) ==
  LET read == DOMAIN ctr \ unread
      kept == DOMAIN prevIO \cap unread
  IN
  /\ since >= 1
  /\ rates' = [d \in read \cap DOMAIN prevIO |-> Rate(d)]
  /\ prevIO' = [d \in read \cup kept |-> IF d \in read THEN ctr[d] ELSE prevIO[d]]
  /\ since' = 0
  /\ moved' = [d \in Devs |-> IF d \in kept THEN moved[d] ELSE 0]
  /\ restarted' = restarted \cap kept
  /\ UNCHANGED ctr

-----------------------------------------------------------------------------
(* The machine.  No device moves W bytes between two reads: at 2^64 that *)
(* would take years.                                                      *)

Second ==
  /\ since < MaxSeconds
  /\ since' = since + 1
  /\ UNCHANGED <<ctr, prevIO, rates, moved, restarted>>

Traffic(d, bytes) ==
  /\ d \in DOMAIN ctr
  /\ moved[d] + bytes \in Count
  /\ ctr' = [ctr EXCEPT ![d] = (ctr[d] + bytes) % W]
  /\ moved' = [moved EXCEPT ![d] = moved[d] + bytes]
  /\ UNCHANGED <<prevIO, since, rates, restarted>>

Unplug(d) ==
  /\ d \in DOMAIN ctr
  /\ ctr' = [e \in DOMAIN ctr \ {d} |-> ctr[e]]
  /\ UNCHANGED <<prevIO, since, rates, moved, restarted>>

Plug(d) ==
  /\ d \in Devs \ DOMAIN ctr
  /\ ctr' = [e \in DOMAIN ctr \cup {d} |-> IF e = d THEN 0 ELSE ctr[e]]
  /\ restarted' = restarted \cup ({d} \cap DOMAIN prevIO)
  /\ UNCHANGED <<prevIO, since, rates, moved>>

-----------------------------------------------------------------------------
TypeIO ==
  /\ ctr \in [DOMAIN ctr -> Count] /\ DOMAIN ctr \subseteq Devs
  /\ prevIO \in [DOMAIN prevIO -> Count] /\ DOMAIN prevIO \subseteq Devs
  /\ rates \in [DOMAIN rates -> Count] /\ DOMAIN rates \subseteq Devs
  /\ since \in 0..MaxSeconds
  /\ moved \in [Devs -> Count]
  /\ restarted \subseteq Devs

(* What a Collect reports of the devices that did not start again: the bytes *)
(* they have moved since their counter was last read, every one and none     *)
(* twice, over the time since the previous snapshot.  The two are the same   *)
(* stretch of time unless the previous read failed.                          *)
EachByteOnce == \A d \in DOMAIN rates' \ restarted : rates'[d] = moved[d] \div since
=============================================================================
