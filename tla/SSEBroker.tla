----------------------------- MODULE SSEBroker ------------------------------
(***************************************************************************)
(* The SSE broker (internal/sse) with the handlers of GET /events, the     *)
(* publishers (runCollector, relayURLResults) and the part of main that    *)
(* shuts them down.                                                        *)
(*                                                                         *)
(* The broker's goroutine, Run, picks at random among the ready cases of   *)
(* its select; register, unregister and broadcast are buffered channels.   *)
(* Events are numbered in the order Broadcast is called, the heartbeats    *)
(* that Run itself broadcasts included; their payload is left out.         *)
(***************************************************************************)
EXTENDS Naturals, Sequences

CONSTANTS
  Clients,         \* connections; each is made at most once
  Stalled,         \* the clients that may stop reading without closing (WriteTimeout is 0)
  RegisterCap,     \* capacity of register and of unregister (16)
  BroadcastCap,    \* capacity of broadcast (256)
  SendCap,         \* capacity of client.send (64)
  MaxEvents        \* bound: events published

ASSUME BrokerAssumption ==
  /\ Stalled \subseteq Clients
  /\ RegisterCap \in Nat \ {0} /\ BroadcastCap \in Nat \ {0} /\ SendCap \in Nat \ {0}
  /\ MaxEvents \in Nat

VARIABLES
  register, unregister,   \* channels of clients
  broadcast,              \* channel of events
  clients,                \* Broker.clients
  send,                   \* per client: its channel of events
  closed,                 \* the clients whose channel is closed
  handler,                \* per client: where its ServeHTTP is
  gone,                   \* the clients whose request context is done
  run,                    \* is Broker.Run still running?
  done,                   \* is the done channel closed (SIGINT or SIGTERM)?
  published,              \* how many events were handed to Broadcast
  last, written           \* history, per client: the last event written to it, how many

channels == <<register, unregister, broadcast>>
history == <<last, written>>
vars == <<register, unregister, broadcast, clients, send, closed, handler, gone, run, done,
          published, last, written>>

Stage == {"new", "register", "stream", "unregister", "returned"}

Init ==
  /\ register = <<>> /\ unregister = <<>> /\ broadcast = <<>>
  /\ clients = {} /\ closed = {} /\ gone = {}
  /\ send = [c \in Clients |-> <<>>]
  /\ handler = [c \in Clients |-> "new"]
  /\ run = TRUE /\ done = FALSE
  /\ published = 0 /\ last = [c \in Clients |-> 0] /\ written = [c \in Clients |-> 0]

-----------------------------------------------------------------------------
(* Publishing: never blocks; an event that finds the channel full is lost. *)

Broadcast ==
  /\ published < MaxEvents
  /\ published' = published + 1
  /\ broadcast' = IF Len(broadcast) < BroadcastCap
                  THEN Append(broadcast, published + 1) ELSE broadcast

Publish ==
  /\ Broadcast
  /\ UNCHANGED <<register, unregister, clients, send, closed, handler, gone, run, done, history>>

-----------------------------------------------------------------------------
(* Broker.Run: one action per case of its select. *)

(* Mutant: a client that unregisters while its registration is pending has *)
(* its channel closed all the same.                                        *)
RunUnregisterCloses ==
  /\ run /\ unregister # <<>>
  /\ clients' = clients \ {Head(unregister)}
  /\ closed' = closed \cup {Head(unregister)}
  /\ unregister' = Tail(unregister)
  /\ UNCHANGED <<register, broadcast, send, handler, gone, run, done, published, history>>

(* Mutant: the send to a client ignores the capacity of its channel. *)
RunBroadcastUnbounded ==
  /\ run /\ broadcast # <<>>
  /\ send' = [c \in Clients |->
                IF c \in clients THEN Append(send[c], Head(broadcast)) ELSE send[c]]
  /\ broadcast' = Tail(broadcast)
  /\ UNCHANGED <<register, unregister, clients, closed, handler, gone, run, done, published,
                 history>>

(* Mutant: the event stays at the head of the channel. *)
RunBroadcastTwice ==
  /\ run /\ broadcast # <<>>
  /\ send' = [c \in Clients |->
                IF c \in clients /\ Len(send[c]) < SendCap
                THEN Append(send[c], Head(broadcast)) ELSE send[c]]
  /\ UNCHANGED <<channels, clients, closed, handler, gone, run, done, published, history>>

RunRegister ==
  /\ run /\ register # <<>>
  /\ clients' = clients \cup {Head(register)}
  /\ register' = Tail(register)
  /\ UNCHANGED <<unregister, broadcast, send, closed, handler, gone, run, done, published, history>>

RunUnregister ==
  /\ run /\ unregister # <<>>
  /\ LET c == Head(unregister)
     IN /\ clients' = clients \ {c}
        /\ closed' = IF c \in clients THEN closed \cup {c} ELSE closed
  /\ unregister' = Tail(unregister)
  /\ UNCHANGED <<register, broadcast, send, handler, gone, run, done, published, history>>

(* Each registered client is sent the event if its channel has room. *)
RunBroadcast ==
  /\ run /\ broadcast # <<>>
  /\ send' = [c \in Clients |->
                IF c \in clients /\ Len(send[c]) < SendCap
                THEN Append(send[c], Head(broadcast)) ELSE send[c]]
  /\ broadcast' = Tail(broadcast)
  /\ UNCHANGED <<register, unregister, clients, closed, handler, gone, run, done, published,
                 history>>

(* The heartbeat goes through the channel Run itself drains; were the send *)
(* blocking, a full channel would stop Run for good.                       *)
RunHeartbeat ==
  /\ run
  /\ Broadcast
  /\ UNCHANGED <<register, unregister, clients, send, closed, handler, gone, run, done, history>>

RunDone ==
  /\ run /\ done
  /\ run' = FALSE
  /\ UNCHANGED <<channels, clients, send, closed, handler, gone, done, published, history>>

-----------------------------------------------------------------------------
(* ServeHTTP, one goroutine per connection. *)

Connect(c) ==
  /\ handler[c] = "new"
  /\ handler' = [handler EXCEPT ![c] = "register"]
  /\ UNCHANGED <<channels, clients, send, closed, gone, run, done, published, history>>

(* Blocks while the channel is full. *)
SendRegister(c) ==
  /\ handler[c] = "register"
  /\ Len(register) < RegisterCap
  /\ register' = Append(register, c)
  /\ handler' = [handler EXCEPT ![c] = "stream"]
  /\ UNCHANGED <<unregister, broadcast, clients, send, closed, gone, run, done, published, history>>

(* Mutant: nothing is written before two events are there. *)
StreamEventBatched(c) ==
  /\ handler[c] = "stream"
  /\ Len(send[c]) >= 2
  /\ last' = [last EXCEPT ![c] = Head(send[c])]
  /\ written' = [written EXCEPT ![c] = written[c] + 1]
  /\ send' = [send EXCEPT ![c] = Tail(send[c])]
  /\ UNCHANGED <<channels, clients, closed, handler, gone, run, done, published>>

(* An event is written to the connection and flushed. *)
StreamEvent(c) ==
  /\ handler[c] = "stream"
  /\ send[c] # <<>>
  /\ last' = [last EXCEPT ![c] = Head(send[c])]
  /\ written' = [written EXCEPT ![c] = written[c] + 1]
  /\ send' = [send EXCEPT ![c] = Tail(send[c])]
  /\ UNCHANGED <<channels, clients, closed, handler, gone, run, done, published>>

(* Mutant: the loop does not watch the context. *)
StreamEndsOnClose(c) ==
  /\ handler[c] = "stream"
  /\ c \in closed /\ send[c] = <<>>
  /\ handler' = [handler EXCEPT ![c] = "unregister"]
  /\ UNCHANGED <<channels, clients, send, closed, gone, run, done, published, history>>

(* The loop ends when the context is done or the channel is closed and empty. *)
StreamEnds(c) ==
  /\ handler[c] = "stream"
  /\ c \in gone \/ (c \in closed /\ send[c] = <<>>)
  /\ handler' = [handler EXCEPT ![c] = "unregister"]
  /\ UNCHANGED <<channels, clients, send, closed, gone, run, done, published, history>>

(* The deferred send; blocks while the channel is full. *)
SendUnregister(c) ==
  /\ handler[c] = "unregister"
  /\ Len(unregister) < RegisterCap
  /\ unregister' = Append(unregister, c)
  /\ handler' = [handler EXCEPT ![c] = "returned"]
  /\ UNCHANGED <<register, broadcast, clients, send, closed, gone, run, done, published, history>>

-----------------------------------------------------------------------------
(* The environment: a client closes its connection; a signal arrives and *)
(* main closes done.  Server.Shutdown cancels no request context.        *)

ClientGone(c) ==
  /\ handler[c] \in {"register", "stream"} /\ c \notin gone
  /\ gone' = gone \cup {c}
  /\ UNCHANGED <<channels, clients, send, closed, handler, run, done, published, history>>

Shutdown ==
  /\ ~done
  /\ done' = TRUE
  /\ UNCHANGED <<channels, clients, send, closed, handler, gone, run, published, history>>

Run == RunRegister \/ RunUnregister \/ RunBroadcast \/ RunHeartbeat \/ RunDone

ServeHTTP(c) == SendRegister(c) \/ StreamEvent(c) \/ StreamEnds(c) \/ SendUnregister(c)

Next ==
  \/ Publish
  \/ Run
  \/ \E c \in Clients : Connect(c) \/ ServeHTTP(c) \/ ClientGone(c)
  \/ Shutdown

Spec == Init /\ [][Next]_vars

(* Run goes on and, its select being random, takes each case that stays      *)
(* ready; so does a handler, except that writing to a stalled client may     *)
(* take for ever.  Senders blocked on a channel queue up in order, so one    *)
(* that finds room again and again gets it.  Publishers, clients and signals *)
(* owe nothing.                                                              *)
Fairness ==
  /\ WF_vars(RunRegister) /\ WF_vars(RunUnregister) /\ WF_vars(RunBroadcast) /\ WF_vars(RunDone)
  /\ \A c \in Clients :
       SF_vars(SendRegister(c)) /\ SF_vars(SendUnregister(c)) /\ WF_vars(StreamEnds(c))
  /\ \A c \in Clients \ Stalled : WF_vars(StreamEvent(c))

FairSpec == Spec /\ Fairness

-----------------------------------------------------------------------------
TypeOK ==
  /\ register \in Seq(Clients) /\ Len(register) <= RegisterCap
  /\ unregister \in Seq(Clients) /\ Len(unregister) <= RegisterCap
  /\ broadcast \in Seq(Nat) /\ Len(broadcast) <= BroadcastCap
  /\ clients \subseteq Clients /\ closed \subseteq Clients /\ gone \subseteq Clients
  /\ send \in [Clients -> Seq(Nat)] /\ \A c \in Clients : Len(send[c]) <= SendCap
  /\ handler \in [Clients -> Stage]
  /\ run \in BOOLEAN /\ done \in BOOLEAN
  /\ published \in 0..MaxEvents
  /\ last \in [Clients -> Nat] /\ written \in [Clients -> Nat]

(* Run never sends on a closed channel, which would panic and take the       *)
(* process down, in whatever order it takes registrations, unregistrations   *)
(* and events.                                                               *)
NoSendOnClosed == clients \cap closed = {}

(* A connection that stays is registered, and one that leaves has its        *)
(* handler return, as long as the broker runs: neither the bounded channels, *)
(* nor a flood of events, nor a stalled client keeps a handler waiting for   *)
(* good.                                                                     *)
HandlersProgress ==
  \A c \in Clients :
    /\ (handler[c] = "register") ~> (c \in clients \/ c \in gone \/ done)
    /\ (c \in gone) ~> (handler[c] = "returned" \/ done)

(* An event that was put in the channel of a client that reads reaches it    *)
(* unless the client leaves, whatever the stalled clients do.                *)
SentIsDelivered ==
  \A c \in Clients \ Stalled :
    (send[c] # <<>> /\ c \notin gone) ~> (send[c] = <<>> \/ c \in gone)

-----------------------------------------------------------------------------
Stream == INSTANCE EventStream

(* The broker implements EventStream: events reach every client in the       *)
(* order of publication, none twice, whatever is dropped on the way.         *)
Refines == Stream!Spec
=============================================================================
