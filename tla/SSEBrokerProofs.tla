-------------------------- MODULE SSEBrokerProofs ---------------------------
(* Proofs about SSEBroker, for every value of its constants. *)
EXTENDS SSEBroker, TLAPS

LEMMA InitTypeOK == Init => TypeOK
<1> SUFFICES ASSUME Init PROVE TypeOK
  OBVIOUS
<1>1. run \in BOOLEAN /\ done \in BOOLEAN
  BY DEF Init
<1>2. /\ register \in Seq(Clients) /\ Len(register) <= RegisterCap
      /\ unregister \in Seq(Clients) /\ Len(unregister) <= RegisterCap
      /\ broadcast \in Seq(Nat) /\ Len(broadcast) <= BroadcastCap
  BY BrokerAssumption DEF Init
<1>3. send \in [Clients -> Seq(Nat)] /\ \A c \in Clients : Len(send[c]) <= SendCap
  BY BrokerAssumption DEF Init
<1>4. /\ clients \subseteq Clients /\ closed \subseteq Clients /\ gone \subseteq Clients
      /\ handler \in [Clients -> Stage] /\ published \in 0..MaxEvents
      /\ last \in [Clients -> Nat] /\ written \in [Clients -> Nat]
  BY BrokerAssumption DEF Init, Stage
<1> QED BY <1>1, <1>2, <1>3, <1>4 DEF TypeOK

LEMMA NextTypeOK == TypeOK /\ [Next]_vars => TypeOK'
<1> SUFFICES ASSUME TypeOK, [Next]_vars
             PROVE  TypeOK'
  OBVIOUS
<1> USE BrokerAssumption DEF TypeOK, channels, history
<1>1. ASSUME Broadcast
      PROVE  /\ published' \in 0..MaxEvents
             /\ broadcast' \in Seq(Nat) /\ Len(broadcast') <= BroadcastCap
  BY <1>1 DEF Broadcast
<1>2. CASE Publish \/ RunHeartbeat
  BY <1>1, <1>2 DEF Publish, RunHeartbeat
<1>3. CASE RunRegister
  BY <1>3, SMTT(30) DEF RunRegister
<1>4. CASE RunUnregister
  <2>1. unregister' \in Seq(Clients) /\ Len(unregister') <= RegisterCap
    BY <1>4 DEF RunUnregister
  <2>2. Head(unregister) \in Clients
    BY <1>4 DEF RunUnregister
  <2>3. clients' \subseteq Clients /\ closed' \subseteq Clients
    BY <1>4, <2>2 DEF RunUnregister
  <2> QED BY <1>4, <2>1, <2>3 DEF RunUnregister
<1>5. CASE RunBroadcast
  <2>1. broadcast' \in Seq(Nat) /\ Len(broadcast') <= BroadcastCap /\ Head(broadcast) \in Nat
    BY <1>5 DEF RunBroadcast
  <2>2. send' \in [Clients -> Seq(Nat)] /\ \A c \in Clients : Len(send'[c]) <= SendCap
    BY <1>5, <2>1 DEF RunBroadcast
  <2> QED BY <1>5, <2>1, <2>2 DEF RunBroadcast
<1>6. CASE RunDone \/ Shutdown
  BY <1>6 DEF RunDone, Shutdown
<1>7. CASE \E c \in Clients : Connect(c) \/ StreamEnds(c) \/ ClientGone(c)
  BY <1>7 DEF Connect, StreamEnds, ClientGone, Stage
<1>8. CASE \E c \in Clients : SendRegister(c) \/ SendUnregister(c)
  <2> PICK c \in Clients : SendRegister(c) \/ SendUnregister(c)
    BY <1>8
  <2>1. handler' \in [Clients -> Stage]
    BY DEF SendRegister, SendUnregister, Stage
  <2>2. CASE SendRegister(c)
    <3>1. register' \in Seq(Clients) /\ Len(register') <= RegisterCap
      BY <2>2 DEF SendRegister
    <3> QED BY <2>1, <2>2, <3>1 DEF SendRegister
  <2>3. CASE SendUnregister(c)
    <3>1. unregister' \in Seq(Clients) /\ Len(unregister') <= RegisterCap
      BY <2>3 DEF SendUnregister
    <3> QED BY <2>1, <2>3, <3>1 DEF SendUnregister
  <2> QED BY <2>2, <2>3
<1>9. CASE \E c \in Clients : StreamEvent(c)
  <2> PICK c \in Clients : StreamEvent(c)
    BY <1>9
  <2>1. /\ Head(send[c]) \in Nat
        /\ Tail(send[c]) \in Seq(Nat) /\ Len(Tail(send[c])) <= SendCap
    BY SMTT(30) DEF StreamEvent
  <2>2. send' \in [Clients -> Seq(Nat)] /\ \A d \in Clients : Len(send'[d]) <= SendCap
    BY <2>1 DEF StreamEvent
  <2>3. last' \in [Clients -> Nat]
    BY <2>1 DEF StreamEvent
  <2>4. written' \in [Clients -> Nat]
    BY SMTT(30) DEF StreamEvent
  <2> QED BY <2>2, <2>3, <2>4 DEF StreamEvent
<1>10. CASE UNCHANGED vars
  BY <1>10 DEF vars
<1> QED
  BY <1>2, <1>3, <1>4, <1>5, <1>6, <1>7, <1>8, <1>9, <1>10 DEF Next, Run, ServeHTTP

(* No channel of the broker holds more than its capacity and every variable  *)
(* keeps its type, for any number of connections and any capacities.         *)
THEOREM TypeCorrect == Spec => []TypeOK
  BY InitTypeOK, NextTypeOK, PTL DEF Spec

-----------------------------------------------------------------------------
(* No send on a closed channel.  A registration that is still in the channel *)
(* when its client is unregistered must not find the channel closed: a       *)
(* client is in at most one of register, clients and closed, and once.       *)

RegisteredOnce ==
  /\ \A i, j \in 1..Len(register) : i # j => register[i] # register[j]
  /\ \A i \in 1..Len(register) : register[i] \notin clients \cup closed
  /\ \A c \in Clients : handler[c] \in {"new", "register"} =>
       c \notin clients \cup closed /\ \A i \in 1..Len(register) : register[i] # c

SafeInv == TypeOK /\ RegisteredOnce /\ NoSendOnClosed

LEMMA NextSafeInv == SafeInv /\ [Next]_vars => SafeInv'
<1> SUFFICES ASSUME SafeInv, [Next]_vars
             PROVE  RegisteredOnce' /\ NoSendOnClosed'
  BY NextTypeOK DEF SafeInv
<1> USE DEF SafeInv, RegisteredOnce, NoSendOnClosed
<1>0. register \in Seq(Clients) /\ unregister \in Seq(Clients) /\ handler \in [Clients -> Stage]
  BY DEF TypeOK
<1>1. ASSUME UNCHANGED <<register, clients, closed, handler>>
      PROVE  RegisteredOnce' /\ NoSendOnClosed'
  BY <1>1
<1>2. CASE RunRegister
  <2>1. /\ register' = Tail(register) /\ clients' = clients \cup {Head(register)}
        /\ closed' = closed /\ handler' = handler /\ register # <<>>
    BY <1>2 DEF RunRegister
  <2>2. Len(register) \in Nat \ {0} /\ Len(register') = Len(register) - 1
    BY <1>0, <2>1
  <2>3. \A i \in 1..Len(register') : register'[i] = register[i + 1] /\ i + 1 \in 1..Len(register)
    BY <1>0, <2>1, <2>2
  <2>4. Head(register) = register[1] /\ 1 \in 1..Len(register)
    BY <1>0, <2>1, <2>2
  <2> QED BY <2>1, <2>2, <2>3, <2>4
<1>3. CASE RunUnregister
  <2>1. /\ register' = register /\ handler' = handler
        /\ clients' = clients \ {Head(unregister)}
        /\ closed' = IF Head(unregister) \in clients THEN closed \cup {Head(unregister)} ELSE closed
    BY <1>3 DEF RunUnregister
  <2> QED BY <2>1
<1>4. CASE \E c \in Clients : SendRegister(c)
  <2> PICK c \in Clients : SendRegister(c)
    BY <1>4
  <2>1. /\ register' = Append(register, c) /\ handler[c] = "register"
        /\ handler' = [handler EXCEPT ![c] = "stream"]
        /\ clients' = clients /\ closed' = closed
    BY DEF SendRegister
  <2>2. Len(register) \in Nat /\ Len(register') = Len(register) + 1
    BY <1>0, <2>1
  <2>3. \A i \in 1..Len(register') :
          register'[i] = IF i \in 1..Len(register) THEN register[i] ELSE c
    BY <1>0, <2>1, <2>2
  <2>4. \A i \in 1..Len(register') : i \notin 1..Len(register) => i = Len(register) + 1
    BY <2>2
  <2> QED BY <1>0, <2>1, <2>2, <2>3, <2>4
<1>5. CASE \E c \in Clients : Connect(c) \/ StreamEnds(c) \/ SendUnregister(c)
  BY <1>0, <1>5 DEF Connect, StreamEnds, SendUnregister, channels
<1> QED
  BY <1>1, <1>2, <1>3, <1>4, <1>5
     DEF Next, Run, ServeHTTP, vars, channels, Publish, RunHeartbeat, RunBroadcast, RunDone,
         Shutdown, StreamEvent, ClientGone

(* In whatever order Run takes registrations, unregistrations and events, it *)
(* never holds a client whose channel it has closed, so the send of          *)
(* broker.go:67 cannot panic.                                                *)
THEOREM NoSendOnClosedHolds == Spec => []NoSendOnClosed
<1>1. Init => SafeInv
  BY InitTypeOK DEF Init, SafeInv, RegisteredOnce, NoSendOnClosed
<1>2. SafeInv => NoSendOnClosed
  BY DEF SafeInv
<1> QED
  BY <1>1, <1>2, NextSafeInv, PTL DEF Spec

-----------------------------------------------------------------------------
(* Delivery in order.  Between Broadcast and the connection an event passes  *)
(* two queues, so the order is kept only because every event still in        *)
(* broadcast is newer than every event already in a client's channel, and    *)
(* those are newer than what the client has been given.                      *)

BroadcastInOrder ==
  /\ \A i \in 1..Len(broadcast) : broadcast[i] \in 1..published
  /\ \A i, j \in 1..Len(broadcast) : i < j => broadcast[i] < broadcast[j]

SendInOrder ==
  \A c \in Clients :
    /\ \A i \in 1..Len(send[c]) : send[c][i] \in (last[c] + 1)..published
    /\ \A i, j \in 1..Len(send[c]) : i < j => send[c][i] < send[c][j]

QueuedIsNewer ==
  \A c \in Clients : \A j \in 1..Len(broadcast) :
    /\ last[c] < broadcast[j]
    /\ \A i \in 1..Len(send[c]) : send[c][i] < broadcast[j]

LastWasPublished == \A c \in Clients : last[c] <= published

OrderInv == TypeOK /\ BroadcastInOrder /\ SendInOrder /\ QueuedIsNewer /\ LastWasPublished

LEMMA NextOrderInv == OrderInv /\ [Next]_vars => OrderInv'
<1> SUFFICES ASSUME OrderInv, [Next]_vars
             PROVE  BroadcastInOrder' /\ SendInOrder' /\ QueuedIsNewer' /\ LastWasPublished'
  BY NextTypeOK DEF OrderInv
<1> USE DEF OrderInv
<1>0. /\ broadcast \in Seq(Nat) /\ send \in [Clients -> Seq(Nat)]
      /\ last \in [Clients -> Nat] /\ published \in Nat
  BY BrokerAssumption DEF TypeOK
<1>1. ASSUME UNCHANGED <<broadcast, send, published, last>>
      PROVE  BroadcastInOrder' /\ SendInOrder' /\ QueuedIsNewer' /\ LastWasPublished'
  BY <1>1 DEF BroadcastInOrder, SendInOrder, QueuedIsNewer, LastWasPublished
<1>2. CASE Publish \/ RunHeartbeat
  <2>1. Broadcast /\ send' = send /\ last' = last /\ published' = published + 1
    BY <1>2 DEF Publish, RunHeartbeat, Broadcast, history
  <2>2. SendInOrder' /\ LastWasPublished'
    BY <1>0, <2>1 DEF SendInOrder, LastWasPublished
  <2>3. CASE broadcast' = broadcast
    BY <1>0, <2>1, <2>2, <2>3 DEF BroadcastInOrder, QueuedIsNewer
  <2>4. CASE broadcast' = Append(broadcast, published + 1)
    <3>1. Len(broadcast) \in Nat /\ Len(broadcast') = Len(broadcast) + 1
      BY <1>0, <2>4
    <3>2. \A i \in 1..Len(broadcast') :
            \/ i \in 1..Len(broadcast) /\ broadcast'[i] = broadcast[i]
            \/ i = Len(broadcast) + 1 /\ broadcast'[i] = published + 1
      BY <1>0, <2>4, <3>1
    <3>3. BroadcastInOrder'
      <4>1. \A i \in 1..Len(broadcast') : broadcast'[i] \in 1..published'
        BY <1>0, <2>1, <3>2 DEF BroadcastInOrder
      <4>2. ASSUME NEW i \in 1..Len(broadcast'), NEW j \in 1..Len(broadcast'), i < j
            PROVE  broadcast'[i] < broadcast'[j]
        <5>1. i \in 1..Len(broadcast) /\ broadcast'[i] = broadcast[i]
          BY <3>1, <3>2, <4>2
        <5>2. CASE j \in 1..Len(broadcast) /\ broadcast'[j] = broadcast[j]
          BY <4>2, <5>1, <5>2 DEF BroadcastInOrder
        <5>3. CASE broadcast'[j] = published + 1
          BY <1>0, <5>1, <5>3 DEF BroadcastInOrder
        <5> QED BY <3>2, <5>2, <5>3
      <4> QED BY <4>1, <4>2 DEF BroadcastInOrder
    <3>4. QueuedIsNewer'
      <4> SUFFICES ASSUME NEW c \in Clients, NEW j \in 1..Len(broadcast')
                   PROVE  /\ last[c] < broadcast'[j]
                          /\ \A i \in 1..Len(send[c]) : send[c][i] < broadcast'[j]
        BY <2>1 DEF QueuedIsNewer
      <4>1. CASE j \in 1..Len(broadcast) /\ broadcast'[j] = broadcast[j]
        BY <4>1 DEF QueuedIsNewer
      <4>2. CASE broadcast'[j] = published + 1
        BY <1>0, <4>2 DEF LastWasPublished, SendInOrder
      <4> QED BY <3>2, <4>1, <4>2
    <3> QED BY <2>2, <3>3, <3>4
  <2> QED BY <2>1, <2>3, <2>4 DEF Broadcast
<1>3. CASE RunBroadcast
  <2>1. /\ broadcast # <<>> /\ broadcast' = Tail(broadcast)
        /\ published' = published /\ last' = last
    BY <1>3 DEF RunBroadcast, history
  <2>2. Len(broadcast) \in Nat \ {0} /\ Len(broadcast') = Len(broadcast) - 1
    BY <1>0, <2>1
  <2>3. \A i \in 1..Len(broadcast') :
          i + 1 \in 1..Len(broadcast) /\ broadcast'[i] = broadcast[i + 1]
    BY <1>0, <2>1, <2>2
  <2>4. Head(broadcast) = broadcast[1] /\ 1 \in 1..Len(broadcast)
    BY <1>0, <2>1, <2>2
  <2>5. BroadcastInOrder'
    BY <2>1, <2>2, <2>3 DEF BroadcastInOrder
  <2>6. \A j \in 1..Len(broadcast') : broadcast[1] < broadcast'[j]
    BY <2>2, <2>3, <2>4 DEF BroadcastInOrder
  <2>7. ASSUME NEW c \in Clients
        PROVE  \A i \in 1..Len(send'[c]) :
                 \/ i \in 1..Len(send[c]) /\ send'[c][i] = send[c][i]
                 \/ i = Len(send[c]) + 1 /\ send'[c][i] = broadcast[1]
    <3>1. send'[c] = send[c] \/ send'[c] = Append(send[c], broadcast[1])
      BY <1>3, <2>4 DEF RunBroadcast
    <3>2. CASE send'[c] = send[c]
      BY <3>2
    <3>3. CASE send'[c] = Append(send[c], broadcast[1])
      BY <1>0, <2>4, <3>3
    <3> QED BY <3>1, <3>2, <3>3
  <2>8. ASSUME NEW c \in Clients
        PROVE  Len(send[c]) \in Nat
    BY <1>0
  <2>9. SendInOrder'
    <3> SUFFICES ASSUME NEW c \in Clients
                 PROVE  /\ \A i \in 1..Len(send'[c]) : send'[c][i] \in (last[c] + 1)..published
                        /\ \A i, j \in 1..Len(send'[c]) : i < j => send'[c][i] < send'[c][j]
      BY <2>1 DEF SendInOrder
    <3>1. broadcast[1] \in (last[c] + 1)..published
      BY <1>0, <2>4 DEF BroadcastInOrder, QueuedIsNewer
    <3>2. \A i \in 1..Len(send[c]) : send[c][i] < broadcast[1]
      BY <2>4 DEF QueuedIsNewer
    <3>3. /\ \A i \in 1..Len(send[c]) : send[c][i] \in (last[c] + 1)..published
          /\ \A i, j \in 1..Len(send[c]) : i < j => send[c][i] < send[c][j]
      BY DEF SendInOrder
    <3>4. \A i \in 1..Len(send'[c]) : send'[c][i] \in (last[c] + 1)..published
      BY <2>7, <3>1, <3>3
    <3>5. ASSUME NEW i \in 1..Len(send'[c]), NEW j \in 1..Len(send'[c]), i < j
          PROVE  send'[c][i] < send'[c][j]
      <4>1. i \in 1..Len(send[c]) /\ send'[c][i] = send[c][i]
        BY <2>7, <2>8, <3>5
      <4>2. CASE j \in 1..Len(send[c]) /\ send'[c][j] = send[c][j]
        BY <3>3, <3>5, <4>1, <4>2
      <4>3. CASE send'[c][j] = broadcast[1]
        BY <3>2, <4>1, <4>3
      <4> QED BY <2>7, <4>2, <4>3
    <3> QED BY <3>4, <3>5
  <2>10. QueuedIsNewer'
    <3> SUFFICES ASSUME NEW c \in Clients, NEW j \in 1..Len(broadcast')
                 PROVE  /\ last[c] < broadcast'[j]
                        /\ \A i \in 1..Len(send'[c]) : send'[c][i] < broadcast'[j]
      BY <2>1 DEF QueuedIsNewer
    <3>1. /\ last[c] < broadcast'[j]
          /\ \A i \in 1..Len(send[c]) : send[c][i] < broadcast'[j]
      BY <2>3 DEF QueuedIsNewer
    <3> QED BY <2>6, <2>7, <3>1
  <2>11. LastWasPublished'
    BY <2>1 DEF LastWasPublished
  <2> QED BY <2>5, <2>9, <2>10, <2>11
<1>4. CASE \E c \in Clients : StreamEvent(c)
  <2> PICK c \in Clients : StreamEvent(c)
    BY <1>4
  <2>1. /\ send[c] # <<>> /\ broadcast' = broadcast /\ published' = published
        /\ last' = [last EXCEPT ![c] = Head(send[c])]
        /\ send' = [send EXCEPT ![c] = Tail(send[c])]
    BY DEF StreamEvent, channels
  <2>2. Len(send[c]) \in Nat \ {0} /\ Len(send'[c]) = Len(send[c]) - 1
    BY <1>0, <2>1
  <2>3. last'[c] = send[c][1] /\ 1 \in 1..Len(send[c])
    BY <1>0, <2>1, <2>2
  <2>4. \A i \in 1..Len(send'[c]) : i + 1 \in 1..Len(send[c]) /\ send'[c][i] = send[c][i + 1]
    BY <1>0, <2>1, <2>2
  <2>5. \A d \in Clients \ {c} : send'[d] = send[d] /\ last'[d] = last[d]
    BY <1>0, <2>1
  <2>6. send[c][1] \in Nat /\ last[c] \in Nat
    BY <1>0, <2>3
  <2>7. BroadcastInOrder' /\ QueuedIsNewer'
    BY <2>1, <2>3, <2>4, <2>5 DEF BroadcastInOrder, QueuedIsNewer
  <2>8. LastWasPublished'
    BY <1>0, <2>1, <2>3, <2>5 DEF LastWasPublished, SendInOrder
  <2>9. ASSUME NEW d \in Clients
        PROVE  /\ \A i \in 1..Len(send'[d]) : send'[d][i] \in (last'[d] + 1)..published
               /\ \A i, j \in 1..Len(send'[d]) : i < j => send'[d][i] < send'[d][j]
    <3>1. CASE d # c
      BY <2>5, <3>1 DEF SendInOrder
    <3>2. CASE d = c
      <4>1. \A i \in 1..Len(send'[c]) : send[c][1] < send[c][i + 1]
        BY <2>2, <2>3, <2>4 DEF SendInOrder
      <4>2. ASSUME NEW i \in 1..Len(send'[c])
            PROVE  send[c][i + 1] \in (send[c][1] + 1)..published
        <5>1. i + 1 \in 1..Len(send[c])
          BY <2>4
        <5>2. send[c][i + 1] \in (last[c] + 1)..published
          BY <5>1 DEF SendInOrder
        <5>3. send[c][1] < send[c][i + 1]
          BY <4>1
        <5> QED BY <1>0, <2>6, <5>2, <5>3, SMTT(30)
      <4>3. \A i, j \in 1..Len(send'[c]) : i < j => send[c][i + 1] < send[c][j + 1]
        BY <2>2, <2>4 DEF SendInOrder
      <4> QED BY <2>3, <2>4, <3>2, <4>2, <4>3
    <3> QED BY <3>1, <3>2
  <2>10. SendInOrder'
    BY <2>1, <2>9 DEF SendInOrder
  <2> QED BY <2>7, <2>8, <2>10
<1> QED
  BY <1>1, <1>2, <1>3, <1>4
     DEF Next, Run, ServeHTTP, vars, channels, history, RunRegister, RunUnregister, RunDone,
         Shutdown, Connect, SendRegister, StreamEnds, SendUnregister, ClientGone

LEMMA StepRefines ==
  ASSUME OrderInv, [Next]_vars
  PROVE  [Stream!Next]_(Stream!vars)
<1>0. send \in [Clients -> Seq(Nat)] /\ last \in [Clients -> Nat]
  BY DEF OrderInv, TypeOK
<1>1. CASE Publish \/ RunHeartbeat
  BY <1>1 DEF Publish, RunHeartbeat, Broadcast, history, Stream!Next, Stream!Publish
<1>2. CASE \E c \in Clients : StreamEvent(c)
  <2> PICK c \in Clients : StreamEvent(c)
    BY <1>2
  <2>1. send[c] # <<>> /\ send[c] \in Seq(Nat)
    BY <1>0 DEF StreamEvent
  <2>2. Head(send[c]) = send[c][1] /\ 1 \in 1..Len(send[c])
    BY <2>1
  <2>3. Head(send[c]) \in (last[c] + 1)..published
    BY <2>2 DEF OrderInv, SendInOrder
  <2>4. Stream!Deliver(c)
    BY <2>3 DEF Stream!Deliver, StreamEvent
  <2> QED BY <2>4 DEF Stream!Next
<1>3. CASE UNCHANGED <<published, last, written>>
  BY <1>3 DEF Stream!vars
<1> QED
  BY <1>1, <1>2, <1>3
     DEF Next, Run, ServeHTTP, vars, history, RunRegister, RunUnregister, RunBroadcast, RunDone,
         Shutdown, Connect, SendRegister, StreamEnds, SendUnregister, ClientGone

(* Every behaviour of the broker, its handlers and publishers is a behaviour *)
(* of EventStream: whatever is dropped at the two bounded queues, a client   *)
(* gets events in the order of publication and none twice.                   *)
THEOREM BrokerImplementsEventStream == Spec => Refines
<1>1. Init => Stream!Init
  BY DEF Init, Stream!Init
<1>2. Init => OrderInv
  BY InitTypeOK DEF Init, OrderInv, BroadcastInOrder, SendInOrder, QueuedIsNewer, LastWasPublished
<1>3. OrderInv /\ [Next]_vars => [Stream!Next]_(Stream!vars)
  BY StepRefines
<1> QED
  BY <1>1, <1>2, <1>3, NextOrderInv, PTL DEF Spec, Refines, Stream!Spec
=============================================================================
